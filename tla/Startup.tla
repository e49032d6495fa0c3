------------------------------ MODULE Startup ------------------------------
(***************************************************************************)
(* The life of the client process: main, initSingletons and                *)
(* DroneClient::init, which run on the main thread, among the threads that *)
(* they start on the way and that use what is there by then:               *)
(*                                                                         *)
(*   - objrepr's thread calls callbackApprovePending from the moment the   *)
(*     signal is connected;                                                *)
(*   - the controller's thread publishes "online" from the moment it runs; *)
(*   - the convertor's thread publishes telemetry once there is a pipeline.*)
(*                                                                         *)
(* A process ends by a failed start, an assertion, an uncaught exception   *)
(* or from outside, and is started again.  The attributes live on the      *)
(* objrepr server: they survive it.                                        *)
(***************************************************************************)
EXTENDS Integers, Sequences

CONSTANTS Contents,    \* configuration files that may be found, as records
          MaxStarts,   \* bound on the processes
          MaxWrites    \* bound on the operator's writes

VARIABLES
    main,        \* what the main thread does next; "down": no process
    content,     \* the configuration it read
    done,        \* what the start-up has established so far
    m_boardOnline,
    controller,  \* the controller's thread: "idle" or "publish"
    convertor,   \* the convertor's thread: "idle" or "send"
    pending,     \* callbacks objrepr has queued
    approving,   \* the value callbackApprovePending holds, or NoValue
    delivered,   \* the value rfc was last given by this process
    told,        \* has this process published "online"?
    online,      \* that attribute: "on", "off", or "unset"
    attr,        \* the operator's attribute: the number of its last write
    starts

processVars == <<content, done, m_boardOnline, controller, convertor,
                 pending, approving, delivered, told>>
serverVars == <<online, attr, starts>>
vars == <<main, processVars, serverVars>>

Sources == {"image-file", "drone", "video-file", "other"}
Contexts == {"unnamed", "known", "unknown"}

(* What is wrong with a file, in the order in which it is noticed, and     *)
(* what happens then.  A missing section is an exception nobody catches; a *)
(* missing key has a default, which for a path or an address is empty.     *)
Checks_noVideoFile ==
    << <<"syntax", "fail">>, <<"system section", "die">>, <<"server feature", "fail">>,
       <<"base section", "die">>, <<"own section", "die">>, <<"dump directory", "fail">>,
       <<"images directory", "fail">>, <<"lib config", "fail">>, <<"address", "fail">> >>
Checks ==
    << <<"syntax", "fail">>, <<"system section", "die">>, <<"server feature", "fail">>,
       <<"base section", "die">>, <<"own section", "die">>, <<"dump directory", "fail">>,
       <<"images directory", "fail">>, <<"lib config", "fail">>,
       <<"video file", "fail">>, <<"address", "fail">> >>
Defects == {"syntax", "system section", "server feature", "base section",
            "own section", "dump directory", "images directory", "lib config",
            "video file", "address", "log file name"}
NoContent == [defects |-> {"syntax"}, source |-> "other", context |-> "unnamed"]

ASSUME StartupAssumption ==
    /\ Contents \subseteq [defects : SUBSET Defects, source : Sources, context : Contexts]
    /\ MaxStarts \in Nat /\ MaxWrites \in Nat

NoValue == -1

Init ==
    /\ main = "down" /\ content = NoContent /\ done = {}
    /\ m_boardOnline = "off" /\ controller = "idle" /\ convertor = "idle"
    /\ pending = 0 /\ approving = NoValue /\ delivered = NoValue
    /\ told = FALSE /\ online = "unset" /\ attr = 0 /\ starts = 0

Alive == main # "down"

(* The process is gone, and what it knew. *)
Gone ==
    /\ main' = "down" /\ content' = NoContent /\ done' = {}
    /\ m_boardOnline' = "off" /\ controller' = "idle" /\ convertor' = "idle"
    /\ pending' = 0 /\ approving' = NoValue /\ delivered' = NoValue
    /\ told' = FALSE
    /\ UNCHANGED serverVars

(* A call of the main thread: it succeeds and establishes its facts,       *)
(* returns false up to main, which returns, or ends the process.           *)
Call(here, outcomes, facts, next) ==
    /\ main = here
    /\ \/ /\ "ok" \in outcomes
          /\ main' = next /\ done' = done \cup facts
          /\ UNCHANGED <<content, m_boardOnline, controller, convertor,
                         pending, approving, delivered, told, serverVars>>
       \/ /\ "fail" \in outcomes
          /\ main' = "return"
          /\ UNCHANGED <<processVars, serverVars>>
       \/ "die" \in outcomes /\ Gone

----------------------------------------------------------------------------
Start ==
    /\ main = "down" /\ starts < MaxStarts
    /\ main' = "config" /\ starts' = starts + 1
    /\ UNCHANGED <<processVars, online, attr>>

(* getConfigFilePath: the environment variable names the file, whether it  *)
(* is there or not; else the home directory, which must be known; else     *)
(* /etc.                                                                   *)
Places == {"unset", "missing", "present"}

Found(variable, home, etc) ==
    CASE variable # "unset" -> variable
      [] variable = "unset" /\ home = "unset" -> "unset"
      [] OTHER -> IF "present" \in {home, etc} THEN "present" ELSE "nowhere"

ReadConfig(found) ==
    /\ found \in {"present", "missing"}
    /\ content' \in IF found = "present" THEN Contents ELSE {NoContent}
    /\ main' = "parse"
    /\ UNCHANGED <<done, m_boardOnline, controller, convertor, pending,
                   approving, delivered, told, serverVars>>

getConfigFilePath ==
    /\ main = "config"
    /\ \E variable, home \in Places, etc \in {"missing", "present"} :
         LET found == Found(variable, home, etc) IN
         \/ ReadConfig(found)
         \/ found = "unset" /\ Gone
         \/ /\ found = "nowhere" /\ main' = "return"
            /\ UNCHANGED <<processVars, serverVars>>

(* parseBase and parse.  The video file matters to its own source only. *)
Relevant(c) == IF c.source = "video-file" THEN c.defects ELSE c.defects \ {"video file"}

Verdict(c) ==
    LET failing == {n \in DOMAIN Checks : Checks[n][1] \in Relevant(c)}
    IN  IF failing = {} THEN {"ok"}
        ELSE {Checks[n][2] : n \in {m \in failing : \A k \in failing : m <= k}}

parse == Call("parse", Verdict(content), {}, "logger")

Logger_initGlobal ==
    Call("logger", IF "log file name" \in content.defects THEN {"die"} ELSE {"ok"}, {}, "bus")

(* The library may not launch.  The context is looked up by name: unknown  *)
(* is 0, which opens none, and the name of none is logged.                 *)
openContext == IF content.context = "unknown" THEN {"die"} ELSE {"ok"}

ObjreprBus_init == \/ Call("bus", {"die"}, {}, "down")
                   \/ Call("bus", openContext, {}, "objects")

----------------------------------------------------------------------------
(* ControlSignalReceiver::init: the objects, the signals, the map. *)
BindObjects == Call("objects", {"ok", "fail"}, {}, "signals")
ConnectSignals == Call("signals", {"ok"}, {"approvePending"}, "map")
BindAttrMap == Call("map", {"ok"}, {"attrMap", "objectUpdated"}, "observe controls")

(* m_controlSignalReceiver.addObserver, twice: while the vector is being   *)
(* filled another thread may see the observer, miss it, or see half of it. *)
AddControlObserver == Call("observe controls", {"ok"}, {}, "observing controls")
AddedControlObserver_forgotten == Call("observing controls", {"ok"}, {"systemObserver"}, "controller")
AddedControlObserver ==
    Call("observing controls", {"ok"}, {"controlObserver", "systemObserver"}, "controller")

(* DroneController::init: rfc, its configuration, its start, the thread. *)
DroneController_init == \/ Call("controller", {"fail", "die"}, {}, "down")
                        \/ Call("controller", {"ok"}, {"rfc"}, "controller thread")
StartController == Call("controller thread", {"ok"}, {"controllerThread"}, "observe state")

AddStateObserver == Call("observe state", {"ok"}, {}, "observing state")
AddedStateObserver == Call("observing state", {"ok"}, {"stateObserver"}, "provider")

(* The image provider, or the source type that is none: it is only here    *)
(* that a wrong one is noticed.                                            *)
Provider_init ==
    CASE content.source = "image-file" ->
           Call("provider", {"ok", "die"}, {"imageProvider"}, "generator")
      [] content.source = "drone" ->
           Call("provider", {"ok", "fail", "die"}, {}, "drone signals")
      [] content.source = "video-file" ->
           Call("provider", {"ok"}, {}, "convertor")
      [] OTHER -> Call("provider", {"fail"}, {}, "down")

ConnectFirstFrame ==
    Call("drone signals", {"ok"}, {"firstFrameSlot", "imageProvider"}, "generator")

(* VideoGenerator::init; a drone's first frame connects it later. *)
VideoGenerator_init ==
    Call("generator", {"ok"}, {"generator"},
         IF content.source = "drone" THEN "loop" ELSE "connect")

(* VideoConvertor::init: its thread runs before its table is read. *)
StartConvertor == Call("convertor", {"ok"}, {"convertorThread"}, "table")
parseTelemetryFile_detached == Call("table", {"ok"}, {}, "observe convertor")
parseTelemetryFile == Call("table", {"ok", "fail", "die"}, {"table"}, "observe convertor")
AddConvertorObserver ==
    Call("observe convertor", {"ok"}, {"convertorObserver"}, "connect")

(* connectToSource, of either: m_gstPipeline is stored, perhaps even a     *)
(* partial pipeline, before the error is looked at.                        *)
BuildPipeline == Call("connect", {"ok"}, {"pipeline"}, "play")
BuildNothing == Call("connect", {"fail"}, {}, "return")
PlayPipeline == Call("play", {"ok", "fail"}, {"playing"}, "loop")

(* main returns: the process ends, whatever its threads are doing. *)
ExitProcess == main = "return" /\ Gone

initSingletons == \/ getConfigFilePath \/ parse \/ Logger_initGlobal \/ ObjreprBus_init
ControlSubSystem == \/ BindObjects \/ ConnectSignals \/ BindAttrMap
                    \/ AddControlObserver \/ AddedControlObserver
                    \/ DroneController_init \/ StartController
                    \/ AddStateObserver \/ AddedStateObserver
VideoSubSystem == \/ Provider_init
                  \/ ConnectFirstFrame \/ VideoGenerator_init
                  \/ StartConvertor \/ parseTelemetryFile \/ AddConvertorObserver
                  \/ BuildPipeline \/ BuildNothing \/ PlayPipeline
mainThread == initSingletons \/ ControlSubSystem \/ VideoSubSystem \/ ExitProcess

(* The event loop: firstFrameFronDrone drops the result of connectToSource. *)
firstFrameFronDrone ==
    /\ main = "loop" /\ "firstFrameSlot" \in done /\ "pipeline" \notin done
    /\ done' \in {done \cup {"pipeline"}, done \cup {"pipeline", "playing"}}
    /\ UNCHANGED <<main, content, m_boardOnline, controller, convertor,
                   pending, approving, delivered, told, serverVars>>

----------------------------------------------------------------------------
(* The operator writes; objrepr queues a callback if it is connected. *)
Write ==
    /\ attr < MaxWrites
    /\ attr' = attr + 1
    /\ pending' = IF "approvePending" \in done THEN pending + 1 ELSE pending
    /\ UNCHANGED <<main, content, done, m_boardOnline, controller, convertor,
                   approving, delivered, told, online, starts>>

(* callbackApprovePending: the attribute is taken from the map, approved   *)
(* and read; the map may not be there yet.                                 *)
Approve_spurious ==
    /\ Alive /\ approving = NoValue
    /\ IF "attrMap" \notin done THEN Gone
       ELSE /\ approving' = attr
            /\ pending' = pending - 1
            /\ UNCHANGED <<main, content, done, m_boardOnline, controller,
                           convertor, delivered, told, serverVars>>
Approve ==
    /\ Alive /\ pending > 0 /\ approving = NoValue
    /\ IF "attrMap" \notin done THEN Gone
       ELSE /\ approving' = attr
            /\ pending' = pending - 1
            /\ UNCHANGED <<main, content, done, m_boardOnline, controller,
                           convertor, delivered, told, serverVars>>

(* ... and told to the observers there are; before rfc is set up the       *)
(* command may come to nothing.                                            *)
Observe ==
    /\ approving # NoValue
    /\ \/ /\ "controlObserver" \in done \/ main = "observing controls"
          /\ delivered' \in IF "rfc" \in done THEN {approving} ELSE {delivered, approving}
       \/ "controlObserver" \notin done /\ UNCHANGED delivered
    /\ approving' = NoValue
    /\ UNCHANGED <<main, content, done, m_boardOnline, controller, convertor,
                   pending, told, serverVars>>
ObserveTorn == approving # NoValue /\ main = "observing controls" /\ Gone

objreprThread == Approve \/ Observe \/ ObserveTorn

(* checkPings or the imitated link: an edge, and whether it is told.  A    *)
(* thread that saw the observer once sees it from then on.                 *)
Other(state) == IF state = "on" THEN "off" ELSE "on"

Edge_onlineOnly ==
    /\ "controllerThread" \in done /\ controller = "idle"
    /\ m_boardOnline' = Other(m_boardOnline)
    /\ controller' = IF "stateObserver" \in done /\ m_boardOnline = "off" THEN "publish" ELSE "idle"
    /\ UNCHANGED <<main, content, done, convertor, pending, approving,
                   delivered, told, serverVars>>
Edge ==
    /\ "controllerThread" \in done /\ controller = "idle"
    /\ m_boardOnline' = Other(m_boardOnline)
    /\ controller' \in
         CASE "stateObserver" \in done -> {"publish"}
           [] main = "observing state" -> IF told THEN {"publish"} ELSE {"idle", "publish"}
           [] OTHER -> {"idle"}
    /\ UNCHANGED <<main, content, done, convertor, pending, approving,
                   delivered, told, serverVars>>
EdgeTorn == main = "observing state" /\ controller = "idle" /\ ~told /\ Gone

callbackBoardOnline ==
    /\ controller = "publish"
    /\ online' = m_boardOnline
    /\ told' = TRUE /\ controller' = "idle"
    /\ UNCHANGED <<main, content, done, m_boardOnline, convertor, pending,
                   approving, delivered, attr, starts>>

(* The convertor's thread polls as soon as it finds a pipeline. *)
Poll ==
    /\ {"convertorThread", "pipeline"} \subseteq done
    /\ convertor = "idle" /\ convertor' = "send"
    /\ UNCHANGED <<main, content, done, m_boardOnline, controller, pending,
                   approving, delivered, told, serverVars>>
sendCurrentTelemetry ==
    /\ convertor = "send" /\ convertor' = "idle"
    /\ UNCHANGED <<main, content, done, m_boardOnline, controller, pending,
                   approving, delivered, told, serverVars>>

Kill == Alive /\ Gone

Next == \/ Start \/ mainThread \/ firstFrameFronDrone \/ Write \/ objreprThread
        \/ Edge \/ EdgeTorn \/ callbackBoardOnline
        \/ Poll \/ sendCurrentTelemetry \/ Kill

Spec == Init /\ [][Next]_vars
FairSpec == Spec /\ WF_vars(objreprThread)

----------------------------------------------------------------------------
MainPlaces == {"down", "return", "config", "parse", "logger", "bus", "objects",
               "signals", "map", "observe controls", "observing controls",
               "controller", "controller thread", "observe state",
               "observing state", "provider", "drone signals", "generator",
               "convertor", "table", "observe convertor", "connect", "play", "loop"}
Always == {"approvePending", "attrMap", "objectUpdated", "controlObserver",
           "systemObserver", "rfc", "controllerThread", "stateObserver"}
Generating == {"imageProvider", "generator"}
Converting == {"convertorThread", "table", "convertorObserver"}
Facts == Always \cup Generating \cup Converting
         \cup {"firstFrameSlot", "pipeline", "playing"}

TypeOK ==
    /\ main \in MainPlaces /\ content \in Contents \cup {NoContent}
    /\ done \subseteq Facts
    /\ m_boardOnline \in {"on", "off"} /\ online \in {"on", "off", "unset"}
    /\ controller \in {"idle", "publish"} /\ convertor \in {"idle", "send"}
    /\ attr \in 0..MaxWrites /\ pending \in 0..MaxWrites
    /\ {approving, delivered} \subseteq 0..attr \cup {NoValue}
    /\ told \in BOOLEAN /\ starts \in 0..MaxStarts

(* No thread uses what the start-up has yet to make, although each is      *)
(* started in the middle of it: who publishes "online" has the attribute   *)
(* map, a command that is handed on came through it, the convertor's       *)
(* thread, which runs before its table is parsed, finds the table complete *)
(* when it sends, and a pipeline that asks for pictures has a provider.    *)
ReadyBeforeUse ==
    /\ controller = "publish" \/ approving # NoValue => "attrMap" \in done
    /\ convertor = "send" => {"table", "convertorObserver"} \subseteq done
    /\ "playing" \in done => Generating \subseteq done \/ Converting \subseteq done

(* A client that reaches its event loop is complete and runs on a good     *)
(* configuration: whichever calls failed on the way, none was passed over, *)
(* and what is wrong in the file was found by the reader, the logger, the  *)
(* bus or DroneClient, each in its way, and ended the start.               *)
Needed(source) ==
    Always \cup CASE source = "image-file" -> Generating \cup {"playing"}
                  [] source = "drone"      -> Generating \cup {"firstFrameSlot"}
                  [] source = "video-file" -> Converting \cup {"playing"}
                  [] OTHER                 -> {"no such source"}
Tolerated(source) == IF source = "video-file" THEN {} ELSE {"video file"}

RunningIsComplete ==
    main = "loop" => /\ Needed(content.source) \subseteq done
                     /\ content.defects \subseteq Tolerated(content.source)
                     /\ content.context # "unknown"

(* "online" outlives the client that wrote it.  It may be stale while a    *)
(* new client has not published anything, and at no later time, however    *)
(* early the first edge came.                                              *)
StaleOnlyUntilTold == told /\ controller = "idle" => online = m_boardOnline

(* A write whose callback is queued when the client runs reaches the drone *)
(* library, unless the client ends: no callback waits for an observer that *)
(* the start-up forgot.                                                    *)
WritesAreHeard == main = "loop" /\ pending > 0 ~> delivered = attr \/ main # "loop"
=============================================================================

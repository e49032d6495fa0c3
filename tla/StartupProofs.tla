--------------------------- MODULE StartupProofs ---------------------------
(***************************************************************************)
(* Proofs about Startup, for every set of configuration files and every    *)
(* number of processes and writes: types, no thread uses what is not there *)
(* yet, a client that runs is complete and drops no write, and "online" is *)
(* stale only until the process has published it.                          *)
(*                                                                         *)
(* The invariant says what is made at each place of the main thread, what  *)
(* the facts that are made say of each other, wherever the main thread is, *)
(* and what they mean to the threads that run beside it.                   *)
(***************************************************************************)
EXTENDS Startup, TLAPS

(* Where nothing is made yet, and where the reader, the logger and the bus *)
(* have done their part.                                                   *)
Unmade == {"down", "config", "parse", "logger", "bus", "objects", "signals"}
AfterParse == MainPlaces \ {"down", "return", "config", "parse"}
AfterLogger == AfterParse \ {"logger"}
AfterBus == AfterLogger \ {"bus"}

(* What the start-up has made by the time it gets to a place. *)
Bound == {"approvePending", "attrMap", "objectUpdated"}
Observed == Bound \cup {"controlObserver", "systemObserver"}
Provided(source) ==
    IF source = "drone" THEN {"imageProvider", "firstFrameSlot"} ELSE {"imageProvider"}
Fed(source) == IF source = "video-file" THEN Converting ELSE Generating

Made(place, source) ==
    CASE place = "map"                -> {"approvePending"}
      [] place = "observe controls"   -> Bound
      [] place = "observing controls" -> Bound
      [] place = "controller"         -> Observed
      [] place = "controller thread"  -> Observed \cup {"rfc"}
      [] place = "observe state"      -> Observed \cup {"rfc", "controllerThread"}
      [] place = "observing state"    -> Observed \cup {"rfc", "controllerThread"}
      [] place = "provider"           -> Always
      [] place = "drone signals"      -> Always
      [] place = "generator"          -> Always \cup Provided(source)
      [] place = "convertor"          -> Always
      [] place = "table"              -> Always \cup {"convertorThread"}
      [] place = "observe convertor"  -> Always \cup {"convertorThread", "table"}
      [] place = "connect"            -> Always \cup Fed(source)
      [] place = "play"               -> Always \cup Fed(source)
      [] place = "loop"               -> Needed(source)
      [] OTHER                        -> {}

(* Which sources lead to a place. *)
Leads(source, place) ==
    CASE place = "drone signals" -> source = "drone"
      [] place = "generator"     -> source \in {"image-file", "drone"}
      [] place \in {"convertor", "table", "observe convertor"} -> source = "video-file"
      [] place \in {"connect", "play"} -> source \in {"image-file", "video-file"}
      [] OTHER                   -> TRUE

Reached(place, c, d) ==
    /\ place \in Unmade => d = {}
    /\ place \in AfterParse => Relevant(c) \subseteq {"log file name"}
    /\ place \in AfterLogger => "log file name" \notin c.defects
    /\ place \in AfterBus => c.context # "unknown"
    /\ Made(place, c.source) \subseteq d
    /\ Leads(c.source, place)

(* Wherever the main thread is, also on its way out: a fact that was made  *)
(* was made on top of others.                                              *)
Consistent(c, d) ==
    /\ d \cap {"controllerThread", "stateObserver"} # {} => "attrMap" \in d
    /\ "convertorThread" \in d => c.source = "video-file"
    /\ "firstFrameSlot" \in d => c.source = "drone"
    /\ d \cap {"pipeline", "playing"} # {} => Fed(c.source) \subseteq d

(* The threads: who published saw the observer, which is there or about to *)
(* be; and no callback was queued that no write had asked for.             *)
SawObserver == controller = "publish" \/ told =>
                   "stateObserver" \in done \/ main = "observing state"
QueuedByWrites == pending <= attr

(* The types, those of the numbers apart.                                  *)
Labels ==
    /\ main \in MainPlaces /\ content \in Contents \cup {NoContent}
    /\ done \subseteq Facts
    /\ m_boardOnline \in {"on", "off"} /\ online \in {"on", "off", "unset"}
    /\ controller \in {"idle", "publish"} /\ convertor \in {"idle", "send"}
Numbers ==
    /\ attr \in 0..MaxWrites /\ pending \in 0..MaxWrites
    /\ {approving, delivered} \subseteq 0..attr \cup {NoValue}
    /\ starts \in 0..MaxStarts
Told == told \in BOOLEAN

IInv == /\ Labels /\ Numbers /\ Told
        /\ ReadyBeforeUse /\ StaleOnlyUntilTold
        /\ Reached(main, content, done) /\ Consistent(content, done)
        /\ SawObserver /\ QueuedByWrites

----------------------------------------------------------------------------
(* Files. *)
LEMMA ContentTypes ==
    ASSUME Labels
    PROVE  /\ content.defects \subseteq Defects
           /\ content.source \in Sources /\ content.context \in Contexts
<1>1. NoContent \in [defects : SUBSET Defects, source : Sources, context : Contexts]
  BY DEF NoContent, Defects, Sources, Contexts
<1>2. content \in [defects : SUBSET Defects, source : Sources, context : Contexts]
  BY <1>1, StartupAssumption DEF Labels
<1> QED BY <1>2

(* What the reader lets pass has no defect that matters to it.             *)
LEMMA VerdictOk ==
    ASSUME NEW c, c.defects \subseteq Defects, "ok" \in Verdict(c)
    PROVE  Relevant(c) \subseteq {"log file name"}
<1> DEFINE failing == {n \in DOMAIN Checks : Checks[n][1] \in Relevant(c)}
<1>1. DOMAIN Checks = 1..10
  BY DEF Checks
<1>2. /\ Checks[1][1] = "syntax" /\ Checks[2][1] = "system section"
      /\ Checks[3][1] = "server feature" /\ Checks[4][1] = "base section"
      /\ Checks[5][1] = "own section" /\ Checks[6][1] = "dump directory"
      /\ Checks[7][1] = "images directory" /\ Checks[8][1] = "lib config"
      /\ Checks[9][1] = "video file" /\ Checks[10][1] = "address"
  BY DEF Checks
<1>3. \A n \in 1..10 : n \in {1, 2, 3, 4, 5, 6, 7, 8, 9, 10}
  OBVIOUS
<1>4. \A n \in DOMAIN Checks : Checks[n][2] # "ok"
  <2> TAKE n \in DOMAIN Checks
  <2>1. n \in {1, 2, 3, 4, 5, 6, 7, 8, 9, 10}
    BY <1>1, <1>3
  <2>2. /\ Checks[1][2] = "fail" /\ Checks[2][2] = "die" /\ Checks[3][2] = "fail"
        /\ Checks[4][2] = "die" /\ Checks[5][2] = "die" /\ Checks[6][2] = "fail"
        /\ Checks[7][2] = "fail" /\ Checks[8][2] = "fail" /\ Checks[9][2] = "fail"
        /\ Checks[10][2] = "fail"
    BY DEF Checks
  <2> QED BY <2>1, <2>2
<1>5. failing = {}
  <2>1. SUFFICES ASSUME failing # {}
                 PROVE  FALSE
    OBVIOUS
  <2>2. Verdict(c) = {Checks[n][2] : n \in {m \in failing : \A k \in failing : m <= k}}
    BY <2>1 DEF Verdict
  <2> QED BY <1>4, <2>2
<1>6. \A d \in Defects \ {"log file name"} : \E n \in DOMAIN Checks : Checks[n][1] = d
  <2>1. {1, 2, 3, 4, 5, 6, 7, 8, 9, 10} \subseteq DOMAIN Checks
    BY <1>1
  <2> QED BY <1>2, <2>1 DEF Defects
<1>7. Relevant(c) \subseteq Defects
  BY DEF Relevant
<1> QED BY <1>5, <1>6, <1>7

----------------------------------------------------------------------------
(* The end of a process: the next one finds nothing but the server. *)
LEMMA NothingMade ==
    ASSUME NEW c
    PROVE  Reached("down", c, {}) /\ Consistent(c, {})
BY DEF Reached, Consistent, Made, Leads, AfterParse, AfterLogger, AfterBus, MainPlaces

LEMMA InitIInv ==
    ASSUME Init
    PROVE  IInv
<1>1. Labels
  BY DEF Init, Labels, MainPlaces
<1>2. Numbers /\ QueuedByWrites
  BY StartupAssumption DEF Init, Numbers, NoValue, QueuedByWrites
<1>3. ReadyBeforeUse
  BY DEF Init, ReadyBeforeUse
<1>4. Told /\ StaleOnlyUntilTold /\ SawObserver
  BY Zenon DEF Init, Told, StaleOnlyUntilTold, SawObserver
<1>5. Reached(main, content, done) /\ Consistent(content, done)
  BY NothingMade DEF Init
<1> QED BY <1>1, <1>2, <1>3, <1>4, <1>5 DEF IInv

LEMMA GoneKeeps ==
    ASSUME IInv, Gone
    PROVE  IInv'
<1>1. Labels'
  BY DEF IInv, Gone, Labels, MainPlaces, serverVars
<1>2. Numbers' /\ QueuedByWrites'
  BY StartupAssumption DEF IInv, Gone, Numbers, NoValue, QueuedByWrites, serverVars
<1>3. ReadyBeforeUse'
  BY DEF Gone, ReadyBeforeUse
<1>4. Told' /\ StaleOnlyUntilTold' /\ SawObserver'
  <2>1. controller' = "idle" /\ told' = FALSE
    BY DEF Gone
  <2>2. Told'
    BY <2>1, Zenon DEF Told
  <2>3. StaleOnlyUntilTold'
    BY <2>1, Zenon DEF StaleOnlyUntilTold
  <2>4. SawObserver'
    BY <2>1, Zenon DEF SawObserver
  <2> QED BY <2>2, <2>3, <2>4
<1>5. Reached(main, content, done)' /\ Consistent(content, done)'
  BY NothingMade DEF Gone
<1> QED BY <1>1, <1>2, <1>3, <1>4, <1>5 DEF IInv

(* A call of the main thread is right if its success leads to where the    *)
(* facts it adds are what the place asks for, and if it cannot fail while  *)
(* another thread may see half of the observer.                            *)
LEMMA CallKeeps ==
    ASSUME IInv, NEW here, NEW outcomes, NEW facts \in SUBSET Facts,
           NEW next \in MainPlaces, Call(here, outcomes, facts, next),
           here = "observing state" =>
               outcomes = {"ok"} /\ "stateObserver" \in facts,
           "ok" \in outcomes /\ Reached(here, content, done) /\ Consistent(content, done)
             => /\ Reached(next, content, done \cup facts)
                /\ Consistent(content, done \cup facts)
    PROVE  IInv'
<1> DEFINE Failed == /\ "fail" \in outcomes /\ main' = "return"
                     /\ UNCHANGED <<processVars, serverVars>>
           Done == /\ "ok" \in outcomes /\ main' = next /\ done' = done \cup facts
                   /\ UNCHANGED <<content, m_boardOnline, controller, convertor,
                                  pending, approving, delivered, told, serverVars>>
<1>1. main = here /\ (Gone \/ Failed \/ Done)
  BY Zenon DEF Call
<1>2. CASE Gone
  BY <1>2, GoneKeeps
<1>3. CASE Failed
  <2>1. Labels'
    BY <1>3 DEF IInv, Labels, MainPlaces, processVars, serverVars
  <2>2. Numbers' /\ QueuedByWrites'
    BY <1>3 DEF IInv, Numbers, QueuedByWrites, processVars, serverVars
  <2>3. ReadyBeforeUse'
    BY <1>3 DEF IInv, ReadyBeforeUse, processVars
  <2>4. main # "observing state"
    <3>1. "fail" \in outcomes /\ main = here
      BY <1>1, <1>3, Zenon
    <3>2. "fail" \notin {"ok"}
      OBVIOUS
    <3> QED BY <3>1, <3>2, Zenon
  <2>5. Told' /\ StaleOnlyUntilTold' /\ SawObserver'
    BY <1>3, <2>4, Zenon
    DEF IInv, Told, StaleOnlyUntilTold, SawObserver, processVars, serverVars
  <2>6. Reached(main, content, done)'
    BY <1>3 DEF Reached, Made, Leads, Unmade, AfterParse, AfterLogger, AfterBus, processVars
  <2>7. Consistent(content, done)'
    BY <1>3 DEF IInv, Consistent, processVars
  <2> QED BY <2>1, <2>2, <2>3, <2>5, <2>6, <2>7 DEF IInv
<1>4. CASE Done
  <2>1. Labels'
    BY <1>4 DEF IInv, Labels, serverVars
  <2>2. Numbers' /\ QueuedByWrites'
    BY <1>4 DEF IInv, Numbers, QueuedByWrites, serverVars
  <2>3. Reached(main, content, done)' /\ Consistent(content, done)'
    <3>1. Reached(next, content, done \cup facts) /\ Consistent(content, done \cup facts)
      BY <1>1, <1>4 DEF IInv
    <3> QED BY <1>4, <3>1, Zenon
  <2>4. done \subseteq done'
    BY <1>4
  <2>5. ReadyBeforeUse'
    BY <1>4, <2>3, <2>4 DEF IInv, ReadyBeforeUse, Consistent, Fed
  <2>6. "stateObserver" \in done \/ main = "observing state" => "stateObserver" \in done'
    BY <1>1, <1>4
  <2>7. Told' /\ StaleOnlyUntilTold' /\ SawObserver'
    BY <1>4, <2>6, Zenon DEF IInv, Told, StaleOnlyUntilTold, SawObserver, serverVars
  <2> QED BY <2>1, <2>2, <2>3, <2>5, <2>7 DEF IInv
<1> QED BY <1>1, <1>2, <1>3, <1>4

(* Past the bus: a call leads on to places that ask for no more than what  *)
(* was there or is made on the way, and what it makes has its ground.      *)
Grounded(facts, place, source) ==
    /\ facts \cap {"controllerThread", "stateObserver"} # {} => "attrMap" \in Made(place, source)
    /\ "convertorThread" \in facts => source = "video-file"
    /\ "firstFrameSlot" \in facts => source = "drone"
    /\ facts \cap {"pipeline", "playing"} # {} => Fed(source) \subseteq Made(place, source)
LeadsOn(here, facts, next, source) ==
    /\ Leads(source, next)
    /\ Made(next, source) \subseteq Made(here, source) \cup facts
    /\ Grounded(facts, here, source)

LEMMA CallOnKeeps ==
    ASSUME IInv, NEW here \in AfterBus, NEW outcomes, NEW facts \in SUBSET Facts,
           NEW next \in AfterBus \ Unmade, Call(here, outcomes, facts, next),
           here = "observing state" => outcomes = {"ok"} /\ "stateObserver" \in facts,
           Leads(content.source, here) => LeadsOn(here, facts, next, content.source)
    PROVE  IInv'
<1>1. next \in MainPlaces /\ next \notin Unmade
  BY DEF AfterBus, AfterLogger, AfterParse
<1>2. ASSUME Reached(here, content, done)
      PROVE  Reached(next, content, done \cup facts)
  <2>1. here \in AfterParse /\ here \in AfterLogger /\ here \in AfterBus
    BY DEF AfterBus, AfterLogger
  <2>2. Made(here, content.source) \subseteq done /\ LeadsOn(here, facts, next, content.source)
    BY <1>2, Zenon DEF Reached
  <2>3. Made(next, content.source) \subseteq done \cup facts
    BY <2>2 DEF LeadsOn
  <2> QED BY <1>1, <1>2, <2>1, <2>2, <2>3, Zenon DEF Reached, LeadsOn
<1>3. ASSUME Reached(here, content, done), Consistent(content, done)
      PROVE  Consistent(content, done \cup facts)
  <2>1. Made(here, content.source) \subseteq done /\ Grounded(facts, here, content.source)
    BY <1>3, Zenon DEF Reached, LeadsOn
  <2> QED BY <1>3, <2>1 DEF Consistent, Grounded
<1> QED BY <1>1, <1>2, <1>3, CallKeeps

----------------------------------------------------------------------------
(* The reader, the logger and the bus. *)
LEMMA ReaderKeeps ==
    ASSUME IInv, initSingletons
    PROVE  IInv'
<1>1. CASE parse
  <2>1. "ok" \in Verdict(content) => Relevant(content) \subseteq {"log file name"}
    BY VerdictOk, ContentTypes DEF IInv
  <2>2. "ok" \in Verdict(content) /\ Reached("parse", content, done)
          => Reached("logger", content, done)
    BY <2>1 DEF Reached, Made, Leads, Unmade, AfterParse, AfterLogger, AfterBus
  <2>3. "logger" \in MainPlaces /\ {} \subseteq Facts /\ done \cup {} = done
    BY DEF MainPlaces
  <2> QED BY <1>1, <2>2, <2>3, CallKeeps DEF parse
<1>2. CASE Logger_initGlobal
  <2> DEFINE outcomes == IF "log file name" \in content.defects THEN {"die"} ELSE {"ok"}
  <2>1. "ok" \in outcomes => "log file name" \notin content.defects
    OBVIOUS
  <2>2. "ok" \in outcomes /\ Reached("logger", content, done)
          => Reached("bus", content, done)
    BY <2>1 DEF Reached, Made, Leads, Unmade, AfterParse, AfterLogger, AfterBus, MainPlaces
  <2>3. "bus" \in MainPlaces /\ {} \subseteq Facts /\ done \cup {} = done
    BY DEF MainPlaces
  <2> QED BY <1>2, <2>2, <2>3, CallKeeps DEF Logger_initGlobal
<1>3. CASE Call("bus", {"die"}, {}, "down")
  <2>1. "down" \in MainPlaces /\ {} \subseteq Facts /\ "ok" \notin {"die"}
    BY DEF MainPlaces
  <2> QED BY <1>3, <2>1, CallKeeps
<1>4. CASE Call("bus", openContext, {}, "objects")
  <2>1. "ok" \in openContext => content.context # "unknown"
    BY DEF openContext
  <2>2. "ok" \in openContext /\ Reached("bus", content, done)
          => Reached("objects", content, done)
    BY <2>1 DEF Reached, Made, Leads, Unmade, AfterParse, AfterLogger, AfterBus, MainPlaces
  <2>3. "objects" \in MainPlaces /\ {} \subseteq Facts /\ done \cup {} = done
    BY DEF MainPlaces
  <2> QED BY <1>4, <2>2, <2>3, CallKeeps
<1>5. CASE getConfigFilePath
  <2>1. ASSUME NEW found, ReadConfig(found), main = "config"
        PROVE  IInv'
    <3>1. content' \in Contents \cup {NoContent}
      BY <2>1 DEF ReadConfig
    <3>2. Labels'
      BY <2>1, <3>1 DEF IInv, Labels, MainPlaces, ReadConfig, serverVars
    <3>3. Numbers' /\ QueuedByWrites'
      BY <2>1 DEF IInv, Numbers, QueuedByWrites, ReadConfig, serverVars
    <3>4. done = {} /\ done' = {}
      BY <2>1 DEF IInv, Reached, Unmade, ReadConfig
    <3>5. ReadyBeforeUse'
      BY <2>1 DEF IInv, ReadyBeforeUse, ReadConfig
    <3>6. main # "observing state"
      BY <2>1
    <3>7. Told' /\ StaleOnlyUntilTold' /\ SawObserver'
      BY <2>1, <3>6, Zenon
      DEF IInv, Told, StaleOnlyUntilTold, SawObserver, ReadConfig, serverVars
    <3>8. Reached("parse", content', {}) /\ Consistent(content', {})
      BY NothingMade DEF Reached, Made, Leads, Unmade, AfterParse, AfterLogger, AfterBus
    <3>9. Reached(main, content, done)' /\ Consistent(content, done)'
      BY <2>1, <3>4, <3>8 DEF ReadConfig
    <3> QED BY <3>2, <3>3, <3>5, <3>7, <3>9 DEF IInv
  <2>2. ASSUME main = "config", main' = "return", UNCHANGED <<processVars, serverVars>>
        PROVE  IInv'
    <3>1. Call("config", {"fail"}, {}, "down")
      BY <2>2 DEF Call
    <3>2. "down" \in MainPlaces /\ {} \subseteq Facts /\ "ok" \notin {"fail"}
      BY DEF MainPlaces
    <3> QED BY <3>1, <3>2, CallKeeps
  <2>3. main = "config" /\ \/ \E found : ReadConfig(found)
                           \/ Gone
                           \/ main' = "return" /\ UNCHANGED <<processVars, serverVars>>
    BY <1>5, Zenon DEF getConfigFilePath
  <2> QED BY <2>1, <2>2, <2>3, GoneKeeps
<1> QED BY <1>1, <1>2, <1>3, <1>4, <1>5 DEF initSingletons, ObjreprBus_init

----------------------------------------------------------------------------
(* The places past the bus, and of them those where something is made. *)
Stations == {"map", "observe controls", "observing controls", "controller",
             "controller thread", "observe state", "observing state", "provider",
             "drone signals", "generator", "convertor", "table", "observe convertor",
             "connect", "play", "loop"}
LEMMA StationsAreOn == /\ "signals" \in AfterBus
                       /\ \A place \in Stations : place \in AfterBus \ Unmade
BY DEF Stations, AfterBus, AfterLogger, AfterParse, MainPlaces, Unmade

(* ControlSignalReceiver and DroneController. *)
LEMMA ControlKeeps ==
    ASSUME IInv, ControlSubSystem
    PROVE  IInv'
<1>1. CASE BindObjects
  <2>1. Reached("objects", content, done) => Reached("signals", content, done)
    BY DEF Reached, Made, Leads, Unmade, AfterParse, AfterLogger, AfterBus, MainPlaces
  <2>2. "signals" \in MainPlaces /\ {} \subseteq Facts /\ done \cup {} = done
    BY DEF MainPlaces
  <2> QED BY <1>1, <2>1, <2>2, CallKeeps DEF BindObjects
<1>2. CASE ConnectSignals
  <2>1. /\ "signals" \in AfterBus /\ "map" \in AfterBus \ Unmade
        /\ {"approvePending"} \subseteq Facts
    BY StationsAreOn DEF Stations, Facts, Always, Generating, Converting
  <2>2. Leads(content.source, "signals")
          => LeadsOn("signals", {"approvePending"}, "map", content.source)
    BY SMT DEF LeadsOn, Grounded, Leads, Made, Bound, Observed, Always, Provided, Fed,
                Generating, Converting, Needed
  <2> QED BY <1>2, <2>1, <2>2, CallOnKeeps DEF ConnectSignals
<1>3. CASE BindAttrMap
  <2>1. /\ "map" \in AfterBus /\ "observe controls" \in AfterBus \ Unmade
        /\ {"attrMap", "objectUpdated"} \subseteq Facts
    BY StationsAreOn DEF Stations, Facts, Always, Generating, Converting
  <2>2. Leads(content.source, "map")
          => LeadsOn("map", {"attrMap", "objectUpdated"},
                     "observe controls", content.source)
    BY SMT DEF LeadsOn, Grounded, Leads, Made, Bound, Observed, Always, Provided, Fed,
                Generating, Converting, Needed
  <2> QED BY <1>3, <2>1, <2>2, CallOnKeeps DEF BindAttrMap
<1>4. CASE AddControlObserver
  <2>1. /\ "observe controls" \in AfterBus /\ "observing controls" \in AfterBus \ Unmade
        /\ {} \subseteq Facts
    BY StationsAreOn DEF Stations, Facts, Always, Generating, Converting
  <2>2. Leads(content.source, "observe controls")
          => LeadsOn("observe controls", {}, "observing controls", content.source)
    BY SMT DEF LeadsOn, Grounded, Leads, Made, Bound, Observed, Always, Provided, Fed,
                Generating, Converting, Needed
  <2> QED BY <1>4, <2>1, <2>2, CallOnKeeps DEF AddControlObserver
<1>5. CASE AddedControlObserver
  <2>1. /\ "observing controls" \in AfterBus /\ "controller" \in AfterBus \ Unmade
        /\ {"controlObserver", "systemObserver"} \subseteq Facts
    BY StationsAreOn DEF Stations, Facts, Always, Generating, Converting
  <2>2. Leads(content.source, "observing controls")
          => LeadsOn("observing controls", {"controlObserver", "systemObserver"},
                     "controller", content.source)
    BY SMT DEF LeadsOn, Grounded, Leads, Made, Bound, Observed, Always, Provided, Fed,
                Generating, Converting, Needed
  <2> QED BY <1>5, <2>1, <2>2, CallOnKeeps DEF AddedControlObserver
<1>6. CASE Call("controller", {"fail", "die"}, {}, "down")
  <2>1. "down" \in MainPlaces /\ {} \subseteq Facts /\ "ok" \notin {"fail", "die"}
    BY DEF MainPlaces
  <2> QED BY <1>6, <2>1, CallKeeps
<1>7. CASE Call("controller", {"ok"}, {"rfc"}, "controller thread")
  <2>1. /\ "controller" \in AfterBus /\ "controller thread" \in AfterBus \ Unmade
        /\ {"rfc"} \subseteq Facts
    BY StationsAreOn DEF Stations, Facts, Always, Generating, Converting
  <2>2. Leads(content.source, "controller")
          => LeadsOn("controller", {"rfc"}, "controller thread", content.source)
    BY SMT DEF LeadsOn, Grounded, Leads, Made, Bound, Observed, Always, Provided, Fed,
                Generating, Converting, Needed
  <2> QED BY <1>7, <2>1, <2>2, CallOnKeeps
<1>8. CASE StartController
  <2>1. /\ "controller thread" \in AfterBus /\ "observe state" \in AfterBus \ Unmade
        /\ {"controllerThread"} \subseteq Facts
    BY StationsAreOn DEF Stations, Facts, Always, Generating, Converting
  <2>2. Leads(content.source, "controller thread")
          => LeadsOn("controller thread", {"controllerThread"},
                     "observe state", content.source)
    BY SMT DEF LeadsOn, Grounded, Leads, Made, Bound, Observed, Always, Provided, Fed,
                Generating, Converting, Needed
  <2> QED BY <1>8, <2>1, <2>2, CallOnKeeps DEF StartController
<1>9. CASE AddStateObserver
  <2>1. /\ "observe state" \in AfterBus /\ "observing state" \in AfterBus \ Unmade
        /\ {} \subseteq Facts
    BY StationsAreOn DEF Stations, Facts, Always, Generating, Converting
  <2>2. Leads(content.source, "observe state")
          => LeadsOn("observe state", {}, "observing state", content.source)
    BY SMT DEF LeadsOn, Grounded, Leads, Made, Bound, Observed, Always, Provided, Fed,
                Generating, Converting, Needed
  <2> QED BY <1>9, <2>1, <2>2, CallOnKeeps DEF AddStateObserver
<1>10. CASE AddedStateObserver
  <2>1. /\ "observing state" \in AfterBus /\ "provider" \in AfterBus \ Unmade
        /\ {"stateObserver"} \subseteq Facts
    BY StationsAreOn DEF Stations, Facts, Always, Generating, Converting
  <2>2. Leads(content.source, "observing state")
          => LeadsOn("observing state", {"stateObserver"}, "provider", content.source)
    BY SMT DEF LeadsOn, Grounded, Leads, Made, Bound, Observed, Always, Provided, Fed,
                Generating, Converting, Needed
  <2> QED BY <1>10, <2>1, <2>2, CallOnKeeps DEF AddedStateObserver
<1> QED BY <1>1, <1>2, <1>3, <1>4, <1>5, <1>6, <1>7, <1>8, <1>9, <1>10
       DEF ControlSubSystem, DroneController_init

(* The sources of pictures, and the pipeline. *)
LEMMA VideoKeeps ==
    ASSUME IInv, VideoSubSystem
    PROVE  IInv'
<1>1. CASE /\ content.source = "image-file"
         /\ Call("provider", {"ok", "die"}, {"imageProvider"}, "generator")
  <2>0. content.source = "image-file"
    BY <1>1, Zenon
  <2>1. /\ "provider" \in AfterBus /\ "generator" \in AfterBus \ Unmade
        /\ {"imageProvider"} \subseteq Facts
    BY StationsAreOn DEF Stations, Facts, Always, Generating, Converting
  <2>2. Leads(content.source, "provider")
          => LeadsOn("provider", {"imageProvider"}, "generator", content.source)
    BY <2>0, SMT DEF LeadsOn, Grounded, Leads, Made, Bound, Observed, Always, Provided, Fed,
                Generating, Converting, Needed
  <2> QED BY <1>1, <2>1, <2>2, CallOnKeeps
<1>2. CASE /\ content.source = "drone"
         /\ Call("provider", {"ok", "fail", "die"}, {}, "drone signals")
  <2>0. content.source = "drone"
    BY <1>2, Zenon
  <2>1. /\ "provider" \in AfterBus /\ "drone signals" \in AfterBus \ Unmade
        /\ {} \subseteq Facts
    BY StationsAreOn DEF Stations, Facts, Always, Generating, Converting
  <2>2. Leads(content.source, "provider")
          => LeadsOn("provider", {}, "drone signals", content.source)
    BY <2>0, SMT DEF LeadsOn, Grounded, Leads, Made, Bound, Observed, Always, Provided, Fed,
                Generating, Converting, Needed
  <2> QED BY <1>2, <2>1, <2>2, CallOnKeeps
<1>3. CASE /\ content.source = "video-file"
         /\ Call("provider", {"ok"}, {}, "convertor")
  <2>0. content.source = "video-file"
    BY <1>3, Zenon
  <2>1. /\ "provider" \in AfterBus /\ "convertor" \in AfterBus \ Unmade
        /\ {} \subseteq Facts
    BY StationsAreOn DEF Stations, Facts, Always, Generating, Converting
  <2>2. Leads(content.source, "provider")
          => LeadsOn("provider", {}, "convertor", content.source)
    BY <2>0, SMT DEF LeadsOn, Grounded, Leads, Made, Bound, Observed, Always, Provided, Fed,
                Generating, Converting, Needed
  <2> QED BY <1>3, <2>1, <2>2, CallOnKeeps
<1>4. CASE Call("provider", {"fail"}, {}, "down")
  <2>1. "down" \in MainPlaces /\ {} \subseteq Facts /\ "ok" \notin {"fail"}
    BY DEF MainPlaces
  <2> QED BY <1>4, <2>1, CallKeeps
<1>5. CASE ConnectFirstFrame
  <2>1. /\ "drone signals" \in AfterBus /\ "generator" \in AfterBus \ Unmade
        /\ {"firstFrameSlot", "imageProvider"} \subseteq Facts
    BY StationsAreOn DEF Stations, Facts, Always, Generating, Converting
  <2>2. Leads(content.source, "drone signals")
          => LeadsOn("drone signals", {"firstFrameSlot", "imageProvider"},
                     "generator", content.source)
    BY SMT DEF LeadsOn, Grounded, Leads, Made, Bound, Observed, Always, Provided, Fed,
                Generating, Converting, Needed
  <2> QED BY <1>5, <2>1, <2>2, CallOnKeeps DEF ConnectFirstFrame
<1>6. CASE /\ content.source = "drone"
         /\ Call("generator", {"ok"}, {"generator"}, "loop")
  <2>0. content.source = "drone"
    BY <1>6, Zenon
  <2>1. /\ "generator" \in AfterBus /\ "loop" \in AfterBus \ Unmade
        /\ {"generator"} \subseteq Facts
    BY StationsAreOn DEF Stations, Facts, Always, Generating, Converting
  <2>2. Leads(content.source, "generator")
          => LeadsOn("generator", {"generator"}, "loop", content.source)
    BY <2>0, SMT DEF LeadsOn, Grounded, Leads, Made, Bound, Observed, Always, Provided, Fed,
                Generating, Converting, Needed
  <2> QED BY <1>6, <2>1, <2>2, CallOnKeeps
<1>7. CASE /\ content.source # "drone"
         /\ Call("generator", {"ok"}, {"generator"}, "connect")
  <2>0. content.source # "drone"
    BY <1>7, Zenon
  <2>1. /\ "generator" \in AfterBus /\ "connect" \in AfterBus \ Unmade
        /\ {"generator"} \subseteq Facts
    BY StationsAreOn DEF Stations, Facts, Always, Generating, Converting
  <2>2. Leads(content.source, "generator")
          => LeadsOn("generator", {"generator"}, "connect", content.source)
    BY <2>0, SMT DEF LeadsOn, Grounded, Leads, Made, Bound, Observed, Always, Provided, Fed,
                Generating, Converting, Needed
  <2> QED BY <1>7, <2>1, <2>2, CallOnKeeps
<1>8. CASE StartConvertor
  <2>1. /\ "convertor" \in AfterBus /\ "table" \in AfterBus \ Unmade
        /\ {"convertorThread"} \subseteq Facts
    BY StationsAreOn DEF Stations, Facts, Always, Generating, Converting
  <2>2. Leads(content.source, "convertor")
          => LeadsOn("convertor", {"convertorThread"}, "table", content.source)
    BY SMT DEF LeadsOn, Grounded, Leads, Made, Bound, Observed, Always, Provided, Fed,
                Generating, Converting, Needed
  <2> QED BY <1>8, <2>1, <2>2, CallOnKeeps DEF StartConvertor
<1>9. CASE parseTelemetryFile
  <2>1. /\ "table" \in AfterBus /\ "observe convertor" \in AfterBus \ Unmade
        /\ {"table"} \subseteq Facts
    BY StationsAreOn DEF Stations, Facts, Always, Generating, Converting
  <2>2. Leads(content.source, "table")
          => LeadsOn("table", {"table"}, "observe convertor", content.source)
    BY SMT DEF LeadsOn, Grounded, Leads, Made, Bound, Observed, Always, Provided, Fed,
                Generating, Converting, Needed
  <2> QED BY <1>9, <2>1, <2>2, CallOnKeeps DEF parseTelemetryFile
<1>10. CASE AddConvertorObserver
  <2>1. /\ "observe convertor" \in AfterBus /\ "connect" \in AfterBus \ Unmade
        /\ {"convertorObserver"} \subseteq Facts
    BY StationsAreOn DEF Stations, Facts, Always, Generating, Converting
  <2>2. Leads(content.source, "observe convertor")
          => LeadsOn("observe convertor", {"convertorObserver"}, "connect", content.source)
    BY SMT DEF LeadsOn, Grounded, Leads, Made, Bound, Observed, Always, Provided, Fed,
                Generating, Converting, Needed
  <2> QED BY <1>10, <2>1, <2>2, CallOnKeeps DEF AddConvertorObserver
<1>11. CASE BuildPipeline
  <2>1. /\ "connect" \in AfterBus /\ "play" \in AfterBus \ Unmade
        /\ {"pipeline"} \subseteq Facts
    BY StationsAreOn DEF Stations, Facts, Always, Generating, Converting
  <2>2. Leads(content.source, "connect")
          => LeadsOn("connect", {"pipeline"}, "play", content.source)
    BY SMT DEF LeadsOn, Grounded, Leads, Made, Bound, Observed, Always, Provided, Fed,
                Generating, Converting, Needed
  <2> QED BY <1>11, <2>1, <2>2, CallOnKeeps DEF BuildPipeline
<1>12. CASE BuildNothing
  <2>1. "return" \in MainPlaces /\ {} \subseteq Facts /\ "ok" \notin {"fail"}
    BY DEF MainPlaces
  <2> QED BY <1>12, <2>1, CallKeeps DEF BuildNothing
<1>13. CASE PlayPipeline
  <2>1. /\ "play" \in AfterBus /\ "loop" \in AfterBus \ Unmade
        /\ {"playing"} \subseteq Facts
    BY StationsAreOn DEF Stations, Facts, Always, Generating, Converting
  <2>2. ASSUME Leads(content.source, "play")
        PROVE  LeadsOn("play", {"playing"}, "loop", content.source)
    <3>1. content.source = "image-file" \/ content.source = "video-file"
      BY <2>2 DEF Leads
    <3> QED BY <3>1 DEF LeadsOn, Grounded, Leads, Made, Fed, Generating, Converting, Needed
  <2> QED BY <1>13, <2>1, <2>2, CallOnKeeps DEF PlayPipeline
<1> QED BY <1>1, <1>2, <1>3, <1>4, <1>5, <1>6, <1>7, <1>8, <1>9, <1>10, <1>11, <1>12, <1>13
       DEF VideoSubSystem, Provider_init, VideoGenerator_init

----------------------------------------------------------------------------
(* The processes' beginnings, and the event loop. *)
LEMMA StartKeeps ==
    ASSUME IInv, Start
    PROVE  IInv'
<1>1. Labels'
  BY DEF IInv, Start, Labels, MainPlaces, processVars
<1>2. Numbers' /\ QueuedByWrites'
  BY StartupAssumption DEF IInv, Start, Numbers, QueuedByWrites, processVars
<1>3. ReadyBeforeUse'
  BY DEF IInv, Start, ReadyBeforeUse, processVars
<1>4. main # "observing state"
  BY DEF Start
<1>5. Told' /\ StaleOnlyUntilTold' /\ SawObserver'
  BY <1>4, Zenon DEF IInv, Start, Told, StaleOnlyUntilTold, SawObserver, processVars
<1>6. done' = {} /\ main' = "config"
  BY DEF IInv, Start, Reached, Unmade, processVars
<1>7. Reached("config", content', {}) /\ Consistent(content', {})
  BY NothingMade DEF Reached, Made, Leads, Unmade, AfterParse, AfterLogger, AfterBus
<1> QED BY <1>1, <1>2, <1>3, <1>5, <1>6, <1>7 DEF IInv

LEMMA FirstFrameKeeps ==
    ASSUME IInv, firstFrameFronDrone
    PROVE  IInv'
<1>1. /\ main = "loop" /\ main' = "loop" /\ content' = content /\ controller' = controller
      /\ approving' = approving /\ convertor' = convertor
      /\ "firstFrameSlot" \in done
      /\ done' \in {done \cup {"pipeline"}, done \cup {"pipeline", "playing"}}
  BY DEF firstFrameFronDrone
<1>2. Labels'
  BY <1>1 DEF IInv, Labels, Facts, firstFrameFronDrone, serverVars
<1>3. Numbers' /\ QueuedByWrites'
  BY DEF IInv, Numbers, QueuedByWrites, firstFrameFronDrone, serverVars
<1>4. Made("loop", content.source) \subseteq done /\ Reached("loop", content, done)
  BY <1>1 DEF IInv, Reached
<1>5. content.source = "drone"
  BY <1>1 DEF IInv, Consistent
<1>6. Generating \subseteq done
  BY <1>4, <1>5 DEF Made, Needed
<1>7. ReadyBeforeUse'
  BY <1>1, <1>6 DEF IInv, ReadyBeforeUse
<1>8. "stateObserver" \in done => "stateObserver" \in done'
  BY <1>1
<1>9. Told' /\ StaleOnlyUntilTold' /\ SawObserver'
  BY <1>8, Zenon
  DEF IInv, firstFrameFronDrone, Told, StaleOnlyUntilTold, SawObserver, serverVars
<1>10. Reached("loop", content, done')
  <2>1. Made("loop", content.source) \subseteq done'
    BY <1>1, <1>4
  <2>2. "loop" \notin Unmade
    BY DEF Unmade
  <2> QED BY <1>4, <2>1, <2>2, Zenon DEF Reached
<1>11. Consistent(content, done')
  BY <1>1, <1>5, <1>6 DEF IInv, Consistent, Fed
<1> QED BY <1>1, <1>2, <1>3, <1>7, <1>9, <1>10, <1>11 DEF IInv

----------------------------------------------------------------------------
(* The threads, and the operator. *)
LEMMA WriteKeeps ==
    ASSUME IInv, Write
    PROVE  IInv'
<1>1. Labels' /\ ReadyBeforeUse'
  BY DEF IInv, Write, Labels, ReadyBeforeUse
<1>2. Numbers' /\ QueuedByWrites'
  BY StartupAssumption DEF IInv, Write, Numbers, QueuedByWrites
<1>3. Told' /\ StaleOnlyUntilTold' /\ SawObserver'
  BY Zenon DEF IInv, Write, Told, StaleOnlyUntilTold, SawObserver
<1>4. Reached(main, content, done)' /\ Consistent(content, done)'
  BY Zenon DEF IInv, Write
<1> QED BY <1>1, <1>2, <1>3, <1>4 DEF IInv

LEMMA ObjreprKeeps ==
    ASSUME IInv, objreprThread
    PROVE  IInv'
<1>1. ASSUME UNCHANGED <<main, content, done, m_boardOnline, controller, convertor, told>>,
             UNCHANGED serverVars, Numbers', QueuedByWrites',
             approving' # NoValue => "attrMap" \in done
      PROVE  IInv'
  <2>1. Labels' /\ ReadyBeforeUse'
    BY <1>1 DEF IInv, Labels, ReadyBeforeUse, serverVars
  <2>2. Told' /\ StaleOnlyUntilTold' /\ SawObserver'
    BY <1>1, Zenon DEF IInv, Told, StaleOnlyUntilTold, SawObserver, serverVars
  <2>3. Reached(main, content, done)' /\ Consistent(content, done)'
    BY <1>1, Zenon DEF IInv
  <2> QED BY <1>1, <2>1, <2>2, <2>3 DEF IInv
<1>2. CASE Approve /\ ~Gone
  <2>0. "attrMap" \in done
    BY <1>2, Zenon DEF Approve
  <2>1. UNCHANGED <<main, content, done, m_boardOnline, controller,
                    convertor, delivered, told, serverVars>>
    BY <1>2, <2>0, Zenon DEF Approve
  <2>2. /\ UNCHANGED <<main, content, done, m_boardOnline, controller, convertor, told>>
        /\ UNCHANGED delivered /\ UNCHANGED serverVars
    BY <2>1, Zenon
  <2>3. approving' = attr /\ pending' = pending - 1 /\ pending > 0
    <3>1. approving' = attr
      BY <1>2, <2>0, Zenon DEF Approve
    <3>2. pending' = pending - 1
      BY <1>2, <2>0, Zenon DEF Approve
    <3>3. pending > 0
      BY <1>2, Zenon DEF Approve
    <3> QED BY <3>1, <3>2, <3>3, Zenon
  <2>4. Numbers' /\ QueuedByWrites'
    <3>1. UNCHANGED <<delivered, attr, starts>>
      BY <2>2, Zenon DEF serverVars
    <3> QED BY <2>3, <3>1, StartupAssumption DEF IInv, Numbers, QueuedByWrites
  <2> QED BY <1>1, <2>0, <2>2, <2>4
<1>3. CASE Observe
  <2>1. /\ delivered' \in {delivered, approving} /\ approving' = NoValue
        /\ UNCHANGED pending
    BY <1>3 DEF Observe
  <2>2. /\ UNCHANGED <<main, content, done, m_boardOnline, controller, convertor, told>>
        /\ UNCHANGED serverVars
    BY <1>3, Zenon DEF Observe
  <2>3. Numbers' /\ QueuedByWrites'
    BY <2>1, <2>2 DEF IInv, Numbers, QueuedByWrites, serverVars
  <2> QED BY <1>1, <2>1, <2>2, <2>3
<1>4. CASE ObserveTorn
  BY <1>4, GoneKeeps DEF ObserveTorn
<1> QED BY <1>2, <1>3, <1>4, GoneKeeps DEF objreprThread

LEMMA EdgeKeeps ==
    ASSUME IInv, Edge
    PROVE  IInv'
<1>1. /\ "controllerThread" \in done /\ controller = "idle"
      /\ m_boardOnline' = Other(m_boardOnline)
      /\ UNCHANGED <<main, content, done, convertor, pending, approving, delivered, told>>
      /\ UNCHANGED serverVars
  BY Zenon DEF Edge
<1>2. controller' \in {"idle", "publish"}
  BY DEF Edge
<1>3. Labels'
  BY <1>1, <1>2 DEF IInv, Labels, Other, serverVars
<1>4. Numbers' /\ QueuedByWrites'
  BY <1>1 DEF IInv, Numbers, QueuedByWrites, serverVars
<1>5. ReadyBeforeUse'
  BY <1>1 DEF IInv, ReadyBeforeUse, Consistent
<1>6. controller' = "publish" => "stateObserver" \in done \/ main = "observing state"
  BY DEF Edge
<1>7. SawObserver'
  BY <1>1, <1>6, Zenon DEF IInv, SawObserver
<1>8. told /\ ("stateObserver" \in done \/ main = "observing state") => controller' = "publish"
  BY Zenon DEF Edge
<1>9. told => controller' # "idle"
  BY <1>8, Zenon DEF IInv, SawObserver
<1>10. Told' /\ StaleOnlyUntilTold'
  BY <1>1, <1>9, Zenon DEF IInv, Told, StaleOnlyUntilTold
<1>11. Reached(main, content, done)' /\ Consistent(content, done)'
  BY <1>1, Zenon DEF IInv
<1> QED BY <1>3, <1>4, <1>5, <1>7, <1>10, <1>11 DEF IInv

LEMMA PublishKeeps ==
    ASSUME IInv, callbackBoardOnline
    PROVE  IInv'
<1>1. Labels' /\ ReadyBeforeUse'
  BY DEF IInv, callbackBoardOnline, Labels, ReadyBeforeUse
<1>2. Numbers' /\ QueuedByWrites'
  BY DEF IInv, callbackBoardOnline, Numbers, QueuedByWrites
<1>3. Told' /\ StaleOnlyUntilTold' /\ SawObserver'
  BY Zenon DEF IInv, callbackBoardOnline, Told, StaleOnlyUntilTold, SawObserver
<1>4. Reached(main, content, done)' /\ Consistent(content, done)'
  BY Zenon DEF IInv, callbackBoardOnline
<1> QED BY <1>1, <1>2, <1>3, <1>4 DEF IInv

LEMMA ConvertorKeeps ==
    ASSUME IInv, Poll \/ sendCurrentTelemetry
    PROVE  IInv'
<1>1. UNCHANGED <<main, content, done, m_boardOnline, controller, pending,
                  approving, delivered, told>> /\ UNCHANGED serverVars
  BY Zenon DEF Poll, sendCurrentTelemetry
<1>2. /\ convertor' \in {"idle", "send"}
      /\ convertor' = "send" => {"convertorThread", "pipeline"} \subseteq done
  BY DEF Poll, sendCurrentTelemetry
<1>3. Labels'
  BY <1>1, <1>2 DEF IInv, Labels, serverVars
<1>4. ReadyBeforeUse'
  BY <1>1, <1>2 DEF IInv, ReadyBeforeUse, Consistent, Fed, Converting
<1>5. Numbers' /\ QueuedByWrites'
  BY <1>1 DEF IInv, Numbers, QueuedByWrites, serverVars
<1>6. Told' /\ StaleOnlyUntilTold' /\ SawObserver'
  BY <1>1, Zenon DEF IInv, Told, StaleOnlyUntilTold, SawObserver, serverVars
<1>7. Reached(main, content, done)' /\ Consistent(content, done)'
  BY <1>1, Zenon DEF IInv
<1> QED BY <1>3, <1>4, <1>5, <1>6, <1>7 DEF IInv

LEMMA StutterKeeps ==
    ASSUME IInv, UNCHANGED vars
    PROVE  IInv'
<1>1. Labels' /\ ReadyBeforeUse'
  BY DEF IInv, vars, processVars, serverVars, Labels, ReadyBeforeUse
<1>2. Numbers' /\ QueuedByWrites'
  BY DEF IInv, vars, processVars, serverVars, Numbers, QueuedByWrites
<1>3. Told' /\ StaleOnlyUntilTold' /\ SawObserver'
  BY Zenon DEF IInv, vars, processVars, serverVars, Told, StaleOnlyUntilTold, SawObserver
<1>4. Reached(main, content, done)' /\ Consistent(content, done)'
  BY Zenon DEF IInv, vars, processVars
<1> QED BY <1>1, <1>2, <1>3, <1>4 DEF IInv

----------------------------------------------------------------------------
LEMMA Invariance == Spec => []IInv
<1>1. ASSUME IInv, [Next]_vars
      PROVE  IInv'
  <2>1. CASE Start
    BY <1>1, <2>1, StartKeeps
  <2>2. CASE initSingletons
    BY <1>1, <2>2, ReaderKeeps
  <2>3. CASE ControlSubSystem
    BY <1>1, <2>3, ControlKeeps
  <2>4. CASE VideoSubSystem
    BY <1>1, <2>4, VideoKeeps
  <2>5. CASE ExitProcess \/ EdgeTorn \/ Kill
    BY <1>1, <2>5, GoneKeeps DEF ExitProcess, EdgeTorn, Kill
  <2>6. CASE firstFrameFronDrone
    BY <1>1, <2>6, FirstFrameKeeps
  <2>7. CASE Write
    BY <1>1, <2>7, WriteKeeps
  <2>8. CASE objreprThread
    BY <1>1, <2>8, ObjreprKeeps
  <2>9. CASE Edge
    BY <1>1, <2>9, EdgeKeeps
  <2>10. CASE callbackBoardOnline
    BY <1>1, <2>10, PublishKeeps
  <2>11. CASE Poll \/ sendCurrentTelemetry
    BY <1>1, <2>11, ConvertorKeeps
  <2>12. CASE UNCHANGED vars
    BY <1>1, <2>12, StutterKeeps
  <2> QED BY <1>1, <2>1, <2>2, <2>3, <2>4, <2>5, <2>6, <2>7, <2>8, <2>9, <2>10, <2>11, <2>12
          DEF Next, mainThread
<1> QED BY <1>1, InitIInv, PTL DEF Spec

(* Every variable of the process, of the server and of the threads keeps   *)
(* to its range, however often the client is started.                      *)
THEOREM TypeCorrect == Spec => []TypeOK
<1>1. IInv => TypeOK
  BY Zenon DEF IInv, TypeOK, Labels, Numbers, Told
<1> QED BY <1>1, Invariance, PTL

(* The threads that DroneClient::init starts on its way never find the     *)
(* attribute map, the telemetry table or a picture source missing.         *)
THEOREM NothingIsUsedEarly == Spec => []ReadyBeforeUse
BY Invariance, PTL DEF IInv

(* Whatever main and DroneClient::init pass by on their way to the event   *)
(* loop, they have made all that the configured source needs, from a file  *)
(* without a defect and in a context that objrepr knows.                   *)
THEOREM ARunningClientIsComplete == Spec => []RunningIsComplete
<1>1. IInv => RunningIsComplete
  <2> SUFFICES ASSUME IInv, main = "loop"
               PROVE  /\ Needed(content.source) \subseteq done
                      /\ content.defects \subseteq Tolerated(content.source)
                      /\ content.context # "unknown"
    BY DEF RunningIsComplete
  <2>1. "loop" \in AfterParse /\ "loop" \in AfterLogger /\ "loop" \in AfterBus
    BY DEF AfterParse, AfterLogger, AfterBus, MainPlaces
  <2>2. /\ Relevant(content) \subseteq {"log file name"}
        /\ "log file name" \notin content.defects /\ content.context # "unknown"
        /\ Made("loop", content.source) \subseteq done
    <3>1. Reached("loop", content, done)
      BY Zenon DEF IInv
    <3> QED BY <2>1, <3>1, Zenon DEF Reached
  <2>3. content.defects \subseteq Tolerated(content.source)
    <3>1. CASE content.source = "video-file"
      BY <2>2, <3>1 DEF Relevant, Tolerated
    <3>2. CASE content.source # "video-file"
      <4>1. content.defects \ {"video file"} \subseteq {"log file name"}
        BY <2>2, <3>2, Zenon DEF Relevant
      <4>2. Tolerated(content.source) = {"video file"}
        BY <3>2 DEF Tolerated
      <4> QED BY <2>2, <4>1, <4>2
    <3> QED BY <3>1, <3>2
  <2>4. Made("loop", content.source) = Needed(content.source)
    BY DEF Made
  <2> QED BY <2>2, <2>3, <2>4
<1> QED BY <1>1, Invariance, PTL

(* Once a process has published "online", and while it is not about to do  *)
(* so again, the attribute agrees with DroneController, from the first     *)
(* edge on, even one that comes while the observer is being added.         *)
THEOREM StaleOnlineEnds == Spec => []StaleOnlyUntilTold
BY Invariance, PTL DEF IInv

----------------------------------------------------------------------------
(* The safety part of WritesAreHeard: while the client runs, what the      *)
(* operator writes is queued, and a callback that has approved an          *)
(* attribute hands it on to the drone library before it ends.              *)
NoWriteIsDropped ==
    [][main = "loop" /\ main' = "loop" =>
          /\ attr' # attr => pending' = pending + 1
          /\ approving # NoValue /\ approving' # approving => delivered' = approving]_vars

(* The main thread has no step left once it runs the event loop: every     *)
(* call of the start-up is made from its own place, and none is "loop".    *)
LEMMA CallIsHere ==
    ASSUME NEW here, NEW outcomes, NEW facts, NEW next, Call(here, outcomes, facts, next)
    PROVE  main = here
BY Zenon DEF Call

LEMMA LoopIsTheEnd == mainThread => main # "loop"
<1>1. initSingletons => main # "loop"
  <2>1. parse => main = "parse"
    BY CallIsHere, Zenon DEF parse
  <2>2. Logger_initGlobal => main = "logger"
    BY CallIsHere, Zenon DEF Logger_initGlobal
  <2>3. ObjreprBus_init => main = "bus"
    BY CallIsHere, Zenon DEF ObjreprBus_init
  <2>4. getConfigFilePath => main = "config"
    BY Zenon DEF getConfigFilePath
  <2> QED BY <2>1, <2>2, <2>3, <2>4 DEF initSingletons
<1>2. ControlSubSystem => main # "loop"
  <2>1. BindObjects => main = "objects"
    BY CallIsHere, Zenon DEF BindObjects
  <2>2. ConnectSignals => main = "signals"
    BY CallIsHere, Zenon DEF ConnectSignals
  <2>3. BindAttrMap => main = "map"
    BY CallIsHere, Zenon DEF BindAttrMap
  <2>4. AddControlObserver => main = "observe controls"
    BY CallIsHere, Zenon DEF AddControlObserver
  <2>5. AddedControlObserver => main = "observing controls"
    BY CallIsHere, Zenon DEF AddedControlObserver
  <2>6. DroneController_init => main = "controller"
    BY CallIsHere, Zenon DEF DroneController_init
  <2>7. StartController => main = "controller thread"
    BY CallIsHere, Zenon DEF StartController
  <2>8. AddStateObserver => main = "observe state"
    BY CallIsHere, Zenon DEF AddStateObserver
  <2>9. AddedStateObserver => main = "observing state"
    BY CallIsHere, Zenon DEF AddedStateObserver
  <2> QED BY <2>1, <2>2, <2>3, <2>4, <2>5, <2>6, <2>7, <2>8, <2>9 DEF ControlSubSystem
<1>3. VideoSubSystem => main # "loop"
  <2>1. Provider_init => main = "provider"
    BY CallIsHere DEF Provider_init
  <2>2. ConnectFirstFrame => main = "drone signals"
    BY CallIsHere, Zenon DEF ConnectFirstFrame
  <2>3. VideoGenerator_init => main = "generator"
    BY CallIsHere, Zenon DEF VideoGenerator_init
  <2>4. StartConvertor => main = "convertor"
    BY CallIsHere, Zenon DEF StartConvertor
  <2>5. parseTelemetryFile => main = "table"
    BY CallIsHere, Zenon DEF parseTelemetryFile
  <2>6. AddConvertorObserver => main = "observe convertor"
    BY CallIsHere, Zenon DEF AddConvertorObserver
  <2>7. BuildPipeline \/ BuildNothing => main = "connect"
    BY CallIsHere, Zenon DEF BuildPipeline, BuildNothing
  <2>8. PlayPipeline => main = "play"
    BY CallIsHere, Zenon DEF PlayPipeline
  <2> QED BY <2>1, <2>2, <2>3, <2>4, <2>5, <2>6, <2>7, <2>8 DEF VideoSubSystem
<1>4. ExitProcess => main # "loop"
  BY DEF ExitProcess
<1> QED BY <1>1, <1>2, <1>3, <1>4, Zenon DEF mainThread

(* It holds because a client that runs is complete: neither the connection *)
(* of the signal nor an observer nor the drone library is missing.         *)
THEOREM WritesReachTheDrone == Spec => NoWriteIsDropped
<1>1. ASSUME RunningIsComplete, [Next]_vars, main = "loop", main' = "loop"
      PROVE  /\ attr' # attr => pending' = pending + 1
             /\ approving # NoValue /\ approving' # approving => delivered' = approving
  <2>1. {"approvePending", "controlObserver", "rfc"} \subseteq done
    BY <1>1 DEF RunningIsComplete, Needed, Always
  <2>2. CASE Write
    BY <2>1, <2>2 DEF Write
  <2>3. CASE Approve
    <3>1. approving = NoValue
      BY <2>3, Zenon DEF Approve
    <3>2. attr' = attr
      BY <2>3, Zenon DEF Approve, Gone, serverVars
    <3> QED BY <3>1, <3>2
  <2>4. CASE Observe
    <3>1. delivered' = approving
      BY <2>1, <2>4 DEF Observe
    <3>2. attr' = attr
      BY <2>4, Zenon DEF Observe, serverVars
    <3> QED BY <3>1, <3>2
  <2>5. CASE ~(Write \/ Approve \/ Observe)
    <3>1. ~mainThread /\ ~Start /\ ~Gone
      BY <1>1, LoopIsTheEnd DEF Start, Gone
    <3>2. \/ firstFrameFronDrone \/ Edge \/ callbackBoardOnline
          \/ Poll \/ sendCurrentTelemetry \/ UNCHANGED vars
      BY <1>1, <2>5, <3>1, Zenon DEF Next, objreprThread, ObserveTorn, EdgeTorn, Kill
    <3>3. attr' = attr /\ approving' = approving
      <4>1. CASE firstFrameFronDrone
        BY <4>1, Zenon DEF firstFrameFronDrone, serverVars
      <4>2. CASE Edge
        BY <4>2, Zenon DEF Edge, serverVars
      <4>3. CASE callbackBoardOnline
        BY <4>3, Zenon DEF callbackBoardOnline
      <4>4. CASE Poll \/ sendCurrentTelemetry
        BY <4>4, Zenon DEF Poll, sendCurrentTelemetry, serverVars
      <4>5. CASE UNCHANGED vars
        BY <4>5, Zenon DEF vars, processVars, serverVars
      <4> QED BY <3>2, <4>1, <4>2, <4>3, <4>4, <4>5, Zenon
    <3> QED BY <3>3
  <2> QED BY <2>2, <2>3, <2>4, <2>5
<1>2. ASSUME RunningIsComplete, [Next]_vars
      PROVE  [main = "loop" /\ main' = "loop" =>
                /\ attr' # attr => pending' = pending + 1
                /\ approving # NoValue /\ approving' # approving => delivered' = approving]_vars
  BY <1>1, <1>2
<1> QED BY <1>2, ARunningClientIsComplete, PTL DEF Spec, NoWriteIsDropped
=============================================================================

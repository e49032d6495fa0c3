---------------------------- MODULE PingMonitor ----------------------------
(***************************************************************************)
(* DroneController's maintenance thread with imitation off: the detection  *)
(* of the drone's pings, the decision that the drone is online or lost and *)
(* its publication to the registered observer, the ControlSignalReceiver,  *)
(* which writes the "online" attribute of the camera object.               *)
(*                                                                         *)
(* Three actors share state without a lock: the rfc library toggles its    *)
(* ping indicator, the maintenance thread reads it (twice per ping), and   *)
(* the main thread is still inserting the observer into m_observers when   *)
(* the maintenance thread, which init() started, may already walk it.      *)
(*                                                                         *)
(* Time is a Tick.  The thread's clock readings are ages: pingAge is       *)
(* now - m_lastPingAtMillisec.  An age counts up to Cap and stays there.   *)
(***************************************************************************)
EXTENDS Integers

CONSTANTS
    Timeout,    \* the literal 10000LL of checkPings
    MaxLag,     \* most ticks between two readings of the indicator: the loop
                \* sleeps 10 ms and the scheduler adds what it adds
    MinPeriod,  \* fewest ticks between two pings of the drone
    Cap         \* where ages stop counting

\* A ping lasts longer than a pass of the loop; Cap lies beyond every age
\* that the code or a property compares.
ASSUME PingAssumption ==
    /\ Timeout \in Nat /\ MaxLag \in Nat /\ MinPeriod \in Nat /\ Cap \in Nat
    /\ MinPeriod > MaxLag
    /\ Timeout > 2 * MaxLag
    /\ Cap > Timeout + 4 * MaxLag

VARIABLES
    indicator,               \* rfc.pingIndicator(), false is 0 and true is 1
    silence,                 \* ticks since the drone toggled it
    gap,                     \* silence before that toggle
    m_lastPingValFromDrone,
    pingAge,                 \* now - m_lastPingAtMillisec
    m_boardOnline,
    pc,                      \* where the maintenance thread is
    lag,                     \* ticks since it last reached "detect"
    vecStart, vecFinish,     \* m_observers: are its two pointers written?
    itBegin,                 \* what the range-for took for begin()
    online                   \* the camera object's attribute: "on", "off", or
                             \* "unset" while this client has not written it

droneVars  == <<indicator, silence, gap>>
pingVars   == <<m_lastPingValFromDrone, pingAge>>
vecVars    == <<vecStart, vecFinish>>
threadVars == <<pc, lag, itBegin>>
vars == <<indicator, silence, gap, m_lastPingValFromDrone, pingAge,
          m_boardOnline, pc, lag, vecStart, vecFinish, itBegin, online>>

Older(age) == IF age < Cap THEN age + 1 ELSE age

----------------------------------------------------------------------------
(* The constructor, then init() up to the start of the thread.  The zero   *)
(* of m_lastPingAtMillisec is the year 1970: an age beyond every timeout.  *)
Init ==
    /\ indicator = 0 /\ silence = Cap /\ gap = Cap
    /\ m_lastPingValFromDrone = 0
    /\ pingAge = Cap
    /\ m_boardOnline = FALSE
    /\ pc = "detect" /\ lag = 0 /\ itBegin = FALSE
    /\ vecStart = FALSE /\ vecFinish = FALSE
    /\ online = "unset"

(* The drone pings: the rfc library toggles its indicator. *)
Ping ==
    /\ silence >= MinPeriod
    /\ indicator' = 1 - indicator
    /\ gap' = silence
    /\ silence' = 0
    /\ UNCHANGED <<pingVars, m_boardOnline, threadVars, vecVars, online>>

Crashed == pc = "crashed"

(* Time passes; while the client lives, a pass of the loop ends in time. *)
Tick ==
    /\ ~Crashed => lag < MaxLag
    /\ silence' = Older(silence)
    /\ pingAge' = Older(pingAge)
    /\ lag' = IF Crashed THEN lag ELSE lag + 1
    /\ UNCHANGED <<indicator, gap, m_lastPingValFromDrone, m_boardOnline, pc,
                   vecVars, itBegin, online>>

----------------------------------------------------------------------------
(* checkPings: if( m_lastPingValFromDrone ^ rfc.pingIndicator() ) *)
Differs == m_lastPingValFromDrone # indicator

Detect ==
    /\ pc = "detect"
    /\ lag' = 0
    /\ pc' = IF Differs THEN "latch" ELSE "check"
    /\ UNCHANGED <<droneVars, pingVars, m_boardOnline, vecVars, itBegin, online>>

(* ... the second reading of the indicator, which may have toggled again *)
Latch_forgotten == pc = "latch" /\ pc' = "stamp"
    /\ UNCHANGED <<droneVars, pingVars, lag, itBegin, m_boardOnline, vecVars, online>>
Latch_counts == pc = "latch" /\ m_lastPingValFromDrone' = m_lastPingValFromDrone + 1
    /\ pc' = "stamp"
    /\ UNCHANGED <<droneVars, pingAge, lag, itBegin, m_boardOnline, vecVars, online>>
Latch ==
    /\ pc = "latch"
    /\ m_lastPingValFromDrone' = indicator
    /\ pc' = "stamp"
    /\ UNCHANGED <<droneVars, pingAge, lag, itBegin, m_boardOnline, vecVars, online>>

(* ... and the time of the ping *)
Stamp_forgotten == pc = "stamp" /\ pc' = "check"
    /\ UNCHANGED <<droneVars, pingVars, lag, itBegin, m_boardOnline, vecVars, online>>
Stamp ==
    /\ pc = "stamp"
    /\ pingAge' = 0
    /\ pc' = "check"
    /\ UNCHANGED <<droneVars, m_lastPingValFromDrone, lag, itBegin,
                   m_boardOnline, vecVars, online>>

OfflineDue_early == pingAge >= Timeout
OfflineDue == pingAge > Timeout
OnlineDue_never == pingAge < 0
OnlineDue == pingAge < Timeout

GoOffline_untold ==
    /\ pc = "check" /\ m_boardOnline /\ OfflineDue
    /\ m_boardOnline' = FALSE
    /\ pc' = "detect"
    /\ UNCHANGED <<droneVars, pingVars, lag, itBegin, vecVars, online>>
GoOffline ==
    /\ pc = "check"
    /\ m_boardOnline
    /\ OfflineDue
    /\ m_boardOnline' = FALSE
    /\ pc' = "begin"
    /\ UNCHANGED <<droneVars, pingVars, lag, itBegin, vecVars, online>>

GoOnline ==
    /\ pc = "check"
    /\ ~m_boardOnline
    /\ OnlineDue
    /\ m_boardOnline' = TRUE
    /\ pc' = "begin"
    /\ UNCHANGED <<droneVars, pingVars, lag, itBegin, vecVars, online>>

(* Neither: the pass ends in the sleep of threadMaintenance. *)
StayAsIs ==
    /\ pc = "check"
    /\ IF m_boardOnline THEN ~OfflineDue ELSE ~OnlineDue
    /\ pc' = "detect"
    /\ UNCHANGED <<droneVars, pingVars, lag, itBegin, m_boardOnline, vecVars, online>>

(* for( observer : m_observers ): begin() and end() are two loads of two   *)
(* pointers that addObserver's push_back may be writing.                   *)
IterBegin ==
    /\ pc = "begin"
    /\ itBegin' = vecStart
    /\ pc' = "end"
    /\ UNCHANGED <<droneVars, pingVars, lag, m_boardOnline, vecVars, online>>

(* Both null: an empty loop, and the edge is lost.  One of them null: the  *)
(* loop runs over memory that is no vector and the process dies.           *)
IterEnd ==
    /\ pc = "end"
    /\ pc' = CASE itBegin /\ vecFinish   -> "notify"
               [] ~itBegin /\ ~vecFinish -> "detect"
               [] OTHER                  -> "crashed"
    /\ UNCHANGED <<droneVars, pingVars, lag, itBegin, m_boardOnline, vecVars, online>>

(* ControlSignalReceiver::callbackBoardOnline: setValue and pushAsync *)
Published == IF m_boardOnline THEN "on" ELSE "off"

Notify ==
    /\ pc = "notify"
    /\ online' = Published
    /\ pc' = "detect"
    /\ UNCHANGED <<droneVars, pingVars, lag, itBegin, m_boardOnline, vecVars>>

----------------------------------------------------------------------------
(* DroneClient::init after m_droneController.init(): addObserver.  The two *)
(* stores have no order for another thread.                                *)
AddObserverStart ==
    /\ ~Crashed /\ ~vecStart
    /\ vecStart' = TRUE
    /\ UNCHANGED <<droneVars, pingVars, m_boardOnline, threadVars, vecFinish, online>>

AddObserverFinish ==
    /\ ~Crashed /\ ~vecFinish
    /\ vecFinish' = TRUE
    /\ UNCHANGED <<droneVars, pingVars, m_boardOnline, threadVars, vecStart, online>>

checkPings == \/ Detect \/ Latch \/ Stamp
              \/ GoOffline \/ GoOnline \/ StayAsIs
              \/ IterBegin \/ IterEnd \/ Notify

addObserver == AddObserverStart \/ AddObserverFinish

Next == Ping \/ Tick \/ checkPings \/ addObserver

(* The thread loops for ever, the main thread leaves init(), time passes.  *)
(* Nothing obliges the drone to ping.                                      *)
Fairness == WF_vars(checkPings) /\ WF_vars(addObserver) /\ WF_vars(Tick)

Spec == Init /\ [][Next]_vars
FairSpec == Spec /\ Fairness

----------------------------------------------------------------------------
TypeOK ==
    /\ indicator \in {0, 1} /\ m_lastPingValFromDrone \in {0, 1}
    /\ silence \in 0..Cap /\ gap \in 0..Cap /\ pingAge \in 0..Cap
    /\ m_boardOnline \in BOOLEAN
    /\ pc \in {"detect", "latch", "stamp", "check", "begin", "end", "notify", "crashed"}
    /\ lag \in 0..MaxLag
    /\ vecStart \in BOOLEAN /\ vecFinish \in BOOLEAN /\ itBegin \in BOOLEAN
    /\ online \in {"unset", "on", "off"}

Notifying == pc \in {"begin", "end", "notify"}

(* A ping on record is a ping of the drone: the drone really toggled its   *)
(* indicator at most two passes before the recorded time, although the     *)
(* indicator is read twice and may toggle in between (detect ping).        *)
NoPhantomPing == ~Crashed => silence <= pingAge + 2 * MaxLag

(* No ping is missed: two passes after the drone pinged, the time on       *)
(* record is not older than that ping.                                     *)
NoMissedPing == ~Crashed /\ silence > 2 * MaxLag => pingAge <= silence

(* What the observer was told is what the controller believes, whenever no *)
(* notification is under way: edges reach the attribute in order and none  *)
(* is repeated or dropped once a first one got through.                    *)
PublishedAgrees ==
    ~Notifying /\ ~Crashed /\ online # "unset" => online = Published

(* The published attribute keeps the promises of LinkStatus. *)
Link == INSTANCE LinkStatus
          WITH shown <- online, alive <- ~Crashed, Slack <- 2 * MaxLag,
               Late <- Timeout + 4 * MaxLag
ImplementsLink == Link!Spec

(* A drone that keeps pinging is eventually believed online for good, and  *)
(* one that falls silent is eventually believed lost.                      *)
PingingStaysOnline ==
    <>[](silence < Timeout - 2 * MaxLag /\ ~Crashed) => <>[]m_boardOnline
SilentGoesOffline == <>[](silence = Cap /\ ~Crashed) => <>[](~m_boardOnline)
=============================================================================

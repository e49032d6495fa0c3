------------------------- MODULE PingMonitorProofs -------------------------
(***************************************************************************)
(* Theorems about PingMonitor for every timeout, lag, ping period and cap. *)
(* None of the properties is inductive: each speaks of what the thread     *)
(* concluded, and the induction needs how old each of its readings is at   *)
(* each point of the loop.  IInv says that, in ticks.                      *)
(***************************************************************************)
EXTENDS PingMonitor, TLAPS

Unseen == indicator # m_lastPingValFromDrone
Reacting == pc \in {"latch", "stamp"}
JustHeard == silence <= MaxLag + lag

(* A toggle the thread has not seen happened since it last looked, and it  *)
(* is busy recording only what was toggled in this pass or the one before. *)
UnseenIsRecent == Unseen /\ pc # "latch" => silence <= lag
ReactingIsRecent == Reacting => JustHeard

(* The recorded time is a ping's, give or take two passes; and it covers   *)
(* every ping but one the thread has yet to see, before which it was the   *)
(* ping before that.                                                       *)
RecordIsReal == silence <= pingAge + 2 * MaxLag
RecordCovers ==
    \/ Reacting
    \/ pingAge <= silence
    \/ Unseen /\ pingAge <= gap + silence

(* How old the record is while the drone counts as lost, and while it      *)
(* counts as online: the two edges are only a pass away from their reason. *)
LostIsOld ==
    ~m_boardOnline =>
      /\ pc = "detect" \/ Reacting => pingAge >= Timeout
      /\ pc = "check" => pingAge >= Timeout \/ (pingAge <= lag /\ JustHeard)
      /\ Notifying => pingAge > Timeout /\ pingAge <= Timeout + MaxLag + lag

OnlineIsFresh ==
    m_boardOnline =>
      /\ pc = "detect" => pingAge <= Timeout + lag
      /\ pc = "check" \/ Reacting => pingAge <= Timeout + MaxLag + lag
      /\ Notifying => pingAge <= lag /\ JustHeard

(* The observer that was once notified stays registered; and the attribute *)
(* differs from what the controller believes only while it is notified.    *)
IterSees ==
    /\ pc \in {"end", "notify"} /\ itBegin => vecStart
    /\ pc = "notify" => vecStart /\ vecFinish
    /\ pc = "end" /\ online # "unset" => itBegin
    /\ online # "unset" => vecStart /\ vecFinish
Told == online # "unset" =>
          IF Notifying THEN online # Published ELSE online = Published

IInv ==
    /\ TypeOK
    /\ ~Crashed => /\ UnseenIsRecent /\ ReactingIsRecent
                   /\ RecordIsReal /\ RecordCovers
                   /\ LostIsOld /\ OnlineIsFresh
                   /\ IterSees /\ Told

----------------------------------------------------------------------------
(* The constructor and init() establish the invariant. *)
LEMMA IInvInit == Init => IInv
<1> SUFFICES ASSUME Init PROVE IInv
  OBVIOUS
<1> USE PingAssumption DEF Init
<1>1. TypeOK
  <2>1. /\ m_boardOnline \in BOOLEAN /\ vecStart \in BOOLEAN
        /\ vecFinish \in BOOLEAN /\ itBegin \in BOOLEAN
    BY Zenon
  <2>2. silence \in 0..Cap /\ gap \in 0..Cap /\ pingAge \in 0..Cap /\ lag \in 0..MaxLag
    BY SMT
  <2> QED
    BY <2>1, <2>2 DEF TypeOK
<1>2. UnseenIsRecent /\ ReactingIsRecent /\ RecordIsReal /\ RecordCovers
  BY DEF UnseenIsRecent, ReactingIsRecent, RecordIsReal, RecordCovers,
         Unseen, Reacting, JustHeard
<1>3. LostIsOld /\ OnlineIsFresh
  BY DEF LostIsOld, OnlineIsFresh, Reacting, Notifying
<1>4. IterSees /\ Told
  BY DEF IterSees, Told, Notifying, Published
<1> QED
  BY <1>1, <1>2, <1>3, <1>4 DEF IInv

(* Types alone are inductive, crashed or not. *)
LEMMA TypeStep == TypeOK /\ [Next]_vars => TypeOK'
<1> SUFFICES ASSUME TypeOK, [Next]_vars PROVE TypeOK'
  OBVIOUS
<1> USE PingAssumption DEF TypeOK
<1>1. CASE Ping
  BY <1>1 DEF Ping, pingVars, threadVars, vecVars
<1>2. CASE Tick
  BY <1>2 DEF Tick, Older, Crashed, vecVars
<1>3. CASE Detect
  BY <1>3 DEF Detect, Differs, droneVars, pingVars, vecVars
<1>4. CASE Latch
  BY <1>4 DEF Latch, droneVars, vecVars
<1>5. CASE Stamp
  BY <1>5 DEF Stamp, droneVars, vecVars
<1>6. CASE GoOffline
  BY <1>6 DEF GoOffline, droneVars, pingVars, vecVars
<1>7. CASE GoOnline
  BY <1>7 DEF GoOnline, droneVars, pingVars, vecVars
<1>8. CASE StayAsIs
  BY <1>8 DEF StayAsIs, droneVars, pingVars, vecVars
<1>9. CASE IterBegin
  BY <1>9 DEF IterBegin, droneVars, pingVars, vecVars
<1>10. CASE IterEnd
  BY <1>10 DEF IterEnd, droneVars, pingVars, vecVars
<1>11. CASE Notify
  BY <1>11 DEF Notify, Published, droneVars, pingVars, vecVars
<1>12. CASE addObserver
  BY <1>12 DEF addObserver, AddObserverStart, AddObserverFinish, droneVars, pingVars, threadVars
<1>13. CASE UNCHANGED vars
  BY <1>13 DEF vars
<1> QED
  BY <1>1, <1>2, <1>3, <1>4, <1>5, <1>6, <1>7, <1>8, <1>9, <1>10, <1>11, <1>12, <1>13
     DEF Next, checkPings

----------------------------------------------------------------------------
(* One lemma per action: what holds of a live client holds after the step. *)
Sound ==
    /\ UnseenIsRecent /\ ReactingIsRecent /\ RecordIsReal /\ RecordCovers
    /\ LostIsOld /\ OnlineIsFresh /\ IterSees /\ Told

(* The drone pings: the one step that needs MinPeriod > MaxLag. *)
LEMMA PingStep ==
  ASSUME TypeOK, Sound, ~Crashed, Ping
  PROVE  Sound'
<1> USE PingAssumption DEF Ping, pingVars, threadVars, vecVars,
        TypeOK, Sound, Crashed, Unseen, Reacting, JustHeard, Notifying
<1>1. (UnseenIsRecent /\ ReactingIsRecent /\ RecordIsReal)'
  BY DEF UnseenIsRecent, ReactingIsRecent, RecordIsReal
<1>2. RecordCovers'
  BY DEF UnseenIsRecent, RecordCovers
<1>3. (LostIsOld /\ OnlineIsFresh)'
  BY DEF ReactingIsRecent, LostIsOld, OnlineIsFresh
<1>4. (IterSees /\ Told)'
  BY DEF IterSees, Told, Published
<1> QED
  BY <1>1, <1>2, <1>3, <1>4

(* Every age grows by one; lag < MaxLag keeps the bounds on lag. *)
LEMMA TickStep ==
  ASSUME TypeOK, Sound, ~Crashed, Tick
  PROVE  Sound'
<1> USE PingAssumption DEF Tick, Older, vecVars,
        TypeOK, Sound, Crashed, Unseen, Reacting, JustHeard, Notifying
<1>1. (UnseenIsRecent /\ ReactingIsRecent /\ RecordIsReal)'
  BY DEF UnseenIsRecent, ReactingIsRecent, RecordIsReal
<1>2. RecordCovers'
  BY DEF UnseenIsRecent, RecordCovers
<1>3. (LostIsOld /\ OnlineIsFresh)'
  BY DEF ReactingIsRecent, LostIsOld, OnlineIsFresh
<1>4. (IterSees /\ Told)'
  BY DEF IterSees, Told, Published
<1> QED
  BY <1>1, <1>2, <1>3, <1>4

(* The first reading of the indicator restarts lag. *)
LEMMA DetectStep ==
  ASSUME TypeOK, Sound, ~Crashed, Detect
  PROVE  Sound'
<1> USE PingAssumption DEF Detect, Differs, droneVars, pingVars, vecVars,
        TypeOK, Sound, Crashed, Unseen, Reacting, JustHeard, Notifying
<1>1. (UnseenIsRecent /\ ReactingIsRecent /\ RecordIsReal)'
  BY DEF UnseenIsRecent, ReactingIsRecent, RecordIsReal
<1>2. RecordCovers'
  BY DEF UnseenIsRecent, RecordCovers
<1>3. (LostIsOld /\ OnlineIsFresh)'
  BY DEF ReactingIsRecent, LostIsOld, OnlineIsFresh
<1>4. (IterSees /\ Told)'
  BY DEF IterSees, Told, Published
<1> QED
  BY <1>1, <1>2, <1>3, <1>4

(* The second reading of the indicator. *)
LEMMA LatchStep ==
  ASSUME TypeOK, Sound, ~Crashed, Latch
  PROVE  Sound'
<1> USE PingAssumption DEF Latch, droneVars, vecVars,
        TypeOK, Sound, Crashed, Unseen, Reacting, JustHeard, Notifying
<1>1. (UnseenIsRecent /\ ReactingIsRecent /\ RecordIsReal)'
  BY DEF UnseenIsRecent, ReactingIsRecent, RecordIsReal
<1>2. RecordCovers'
  BY DEF UnseenIsRecent, RecordCovers
<1>3. (LostIsOld /\ OnlineIsFresh)'
  BY DEF ReactingIsRecent, LostIsOld, OnlineIsFresh
<1>4. (IterSees /\ Told)'
  BY DEF IterSees, Told, Published
<1> QED
  BY <1>1, <1>2, <1>3, <1>4

(* The ping is recorded: the record is now as young as it can be. *)
LEMMA StampStep ==
  ASSUME TypeOK, Sound, ~Crashed, Stamp
  PROVE  Sound'
<1> USE PingAssumption DEF Stamp, droneVars, vecVars,
        TypeOK, Sound, Crashed, Unseen, Reacting, JustHeard, Notifying
<1>1. (UnseenIsRecent /\ ReactingIsRecent /\ RecordIsReal)'
  BY DEF UnseenIsRecent, ReactingIsRecent, RecordIsReal
<1>2. RecordCovers'
  BY DEF UnseenIsRecent, RecordCovers
<1>3. (LostIsOld /\ OnlineIsFresh)'
  BY DEF ReactingIsRecent, LostIsOld, OnlineIsFresh
<1>4. (IterSees /\ Told)'
  BY DEF IterSees, Told, Published
<1> QED
  BY <1>1, <1>2, <1>3, <1>4

(* The offline decision. *)
LEMMA GoOfflineStep ==
  ASSUME TypeOK, Sound, ~Crashed, GoOffline
  PROVE  Sound'
<1> USE PingAssumption DEF GoOffline, OfflineDue, droneVars, pingVars, vecVars,
        TypeOK, Sound, Crashed, Unseen, Reacting, JustHeard, Notifying
<1>1. (UnseenIsRecent /\ ReactingIsRecent /\ RecordIsReal)'
  BY DEF UnseenIsRecent, ReactingIsRecent, RecordIsReal
<1>2. RecordCovers'
  BY DEF UnseenIsRecent, RecordCovers
<1>3. (LostIsOld /\ OnlineIsFresh)'
  BY DEF ReactingIsRecent, LostIsOld, OnlineIsFresh
<1>4. (IterSees /\ Told)'
  BY DEF IterSees, Told, Published
<1> QED
  BY <1>1, <1>2, <1>3, <1>4

(* The online decision: only a ping of this very pass can have made it due. *)
LEMMA GoOnlineStep ==
  ASSUME TypeOK, Sound, ~Crashed, GoOnline
  PROVE  Sound'
<1> USE PingAssumption DEF GoOnline, OnlineDue, droneVars, pingVars, vecVars,
        TypeOK, Sound, Crashed, Unseen, Reacting, JustHeard, Notifying
<1>1. (UnseenIsRecent /\ ReactingIsRecent /\ RecordIsReal)'
  BY DEF UnseenIsRecent, ReactingIsRecent, RecordIsReal
<1>2. RecordCovers'
  BY DEF UnseenIsRecent, RecordCovers
<1>3. (LostIsOld /\ OnlineIsFresh)'
  BY DEF ReactingIsRecent, LostIsOld, OnlineIsFresh
<1>4. (IterSees /\ Told)'
  BY DEF IterSees, Told, Published
<1> QED
  BY <1>1, <1>2, <1>3, <1>4

(* A pass without an edge. *)
LEMMA StayAsIsStep ==
  ASSUME TypeOK, Sound, ~Crashed, StayAsIs
  PROVE  Sound'
<1> USE PingAssumption DEF StayAsIs, OfflineDue, OnlineDue, droneVars, pingVars, vecVars,
        TypeOK, Sound, Crashed, Unseen, Reacting, JustHeard, Notifying
<1>1. (UnseenIsRecent /\ ReactingIsRecent /\ RecordIsReal)'
  BY DEF UnseenIsRecent, ReactingIsRecent, RecordIsReal
<1>2. RecordCovers'
  BY DEF UnseenIsRecent, RecordCovers
<1>3. (LostIsOld /\ OnlineIsFresh)'
  BY DEF ReactingIsRecent, LostIsOld, OnlineIsFresh
<1>4. (IterSees /\ Told)'
  BY DEF IterSees, Told, Published
<1> QED
  BY <1>1, <1>2, <1>3, <1>4

(* begin() of the observers. *)
LEMMA IterBeginStep ==
  ASSUME TypeOK, Sound, ~Crashed, IterBegin
  PROVE  Sound'
<1> USE PingAssumption DEF IterBegin, droneVars, pingVars, vecVars,
        TypeOK, Sound, Crashed, Unseen, Reacting, JustHeard, Notifying
<1>1. (UnseenIsRecent /\ ReactingIsRecent /\ RecordIsReal)'
  BY DEF UnseenIsRecent, ReactingIsRecent, RecordIsReal
<1>2. RecordCovers'
  BY DEF UnseenIsRecent, RecordCovers
<1>3. (LostIsOld /\ OnlineIsFresh)'
  BY DEF ReactingIsRecent, LostIsOld, OnlineIsFresh
<1>4. (IterSees /\ Told)'
  BY DEF IterSees, Told, Published
<1> QED
  BY <1>1, <1>2, <1>3, <1>4

(* end() of the observers; the crashed outcome is not of interest here. *)
LEMMA IterEndStep ==
  ASSUME TypeOK, Sound, ~Crashed, IterEnd
  PROVE  ~Crashed' => Sound'
<1> USE PingAssumption DEF IterEnd, droneVars, pingVars, vecVars,
        TypeOK, Sound, Crashed, Unseen, Reacting, JustHeard, Notifying
<1> SUFFICES ASSUME ~Crashed' PROVE Sound'
  OBVIOUS
<1>1. (UnseenIsRecent /\ ReactingIsRecent /\ RecordIsReal)'
  BY DEF UnseenIsRecent, ReactingIsRecent, RecordIsReal
<1>2. RecordCovers'
  BY DEF UnseenIsRecent, RecordCovers
<1>3. (LostIsOld /\ OnlineIsFresh)'
  BY DEF ReactingIsRecent, LostIsOld, OnlineIsFresh
<1>4. (IterSees /\ Told)'
  BY DEF IterSees, Told, Published
<1> QED
  BY <1>1, <1>2, <1>3, <1>4

(* The observer is called. *)
LEMMA NotifyStep ==
  ASSUME TypeOK, Sound, ~Crashed, Notify
  PROVE  Sound'
<1> USE PingAssumption DEF Notify, droneVars, pingVars, vecVars,
        TypeOK, Sound, Crashed, Unseen, Reacting, JustHeard, Notifying
<1>1. (UnseenIsRecent /\ ReactingIsRecent /\ RecordIsReal)'
  BY DEF UnseenIsRecent, ReactingIsRecent, RecordIsReal
<1>2. RecordCovers'
  BY DEF UnseenIsRecent, RecordCovers
<1>3. (LostIsOld /\ OnlineIsFresh)'
  BY DEF ReactingIsRecent, LostIsOld, OnlineIsFresh
<1>4. (IterSees /\ Told)'
  BY DEF IterSees, Told, Published
<1> QED
  BY <1>1, <1>2, <1>3, <1>4

(* The main thread registers the observer. *)
LEMMA addObserverStep ==
  ASSUME TypeOK, Sound, ~Crashed, addObserver
  PROVE  Sound'
<1> USE PingAssumption DEF addObserver, AddObserverStart, AddObserverFinish, droneVars, pingVars, threadVars,
        TypeOK, Sound, Crashed, Unseen, Reacting, JustHeard, Notifying
<1>1. (UnseenIsRecent /\ ReactingIsRecent /\ RecordIsReal)'
  BY DEF UnseenIsRecent, ReactingIsRecent, RecordIsReal
<1>2. RecordCovers'
  BY DEF UnseenIsRecent, RecordCovers
<1>3. (LostIsOld /\ OnlineIsFresh)'
  BY DEF ReactingIsRecent, LostIsOld, OnlineIsFresh
<1>4. (IterSees /\ Told)'
  BY DEF IterSees, Told, Published
<1> QED
  BY <1>1, <1>2, <1>3, <1>4

----------------------------------------------------------------------------
(* Every step of any actor preserves the invariant; once the process died  *)
(* only its types remain.                                                  *)
LEMMA IInvStep == IInv /\ [Next]_vars => IInv'
<1> SUFFICES ASSUME IInv, [Next]_vars PROVE IInv'
  OBVIOUS
<1>1. TypeOK /\ TypeOK'
  BY TypeStep DEF IInv
<1>2. CASE Crashed
  <2>1. Crashed'
    BY <1>2, <1>1 DEF Crashed, Next, checkPings, addObserver, Ping, Tick, Detect, Latch,
       Stamp, GoOffline, GoOnline, StayAsIs, IterBegin, IterEnd, Notify,
       AddObserverStart, AddObserverFinish, threadVars, vars
  <2> QED
    BY <1>1, <2>1 DEF IInv
<1>3. CASE ~Crashed
  <2>1. Sound
    BY <1>3 DEF IInv, Sound
  <2>2. CASE UNCHANGED vars
    BY <2>1, <2>2 DEF vars, Sound, UnseenIsRecent, ReactingIsRecent, RecordIsReal,
       RecordCovers, LostIsOld, OnlineIsFresh, IterSees, Told, Unseen, Reacting,
       JustHeard, Notifying, Published, IInv, TypeOK, Crashed
  <2>3. CASE Next
    <3>1. ~Crashed' => Sound'
      BY <1>1, <1>3, <2>1, <2>3, PingStep, TickStep, DetectStep, LatchStep, StampStep,
         GoOfflineStep, GoOnlineStep, StayAsIsStep, IterBeginStep, IterEndStep,
         NotifyStep, addObserverStep DEF Next, checkPings
    <3> QED
      BY <1>1, <3>1 DEF IInv, Sound
  <2> QED
    BY <2>2, <2>3
<1> QED
  BY <1>2, <1>3

(* ... which therefore always holds. *)
LEMMA IInvAlways == Spec => []IInv
  BY IInvInit, IInvStep, PTL DEF Spec

(* Every variable keeps its type: ages stay counted, the thread stays at a *)
(* point of its loop.                                                      *)
THEOREM TypeCorrect == Spec => []TypeOK
<1>1. IInv => TypeOK
  BY DEF IInv
<1> QED
  BY IInvAlways, <1>1, PTL

(* For every timeout and every lag: checkPings records no ping the drone   *)
(* did not send, although it reads the indicator twice.                    *)
THEOREM PingsAreReal == Spec => []NoPhantomPing
<1>1. IInv => NoPhantomPing
  BY DEF IInv, NoPhantomPing, RecordIsReal
<1> QED
  BY IInvAlways, <1>1, PTL

(* Two passes after a ping, checkPings has recorded it.                    *)
THEOREM PingsAreSeen == Spec => []NoMissedPing
<1>1. IInv => NoMissedPing
  <2> SUFFICES ASSUME IInv, ~Crashed, silence > 2 * MaxLag PROVE pingAge <= silence
    BY DEF NoMissedPing
  <2> QED
    BY PingAssumption DEF IInv, TypeOK, RecordCovers, UnseenIsRecent,
       ReactingIsRecent, Unseen, Reacting, JustHeard
<1> QED
  BY IInvAlways, <1>1, PTL

(* Between notifications the attribute says what the controller believes,  *)
(* from the first edge that got through on.                                *)
THEOREM ObserverIsTold == Spec => []PublishedAgrees
<1>1. IInv => PublishedAgrees
  BY DEF IInv, PublishedAgrees, Told
<1> QED
  BY IInvAlways, <1>1, PTL

----------------------------------------------------------------------------
(* A published "on" is never older than a timeout and four passes, which   *)
(* is why a Tick of the thread is a Tick that LinkStatus allows.           *)
LEMMA ShownIsTimely ==
  ASSUME IInv, ~Crashed, online = "on", lag < MaxLag
  PROVE  silence < Timeout + 4 * MaxLag
<1>1. pingAge <= Timeout + MaxLag + lag
  <2>1. CASE Notifying
    BY <2>1, PingAssumption DEF IInv, TypeOK, Told, LostIsOld, OnlineIsFresh, Published, Notifying
  <2>2. CASE ~Notifying
    BY <2>2, PingAssumption DEF IInv, TypeOK, Told, OnlineIsFresh, Published, Notifying,
       Reacting, Crashed
  <2> QED
    BY <2>1, <2>2
<1> QED
  BY <1>1, PingAssumption DEF IInv, TypeOK, RecordIsReal

(* The initial state is one of the promise's. *)
LEMMA LinkInit == Init => Link!Init
BY DEF Init, Link!Init, Crashed

(* A step of the threads is a step of the promise or a stutter.            *)
LEMMA LinkStep == IInv /\ [Next]_vars => [Link!Next]_<<online, silence, gap, ~Crashed>>
<1> SUFFICES ASSUME IInv, Next
             PROVE  Link!Next \/ UNCHANGED <<online, silence, gap, ~Crashed>>
  BY DEF vars, Crashed
<1> USE PingAssumption
<1>1. CASE Ping
  BY <1>1 DEF Ping, threadVars, Crashed, Link!Next, Link!Hear
<1>2. CASE Tick
  <2>1. ~Crashed /\ online = "on" => silence < Timeout + 4 * MaxLag
    BY <1>2, ShownIsTimely DEF Tick
  <2>2. Link!Tick
    BY <1>2, <2>1 DEF Tick, Link!Tick, Older, Link!Older, Crashed
  <2> QED
    BY <2>2 DEF Link!Next
<1>3. CASE Notify
  <2>1. ~Crashed /\ ~Crashed'
    BY <1>3 DEF Notify, Crashed
  <2>2. CASE m_boardOnline
    <3>1. silence <= 2 * MaxLag
      BY <1>3, <2>1, <2>2 DEF Notify, IInv, TypeOK, OnlineIsFresh, Notifying, JustHeard
    <3>2. Link!ShowOnline
      BY <1>3, <2>1, <2>2, <3>1 DEF Notify, Published, Link!ShowOnline, droneVars
    <3> QED
      BY <3>2 DEF Link!Next
  <2>3. CASE ~m_boardOnline
    <3>1. Link!ReallySilent
      BY <1>3, <2>1, <2>3 DEF Notify, IInv, TypeOK, LostIsOld, RecordCovers, Notifying,
         UnseenIsRecent, Unseen, Reacting, Link!ReallySilent
    <3>2. Link!ShowOffline
      BY <1>3, <2>1, <2>3, <3>1 DEF Notify, Published, Link!ShowOffline, droneVars
    <3> QED
      BY <3>2 DEF Link!Next
  <2> QED
    BY <2>2, <2>3
<1>4. CASE IterEnd
  <2>1. UNCHANGED <<online, silence, gap>> /\ ~Crashed
    BY <1>4 DEF IterEnd, droneVars, Crashed
  <2>2. CASE Crashed'
    BY <2>1, <2>2 DEF Link!Next, Link!Die
  <2>3. CASE ~Crashed'
    BY <2>1, <2>3
  <2> QED
    BY <2>2, <2>3
<1>5. CASE \/ Detect \/ Latch \/ Stamp \/ GoOffline \/ GoOnline \/ StayAsIs
           \/ IterBegin \/ addObserver
  BY <1>5 DEF Detect, Latch, Stamp, GoOffline, GoOnline, StayAsIs, IterBegin, addObserver,
     AddObserverStart, AddObserverFinish, droneVars, threadVars, Crashed
<1> QED
  BY <1>1, <1>2, <1>3, <1>4, <1>5 DEF Next, checkPings

(* The attribute the operator sees keeps every promise of LinkStatus: it   *)
(* turns on only just after a ping, off only after a real silence, and in  *)
(* time.                                                                   *)
THEOREM AttributeKeepsPromise == Spec => ImplementsLink
<1>1. Spec => []IInv
  BY IInvAlways
<1> QED
  BY <1>1, LinkInit, LinkStep, PTL DEF Spec, ImplementsLink, Link!Spec, Link!linkVars
=============================================================================

-------------------------- MODULE HoldPointProofs --------------------------
(***************************************************************************)
(* Proofs about HoldPoint, for every set of objects, positions and modes   *)
(* and every length of the queue.  With the types, the three properties    *)
(* are inductive: what keeps them so is that the object does not change    *)
(* without a reset, and that a callback that was queued is still there.    *)
(***************************************************************************)
EXTENDS HoldPoint, TLAPS

CallNames == {"mode", "active_hold_point", "objectUpdated"}

IInv == TypeOK /\ TargetCatchesUp /\ OneObjectPerHold /\ LastModeWins

----------------------------------------------------------------------------
(* The queue: a write adds its callback and removes none, and a callback   *)
(* that runs is the only one that leaves.                                  *)
LEMMA QueueAdds ==
    ASSUME calls \in Seq(CallNames), NEW c \in CallNames, Queue(c)
    PROVE  /\ calls' \in Seq(CallNames)
           /\ Queued(c)'
           /\ \A d \in CallNames : Queued(d) => Queued(d)'
<1>1. calls' = Append(calls, c) /\ Len(calls') = Len(calls) + 1 /\ Len(calls) \in Nat
  BY DEF Queue
<1>2. calls'[Len(calls) + 1] = c /\ \A i \in 1..Len(calls) : calls'[i] = calls[i]
  BY <1>1
<1>3. calls' \in Seq(CallNames)
  BY <1>1
<1>4. Queued(c)'
  <2>1. Len(calls) + 1 \in 1..Len(calls')
    BY <1>1
  <2> QED BY <2>1, <1>2 DEF Queued
<1>5. ASSUME NEW d \in CallNames, Queued(d) PROVE Queued(d)'
  <2>1. PICK i \in 1..Len(calls) : calls[i] = d
    BY <1>5 DEF Queued
  <2>2. i \in 1..Len(calls') /\ calls'[i] = d
    BY <2>1, <1>1, <1>2
  <2> QED BY <2>2 DEF Queued
<1> QED BY <1>3, <1>4, <1>5

LEMMA RunningRemoves ==
    ASSUME calls \in Seq(CallNames), NEW c \in CallNames, Running(c)
    PROVE  /\ calls' \in Seq(CallNames)
           /\ \A d \in CallNames : d # c /\ Queued(d) => Queued(d)'
<1>1. calls # <<>> /\ calls[1] = c /\ calls' = Tail(calls)
  BY DEF Running
<1>2. /\ Len(calls) \in Nat \ {0} /\ Len(calls') = Len(calls) - 1
      /\ \A i \in 1..Len(calls') : calls'[i] = calls[i + 1]
  BY <1>1
<1>3. calls' \in Seq(CallNames)
  BY <1>1
<1>4. ASSUME NEW d \in CallNames, d # c, Queued(d) PROVE Queued(d)'
  <2>1. PICK i \in 1..Len(calls) : calls[i] = d
    BY <1>4 DEF Queued
  <2>2. i - 1 \in 1..Len(calls')
    BY <2>1, <1>1, <1>2, <1>4
  <2>3. calls'[i - 1] = d
    BY <2>1, <2>2, <1>2
  <2> QED BY <2>2, <2>3 DEF Queued
<1> QED BY <1>3, <1>4

(* What a position loses on its way through float and int: the nearest     *)
(* float is half a grain off at most, a cut altitude less than a metre.    *)
LEMMA AsFloatIsNear ==
    ASSUME NEW x \in Int
    PROVE  AsFloat(x) \in Int /\ 2 * (AsFloat(x) - x) \in -Grain..Grain
<1> DEFINE below == x \div Grain
           rest == x % Grain
<1>0. Grain \in Nat \ {0}
  BY HoldAssumption
<1>1. /\ below \in Int /\ rest \in 0..(Grain - 1)
      /\ x = Grain * below + rest
  BY <1>0
<1>2. /\ AsFloat(x) \in {Grain * below, Grain * (below + 1)}
      /\ AsFloat(x) = Grain * below => 2 * rest <= Grain
      /\ AsFloat(x) # Grain * below => 2 * rest >= Grain
  <2>1. CASE 2 * rest > Grain \/ (2 * rest = Grain /\ below % 2 = 1)
    <3>1. AsFloat(x) = Grain * (below + 1)
      BY <2>1 DEF AsFloat
    <3>2. 2 * rest >= Grain
      BY <2>1, <1>0, <1>1
    <3>3. Grain * (below + 1) = Grain * below + Grain
      BY <1>0, <1>1
    <3> HIDE DEF below, rest
    <3>4. Grain * below \in Int
      BY <1>0, <1>1
    <3> QED BY <3>1, <3>2, <3>3, <3>4, <1>0
  <2>2. CASE ~(2 * rest > Grain \/ (2 * rest = Grain /\ below % 2 = 1))
    <3>1. AsFloat(x) = Grain * below
      BY <2>2 DEF AsFloat
    <3>2. 2 * rest <= Grain
      BY <2>2, <1>0, <1>1
    <3> QED BY <3>1, <3>2
  <2> QED BY <2>1, <2>2
<1> HIDE DEF below, rest
<1>3. Grain * below \in Int /\ Grain * (below + 1) = Grain * below + Grain
  BY <1>0, <1>1
<1> QED BY <1>0, <1>1, <1>2, <1>3

LEMMA AsIntIsNear ==
    ASSUME NEW x \in Int
    PROVE  AsInt(x) \in Int /\ AsInt(x) - x \in (1 - Unit)..(Unit - 1)
<1>0. Unit \in Nat \ {0}
  BY HoldAssumption
<1>1. ASSUME NEW y \in Int
      PROVE  Unit * (y \div Unit) \in Int /\ y - Unit * (y \div Unit) \in 0..(Unit - 1)
  <2>1. y \div Unit \in Int /\ y % Unit \in 0..(Unit - 1) /\ y = Unit * (y \div Unit) + (y % Unit)
    BY <1>0
  <2>2. Unit * (y \div Unit) \in Int
    BY <1>0, <2>1
  <2> QED BY <2>1, <2>2
<1>2. CASE x >= 0
  <2>1. AsInt(x) = Unit * (x \div Unit)
    BY <1>2 DEF AsInt
  <2> DEFINE cut == Unit * (x \div Unit)
  <2>2. cut \in Int /\ x - cut \in 0..(Unit - 1)
    BY <1>1
  <2> HIDE DEF cut
  <2>3. AsInt(x) = cut
    BY <2>1 DEF cut
  <2> QED BY <2>2, <2>3, <1>0
<1>3. CASE ~(x >= 0)
  <2> DEFINE cut == Unit * ((-x) \div Unit)
  <2>1. AsInt(x) = -cut
    BY <1>3 DEF AsInt
  <2>2. cut \in Int /\ (-x) - cut \in 0..(Unit - 1)
    BY <1>1
  <2> HIDE DEF cut
  <2> QED BY <2>1, <2>2, <1>0
<1> QED BY <1>2, <1>3

LEMMA NarrowedIsNear ==
    ASSUME NEW p \in Points
    PROVE  Narrowed(p) \in Coordinates /\ IsAt(Narrowed(p), p)
<1>1. p.lat \in Int /\ p.lon \in Int /\ p.alt \in Int
  BY HoldAssumption DEF Coordinates
<1>2. Narrowed(p) = [lat |-> AsFloat(p.lat), lon |-> AsFloat(p.lon), alt |-> AsInt(p.alt)]
  BY DEF Narrowed
<1> QED
  BY <1>1, <1>2, AsFloatIsNear, AsIntIsNear DEF Coordinates, IsAt

(* No record of coordinates is the empty sequence. *)
LEMMA TargetIsSent == \A p \in Points : Narrowed(p) # NoTarget
<1> SUFFICES ASSUME NEW p \in Points, Narrowed(p) = NoTarget
             PROVE  FALSE
  OBVIOUS
<1>1. DOMAIN Narrowed(p) = {"lat", "lon", "alt"}
  BY DEF Narrowed
<1>2. DOMAIN NoTarget = {}
  BY DEF NoTarget
<1> QED BY <1>1, <1>2

(* A mode the client knows has its call; an unknown word becomes another   *)
(* unknown word.                                                           *)
LEMMA ModeCalls ==
    /\ "UNDEFINED" \notin KnownModes
    /\ "observation" \in KnownModes /\ "hold" \in KnownModes
    /\ \A m : convertDroneModeFromStr(m) \in KnownModes <=> m \in KnownModes
    /\ \A m \in KnownModes : convertDroneModeFromStr(m) = m
BY DEF KnownModes, rfcModeCall, convertDroneModeFromStr

LEMMA InitIInv ==
    ASSUME Init
    PROVE  IInv
<1>1. TypeOK
  <2>1. calls \in Seq(CallNames)
    BY DEF Init
  <2> QED BY <2>1, Zenon DEF Init, TypeOK, CallNames, NoObject
<1>2. TargetCatchesUp /\ OneObjectPerHold /\ LastModeWins
  BY DEF Init, TargetCatchesUp, OneObjectPerHold, LastModeWins
<1> QED BY <1>1, <1>2 DEF IInv

----------------------------------------------------------------------------
(* The operator and the server: every write that could break what the      *)
(* drone shows has queued a callback.                                      *)
LEMMA OperatorKeepsIInv ==
    ASSUME IInv, Operator
    PROVE  IInv'
<1> USE DEF IInv
<1>0. calls \in Seq(CallNames) /\ {"mode", "active_hold_point", "objectUpdated"} \subseteq CallNames
  BY DEF TypeOK, CallNames
<1>1. ASSUME NEW mode \in Modes, WriteMode(mode) PROVE IInv'
  <2>1. /\ calls' \in Seq(CallNames) /\ Queued("mode")'
        /\ Queued("objectUpdated") => Queued("objectUpdated")'
    BY <1>0, <1>1, QueueAdds DEF WriteMode
  <2>2. TypeOK'
    BY <1>1, <2>1 DEF WriteMode, TypeOK, holdVars, droneVars, CallNames
  <2>3. TargetCatchesUp' /\ OneObjectPerHold'
    BY <1>1, <2>1 DEF WriteMode, TargetCatchesUp, OneObjectPerHold, holdVars, droneVars
  <2>4. LastModeWins'
    BY <2>1 DEF LastModeWins
  <2> QED BY <2>2, <2>3, <2>4
<1>2. ASSUME NEW id \in Ids \cup {0}, WriteHoldPoint(id) PROVE IInv'
  <2>1. /\ calls' \in Seq(CallNames)
        /\ Queued("mode") => Queued("mode")'
        /\ Queued("objectUpdated") => Queued("objectUpdated")'
    BY <1>0, <1>2, QueueAdds DEF WriteHoldPoint
  <2>2. TypeOK'
    BY <1>2, <2>1 DEF WriteHoldPoint, TypeOK, holdVars, droneVars, CallNames
  <2>3. TargetCatchesUp' /\ OneObjectPerHold'
    BY <1>2, <2>1 DEF WriteHoldPoint, TargetCatchesUp, OneObjectPerHold, holdVars, droneVars
  <2>4. LastModeWins'
    BY <1>2, <2>1 DEF WriteHoldPoint, LastModeWins, droneVars
  <2> QED BY <2>2, <2>3, <2>4
<1>3. ASSUME NEW id \in Ids, NEW p \in Points, MoveObject(id, p) PROVE IInv'
  <2>1. /\ calls' \in Seq(CallNames) /\ Queued("objectUpdated")'
        /\ Queued("mode") => Queued("mode")'
    BY <1>0, <1>3, QueueAdds DEF MoveObject
  <2>2. TypeOK'
    BY <1>3, <2>1 DEF MoveObject, TypeOK, holdVars, droneVars, CallNames
  <2>3. TargetCatchesUp' /\ OneObjectPerHold'
    BY <1>3, <2>1 DEF MoveObject, TargetCatchesUp, OneObjectPerHold, holdVars, droneVars
  <2>4. LastModeWins'
    BY <1>3, <2>1 DEF MoveObject, LastModeWins, droneVars
  <2> QED BY <2>2, <2>3, <2>4
<1>4. ASSUME NEW id \in Ids, DeleteObject(id) PROVE IInv'
  <2>1. TypeOK'
    BY <1>4 DEF DeleteObject, TypeOK, holdVars, droneVars
  <2>2. TargetCatchesUp' /\ OneObjectPerHold' /\ LastModeWins'
    BY <1>4
    DEF DeleteObject, TargetCatchesUp, OneObjectPerHold, LastModeWins, Queued,
        holdVars, droneVars
  <2> QED BY <2>1, <2>2
<1> QED
  BY <1>1, <1>2, <1>3, <1>4 DEF Operator

(* The receiver: the callback of the mode reads the attribute as it is, and *)
(* an object is taken only where none is held, after a reset.               *)
LEMMA ReceiverKeepsIInv ==
    ASSUME IInv, Receiver
    PROVE  IInv'
<1> USE DEF IInv
<1>0. calls \in Seq(CallNames) /\ {"mode", "active_hold_point", "objectUpdated"} \subseteq CallNames
  BY DEF TypeOK, CallNames
<1>1. CASE ApproveMode
  <2> DEFINE mode == convertDroneModeFromStr(attrMode)
  <2>1. /\ calls' \in Seq(CallNames)
        /\ Queued("objectUpdated") => Queued("objectUpdated")'
    BY <1>0, <1>1, RunningRemoves DEF ApproveMode
  <2>2. \/ Reset
        \/ UNCHANGED <<holdVars, sent>>
    BY <1>1 DEF ApproveMode
  <2>3. /\ droneMode' = IF mode \in KnownModes THEN rfcModeCall[mode] ELSE droneMode
        /\ UNCHANGED <<serverVars, crashed, target>>
    BY <1>1 DEF ApproveMode
  <2>4. droneMode' \in {rfcModeCall[m] : m \in KnownModes} \cup {None}
    <3> HIDE DEF mode
    <3> QED BY <2>3 DEF TypeOK
  <2>5. TypeOK'
    BY <2>1, <2>2, <2>3, <2>4 DEF TypeOK, Reset, holdVars, serverVars, CallNames, NoObject
  <2>6. TargetCatchesUp' /\ OneObjectPerHold'
    BY <2>1, <2>2, <2>3 DEF TargetCatchesUp, OneObjectPerHold, Reset, holdVars, serverVars
  <2>7. LastModeWins'
    BY <2>3, ModeCalls DEF LastModeWins, serverVars
  <2> QED BY <2>5, <2>6, <2>7
<1>2. CASE ApproveHoldPoint
  <2>1. /\ calls' \in Seq(CallNames)
        /\ Queued("mode") => Queued("mode")'
        /\ Queued("objectUpdated") => Queued("objectUpdated")'
    BY <1>0, <1>2, RunningRemoves DEF ApproveHoldPoint
  <2>2. TypeOK'
    BY <1>2, <2>1 DEF ApproveHoldPoint, TypeOK, serverVars, droneVars, CallNames
  <2>3. TargetCatchesUp' /\ OneObjectPerHold' /\ LastModeWins'
    BY <1>2, <2>1
    DEF ApproveHoldPoint, TargetCatchesUp, OneObjectPerHold, LastModeWins,
        serverVars, droneVars
  <2> QED BY <2>2, <2>3
<1>3. ASSUME callbackObjectUpdated PROVE IInv'
  <2>1. /\ calls' \in Seq(CallNames)
        /\ Queued("mode") => Queued("mode")'
    BY <1>0, <1>3, RunningRemoves
    DEF callbackObjectUpdated, UpdateHeld, CatchHoldObject, HoldObjectNotFound, NothingHeld
  <2>2. CASE UpdateHeld
    <3>1. m_holdPointObject \in Ids /\ point[m_holdPointObject] \in Points
      BY <2>2 DEF UpdateHeld, TypeOK
    <3>2. /\ Narrowed(point[m_holdPointObject]) \in Coordinates
          /\ Narrowed(point[m_holdPointObject]) # NoTarget
          /\ IsAt(Narrowed(point[m_holdPointObject]), point[m_holdPointObject])
      BY <3>1, NarrowedIsNear, TargetIsSent
    <3>3. TypeOK'
      BY <2>1, <2>2, <3>1, <3>2
      DEF UpdateHeld, SendTarget, TypeOK, serverVars, holdVars, CallNames
    <3>4. TargetCatchesUp' /\ OneObjectPerHold' /\ LastModeWins'
      BY <2>1, <2>2, <3>2
      DEF UpdateHeld, SendTarget, TargetCatchesUp, OneObjectPerHold, LastModeWins,
          serverVars, holdVars
    <3> QED BY <3>3, <3>4
  <2>3. CASE CatchHoldObject
    <3>1. m_holdPointObjectId \in Ids /\ sent = {} /\ point[m_holdPointObjectId] \in Points
      BY <2>3, HoldAssumption DEF CatchHoldObject, TypeOK, OneObjectPerHold, NoObject
    <3>2. /\ Narrowed(point[m_holdPointObjectId]) \in Coordinates
          /\ Narrowed(point[m_holdPointObjectId]) # NoTarget
          /\ IsAt(Narrowed(point[m_holdPointObjectId]), point[m_holdPointObjectId])
      BY <3>1, NarrowedIsNear, TargetIsSent
    <3>3. TypeOK'
      BY <2>1, <2>3, <3>1, <3>2
      DEF CatchHoldObject, SendTarget, TypeOK, serverVars, CallNames
    <3>4. TargetCatchesUp' /\ OneObjectPerHold' /\ LastModeWins'
      BY <2>1, <2>3, <3>1, <3>2
      DEF CatchHoldObject, SendTarget, TargetCatchesUp, OneObjectPerHold, LastModeWins,
          serverVars
    <3> QED BY <3>3, <3>4
  <2>4. CASE HoldObjectNotFound \/ NothingHeld
    <3>1. TypeOK'
      BY <2>1, <2>4
      DEF HoldObjectNotFound, NothingHeld, TypeOK, serverVars, holdVars, droneVars, CallNames
    <3>2. TargetCatchesUp' /\ OneObjectPerHold' /\ LastModeWins'
      BY <2>1, <2>4
      DEF HoldObjectNotFound, NothingHeld, TargetCatchesUp, OneObjectPerHold, LastModeWins,
          serverVars, holdVars, droneVars
    <3> QED BY <3>1, <3>2
  <2> QED BY <1>3, <2>2, <2>3, <2>4 DEF callbackObjectUpdated
<1> QED
  BY <1>1, <1>2, <1>3 DEF Receiver, callbackApprovePending

LEMMA Invariance == Spec => []IInv
<1>1. Init => IInv
  BY InitIInv
<1>2. IInv /\ [Next]_vars => IInv'
  <2> SUFFICES ASSUME IInv, [Next]_vars
               PROVE  IInv'
    OBVIOUS
  <2>1. CASE UNCHANGED vars
    BY <2>1 DEF vars, IInv, TypeOK, TargetCatchesUp, OneObjectPerHold, LastModeWins, Queued
  <2> QED BY <2>1, OperatorKeepsIInv, ReceiverKeepsIInv DEF Next
<1> QED BY <1>1, <1>2, PTL DEF Spec

(* The receiver's state and the queue keep their types. *)
THEOREM TypeCorrect == Spec => []TypeOK
<1> QED BY Invariance, PTL DEF IInv

(* callbackObjectUpdated reads the position when it runs: no move of the   *)
(* held object is lost, however many were queued and in whatever order,    *)
(* and what float and int take from the position moves the target by half  *)
(* a grain and by less than a metre of altitude, wherever the object is.   *)
THEOREM TargetFollows == Spec => []TargetCatchesUp
<1> QED BY Invariance, PTL DEF IInv

(* The hold object is replaced only by way of a reset, so the target does  *)
(* not jump to another object while the drone stays in HOLD.               *)
THEOREM HoldsOneObject == Spec => []OneObjectPerHold
<1> QED BY Invariance, PTL DEF IInv

(* callbackApprovePending reads the mode when it runs: with no callback    *)
(* left, the drone is in the mode that was written last.                   *)
THEOREM ModeSettles == Spec => []LastModeWins
<1> QED BY Invariance, PTL DEF IInv
=============================================================================

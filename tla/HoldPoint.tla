----------------------------- MODULE HoldPoint -----------------------------
(***************************************************************************)
(* The flight mode and the hold point: the operator writes the attributes  *)
(* "mode" and "active_hold_point" of the camera object and moves objects   *)
(* on the objrepr server; the server queues callbacks; the                 *)
(* ControlSignalReceiver runs them one after the other and, through its    *)
(* observer the DroneController, commands the drone.                       *)
(*                                                                         *)
(* A callback carries no value: the handler reads the attribute, or the    *)
(* object's position, when it runs, and the server may have gone on since  *)
(* the callback was queued.                                                *)
(*                                                                         *)
(* Coordinates are integers: the step in which the server's doubles are    *)
(* told apart.  The drone takes latitude and longitude as floats, Grain of *)
(* these steps wide, and the altitude in whole metres, of Unit steps.      *)
(***************************************************************************)
EXTENDS Sequences, Integers

CONSTANTS Ids,        \* objects of the server
          Points,     \* positions an object can have
          Grain,      \* what a float tells apart where the objects are
          Unit,       \* a metre of altitude
          Modes,      \* values the operator gives to "mode", unknown ones too
          MaxCalls    \* bound on the callbacks waiting to run

NoObject == 0       \* the null pointer
None == "none"      \* no mode was commanded yet
NoTarget == <<>>    \* and no target
Coordinates == [lat : Int, lon : Int, alt : Int]

ASSUME HoldAssumption ==
    /\ Ids \subseteq Nat \ {0}
    /\ Points \subseteq Coordinates
    /\ Grain \in Nat \ {0} /\ Unit \in Nat \ {0}
    /\ MaxCalls \in Nat

VARIABLES
    exists, point,          \* objects the server knows, and where they are
    attrMode, attrHold,     \* the two attributes
    calls,                  \* callbacks queued for the receiver
    m_holdPointObject,      \* an object, or NoObject
    m_holdPointObjectId,
    crashed,                \* the process dereferenced a null pointer
    droneMode,              \* last mode command of the rfc library, or None
    target,                 \* last rfc.setTargetCoord, or NoTarget
    sent                    \* objects whose coordinates went to the drone
                            \* since the last reset of the hold point

serverVars == <<exists, point, attrMode, attrHold>>
holdVars   == <<m_holdPointObject, m_holdPointObjectId>>
droneVars  == <<droneMode, target, sent>>
vars == <<exists, point, attrMode, attrHold, calls, m_holdPointObject,
          m_holdPointObjectId, crashed, droneMode, target, sent>>

(* DroneController::callbackSetMode: the rfc call of each mode. *)
rfcModeCall == [observation  |-> "setObservationMode",
                hold         |-> "setHoldCoordinateMode",
                hold_to_aim  |-> "setHoldCurrentCoordinateMode",
                pilot_window |-> "setPilotWindowMode",
                position     |-> "setPositionMode",
                stow         |-> "setStowMode"]
KnownModes == DOMAIN rfcModeCall

convertDroneModeFromStr_aims(str) ==
    IF str = "hold" THEN "hold_to_aim" ELSE IF str \in KnownModes THEN str ELSE "UNDEFINED"
convertDroneModeFromStr(str) == IF str \in KnownModes THEN str ELSE "UNDEFINED"

Init ==
    /\ exists = Ids /\ point \in [Ids -> Points]
    /\ attrMode = "observation" /\ attrHold = 0
    /\ calls = <<>>
    /\ m_holdPointObject = NoObject /\ m_holdPointObjectId = 0
    /\ crashed = FALSE
    /\ droneMode = None /\ target = NoTarget /\ sent = {}

----------------------------------------------------------------------------
(* The operator and the server. *)
Queue(call) == /\ Len(calls) < MaxCalls
               /\ calls' = Append(calls, call)

WriteMode(mode) ==
    /\ attrMode' = mode
    /\ Queue("mode")
    /\ UNCHANGED <<exists, point, attrHold, holdVars, crashed, droneVars>>

WriteHoldPoint(id) ==
    /\ attrHold' = id
    /\ Queue("active_hold_point")
    /\ UNCHANGED <<exists, point, attrMode, holdVars, crashed, droneVars>>

MoveObject(id, p) ==
    /\ id \in exists
    /\ point' = [point EXCEPT ![id] = p]
    /\ Queue("objectUpdated")
    /\ UNCHANGED <<exists, attrMode, attrHold, holdVars, crashed, droneVars>>

(* The server forgets an object; a client that holds it still can read it. *)
DeleteObject(id) ==
    /\ id \in exists
    /\ exists' = exists \ {id}
    /\ UNCHANGED <<point, attrMode, attrHold, calls, holdVars, crashed, droneVars>>

----------------------------------------------------------------------------
Running(call) == /\ ~crashed
                 /\ calls # <<>> /\ Head(calls) = call
                 /\ calls' = Tail(calls)

Reset_unselects ==
    m_holdPointObject' = NoObject /\ m_holdPointObjectId' = -1 /\ sent' = {}
Reset == /\ m_holdPointObject' = NoObject
         /\ m_holdPointObjectId' = 0
         /\ sent' = {}

(* callbackApprovePending( "mode" ).  A mode that is not HOLD, an unknown  *)
(* one included, drops the hold point; an unknown one reaches no rfc call. *)
ApproveMode ==
    LET mode == convertDroneModeFromStr(attrMode) IN
    /\ Running("mode")
    /\ IF (m_holdPointObject # NoObject \/ m_holdPointObjectId # 0) /\ mode # "hold"
         THEN Reset
         ELSE UNCHANGED <<holdVars, sent>>
    /\ droneMode' = IF mode \in KnownModes THEN rfcModeCall[mode] ELSE droneMode
    /\ UNCHANGED <<serverVars, crashed, target>>

(* callbackApprovePending( "active_hold_point" ): the id only, an object   *)
(* that is already held stays.                                             *)
ApproveHoldPoint_drops ==
    /\ Running("active_hold_point")
    /\ m_holdPointObjectId' = attrHold
    /\ m_holdPointObject' = NoObject
    /\ UNCHANGED <<serverVars, crashed, droneVars>>
ApproveHoldPoint ==
    /\ Running("active_hold_point")
    /\ m_holdPointObjectId' = attrHold
    /\ UNCHANGED <<serverVars, m_holdPointObject, crashed, droneVars>>

(* callbackSetTargetCoord( float, float, int ), given doubles: a float is  *)
(* the nearest one, the even one of two; an int has no fraction.           *)
AsFloat(x) ==
    LET below == x \div Grain
        rest  == x % Grain
        up    == \/ 2 * rest > Grain
                 \/ 2 * rest = Grain /\ below % 2 = 1
    IN  Grain * (IF up THEN below + 1 ELSE below)
AsInt(x) == IF x >= 0 THEN Unit * (x \div Unit) ELSE -(Unit * ((-x) \div Unit))
Narrowed(p) == [lat |-> AsFloat(p.lat), lon |-> AsFloat(p.lon), alt |-> AsInt(p.alt)]

SendTarget(id) == /\ target' = Narrowed(point[id])
                  /\ sent' = sent \cup {id}

(* callbackObjectUpdated, whichever object was updated. *)
UpdateHeld_late ==
    /\ Running("objectUpdated")
    /\ m_holdPointObject # NoObject
    /\ IF "objectUpdated" \in {calls[i] : i \in 2..Len(calls)}
         THEN SendTarget(m_holdPointObject)
         ELSE UNCHANGED <<target, sent>>
    /\ UNCHANGED <<serverVars, holdVars, crashed, droneMode>>
UpdateHeld ==
    /\ Running("objectUpdated")
    /\ m_holdPointObject # NoObject
    /\ SendTarget(m_holdPointObject)
    /\ UNCHANGED <<serverVars, holdVars, crashed, droneMode>>

CatchHoldObject_forgets ==
    /\ Running("objectUpdated")
    /\ m_holdPointObject = NoObject /\ m_holdPointObjectId \in exists
    /\ SendTarget(m_holdPointObjectId)
    /\ UNCHANGED <<serverVars, holdVars, crashed, droneMode>>
CatchHoldObject ==
    /\ Running("objectUpdated")
    /\ m_holdPointObject = NoObject /\ m_holdPointObjectId \in exists
    /\ m_holdPointObject' = m_holdPointObjectId
    /\ SendTarget(m_holdPointObjectId)
    /\ UNCHANGED <<serverVars, m_holdPointObjectId, crashed, droneMode>>

(* The id is not found: an error is logged and m_holdPointObject is used   *)
(* all the same.                                                           *)
HoldObjectNotFound ==
    /\ Running("objectUpdated")
    /\ m_holdPointObject = NoObject
    /\ m_holdPointObjectId # 0 /\ m_holdPointObjectId \notin exists
    /\ crashed' = TRUE
    /\ UNCHANGED <<serverVars, holdVars, droneVars>>

NothingHeld ==
    /\ Running("objectUpdated")
    /\ m_holdPointObject = NoObject /\ m_holdPointObjectId = 0
    /\ UNCHANGED <<serverVars, holdVars, crashed, droneVars>>

callbackObjectUpdated ==
    UpdateHeld \/ CatchHoldObject \/ HoldObjectNotFound \/ NothingHeld

callbackApprovePending == ApproveMode \/ ApproveHoldPoint

Receiver == callbackApprovePending \/ callbackObjectUpdated

Operator == \/ \E mode \in Modes : WriteMode(mode)
            \/ \E id \in Ids \cup {0} : WriteHoldPoint(id)
            \/ \E id \in Ids, p \in Points : MoveObject(id, p)
            \/ \E id \in Ids : DeleteObject(id)

Next == Operator \/ Receiver

Spec == Init /\ [][Next]_vars

(* The objrepr thread runs every callback it queued. *)
FairSpec == Spec /\ WF_vars(Receiver)

----------------------------------------------------------------------------
TypeOK ==
    /\ exists \subseteq Ids /\ point \in [Ids -> Points]
    /\ attrMode \in Modes \cup {"observation"} /\ attrHold \in Ids \cup {0}
    /\ calls \in Seq({"mode", "active_hold_point", "objectUpdated"})
    /\ m_holdPointObject \in Ids \cup {NoObject}
    /\ m_holdPointObjectId \in Ids \cup {0}
    /\ crashed \in BOOLEAN
    /\ droneMode \in {rfcModeCall[m] : m \in KnownModes} \cup {None}
    /\ target \in Coordinates \cup {NoTarget}
    /\ sent \subseteq Ids

Queued(call) == \E i \in 1..Len(calls) : calls[i] = call

(* No update of the held object is lost, although the callbacks carry      *)
(* neither a position nor, in effect, an id: once the queue holds no       *)
(* update, the drone's target is where the held object is now, to the      *)
(* nearest float and to less than a metre of altitude.                     *)
IsAt(t, p) == /\ 2 * (t.lat - p.lat) \in -Grain..Grain
              /\ 2 * (t.lon - p.lon) \in -Grain..Grain
              /\ t.alt - p.alt \in (1 - Unit)..(Unit - 1)
TargetCatchesUp ==
    m_holdPointObject # NoObject /\ ~Queued("objectUpdated") =>
        target # NoTarget /\ IsAt(target, point[m_holdPointObject])

(* Between two resets every coordinate sent to the drone is of one object: *)
(* the target never jumps between objects while the mode stays HOLD, not   *)
(* even when the operator selects another point.                           *)
OneObjectPerHold == sent \subseteq {m_holdPointObject}

(* Writes of the mode may overtake their callbacks; the last one wins: with *)
(* no mode callback waiting, the drone flies in the mode of the attribute,  *)
(* if it is one the client knows and ever wrote.                            *)
LastModeWins ==
    ~Queued("mode") /\ attrMode \in KnownModes /\ droneMode # None =>
        droneMode = rfcModeCall[attrMode]

(* An object that is selected while none is held is the one that is        *)
(* eventually held, if the server keeps reporting updates, unless another  *)
(* selection or mode replaces this one or the server forgets the object.   *)
(* (One that is selected while another is held is not: see                 *)
(* OneObjectPerHold.)                                                      *)
SelectionIsCaught ==
    \A id \in Ids :
        []<>Queued("objectUpdated") =>
            (m_holdPointObject = NoObject /\ m_holdPointObjectId = id
               ~> m_holdPointObject = id \/ m_holdPointObjectId # id \/ id \notin exists)

(* control_signal_receiver.cpp:161 reports " hold object NOT FOUND by id": *)
(* an id without an object is an error that the receiver handles and       *)
(* survives.                                                               *)
NotFoundIsSurvived == ~crashed
=============================================================================

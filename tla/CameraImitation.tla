-------------------------- MODULE CameraImitation --------------------------
(***************************************************************************)
(* DroneController with imitationEnable: the maintenance thread plays a    *)
(* drone.  A pass of droneActivityImitation moves the imitated camera, at  *)
(* most every 100 ms, one step towards the orientation and zoom the        *)
(* operator requested, publishes what it moved, and lets the imitated link *)
(* go on and off.                                                          *)
(*                                                                         *)
(* The operator's commands run on the objrepr thread and write the         *)
(* requests without a lock.  The maintenance thread reads a request up to  *)
(* three times, for !=, < and >; each reading, the move that it leads to   *)
(* and the publishing of the move are steps of their own.                  *)
(*                                                                         *)
(* m_requestedCameraPitch, ...Roll and ...Zoom are m_requestedCamera with  *)
(* the axis as its argument, and so are the m_imitatedCamera variables.    *)
(* Angles count half degrees, the step of the rate commands.               *)
(***************************************************************************)
EXTENDS Integers

CONSTANTS
    Angles,        \* half degrees the operator may ask for, for each angle
    ZoomLimit,     \* the 255 of callbackSetZoomChangeRate
    OnTime,        \* ONLINE_ACTIVITY_INTERVAL_MILLISEC, in ticks
    OffTime,       \* OFFLINE_INACIVITY_INTERVAL_MILLISEC, in ticks
    Unset          \* an attribute this client has not written

ASSUME ImitationAssumption ==
    /\ Angles \in [{"pitch", "roll"} -> SUBSET Int]
    /\ ZoomLimit \in Nat
    /\ OnTime \in Nat /\ OffTime \in Nat

DEGREE == 2
ZOOM_STEP == 2
Axes == {"pitch", "roll", "zoom"}

VARIABLES
    m_requestedCamera, m_imitatedCamera,
    m_boardOnline, sinceSwitch,     \* ticks since the link went on or off
    attr,          \* attributes of the camera object, and Unset
    lensDue,       \* more than 100 ms since the last lens change
    pc, axis,      \* where the thread is, and the axis it is busy with
    wanted,        \* auxiliary: the request as the thread read it to decide
                   \* on the move it is about to make; 0 otherwise
    zoomAlone      \* auxiliary: the zoom moved and no angle has since

threadVars == <<pc, axis, wanted>>
cameraVars == <<m_imitatedCamera, zoomAlone>>
linkVars   == <<m_boardOnline, sinceSwitch>>
vars == <<m_requestedCamera, m_imitatedCamera, m_boardOnline, sinceSwitch,
          attr, lensDue, pc, axis, wanted, zoomAlone>>

Init ==
    /\ m_requestedCamera = [a \in Axes |-> 0]
    /\ m_imitatedCamera = [a \in Axes |-> 0]
    /\ m_boardOnline = FALSE /\ sinceSwitch = 0      \* begin from offline mode
    /\ attr = [name \in {"elevation", "azimut", "focal_length", "field_of_view",
                         "online"} |-> Unset]
    /\ lensDue = TRUE
    /\ pc = "lens" /\ axis = "pitch"
    /\ wanted = 0 /\ zoomAlone = FALSE

----------------------------------------------------------------------------
(* The operator's commands, on the objrepr thread. *)
Request(a, value) ==
    /\ m_requestedCamera' = [m_requestedCamera EXCEPT ![a] = value]
    /\ UNCHANGED <<cameraVars, linkVars, attr, lensDue, threadVars>>

(* callbackSetWantAzimut is called with whole degrees. *)
WantAzimut(angle) == angle % DEGREE = 0 /\ Request("roll", angle)

WantElevation(angle) == Request("pitch", angle)

(* A rate of zero is taken for a negative one. *)
ByRate(a, rate) == m_requestedCamera[a] + (IF rate > 0 THEN 1 ELSE -1)

AzimutChangeRate(rate) ==
    ByRate("roll", rate) \in Angles["roll"] /\ Request("roll", ByRate("roll", rate))

ElevationChangeRate(rate) ==
    ByRate("pitch", rate) \in Angles["pitch"] /\ Request("pitch", ByRate("pitch", rate))

ZoomRequest(rate) ==
    LET zoom == m_requestedCamera["zoom"] IN
    CASE rate > 0  -> IF zoom < ZoomLimit THEN zoom + ZOOM_STEP ELSE zoom
      [] rate <= 0 -> IF zoom > 0 THEN zoom - ZOOM_STEP ELSE zoom

ZoomChangeRate(rate) == Request("zoom", ZoomRequest(rate))

Operator ==
    \/ \E angle \in Angles["roll"] : WantAzimut(angle)
    \/ \E angle \in Angles["pitch"] : WantElevation(angle)
    \/ \E rate \in {-1, 0, 1} :
         AzimutChangeRate(rate) \/ ElevationChangeRate(rate) \/ ZoomChangeRate(rate)

----------------------------------------------------------------------------
(* droneActivityImitation. *)
LensDue ==
    /\ pc = "lens" /\ lensDue
    /\ lensDue' = FALSE
    /\ pc' = "differs"
    /\ UNCHANGED <<m_requestedCamera, cameraVars, linkVars, attr, axis, wanted>>

LensNotDue ==
    /\ pc = "lens" /\ ~lensDue
    /\ pc' = "link"
    /\ UNCHANGED <<m_requestedCamera, cameraVars, linkVars, attr, lensDue, axis, wanted>>

(* The cast (int): whole degrees, cut off towards zero. *)
AsInt(angle) == IF angle >= 0 THEN angle \div DEGREE ELSE -((-angle) \div DEGREE)

Compared_exactly(a, value) == value
Compared(a, value) == IF a = "zoom" THEN value ELSE AsInt(value)
Is == Compared(axis, m_imitatedCamera[axis])
Wanted == Compared(axis, m_requestedCamera[axis])

(* After pitch comes roll, then zoom, then the link. *)
NextAxis_beyond ==
    /\ pc' = IF axis = "zoom" THEN "link" ELSE "differs"
    /\ axis' = CASE axis = "pitch" -> "roll" [] axis = "roll" -> "zoom" [] OTHER -> "yaw"
NextAxis ==
    /\ pc' = IF axis = "zoom" THEN "link" ELSE "differs"
    /\ axis' = CASE axis = "pitch" -> "roll" [] axis = "roll" -> "zoom" [] OTHER -> "pitch"

Differs ==
    /\ pc = "differs"
    /\ IF Is # Wanted THEN pc' = "below" /\ UNCHANGED axis ELSE NextAxis
    /\ UNCHANGED <<m_requestedCamera, cameraVars, linkVars, attr, lensDue, wanted>>

IsBelow ==
    /\ pc = "below"
    /\ IF Is < Wanted
         THEN pc' = "up" /\ wanted' = m_requestedCamera[axis]
         ELSE pc' = "above" /\ UNCHANGED wanted
    /\ UNCHANGED <<m_requestedCamera, cameraVars, linkVars, attr, lensDue, axis>>

(* The request may have changed since it was below: then nothing moves,    *)
(* and what did not move is published all the same.                        *)
IsAbove_unchecked ==
    /\ pc = "above"
    /\ pc' = "down" /\ wanted' = m_requestedCamera[axis]
    /\ UNCHANGED <<m_requestedCamera, cameraVars, linkVars, attr, lensDue, axis>>
IsAbove ==
    /\ pc = "above"
    /\ IF Is > Wanted
         THEN pc' = "down" /\ wanted' = m_requestedCamera[axis]
         ELSE pc' = "publish" /\ UNCHANGED wanted
    /\ UNCHANGED <<m_requestedCamera, cameraVars, linkVars, attr, lensDue, axis>>

StepSize == IF axis = "zoom" THEN ZOOM_STEP ELSE DEGREE

Move(step) ==
    /\ m_imitatedCamera' = [m_imitatedCamera EXCEPT ![axis] = @ + step]
    /\ zoomAlone' = (zoomAlone \/ axis = "zoom")
    /\ pc' = "publish" /\ wanted' = 0
    /\ UNCHANGED <<m_requestedCamera, linkVars, attr, lensDue, axis>>

MoveUp == pc = "up" /\ Move(StepSize)

MoveDown == pc = "down" /\ Move(-StepSize)

(* callbackCameraPositionChanged publishes both angles and the zoom,       *)
(* callbackCameraFOVChanged an angle that is linear in the zoom: the zoom  *)
(* stands for it.                                                          *)
Published_crossed ==
    IF axis = "zoom"
      THEN [attr EXCEPT !["field_of_view"] = m_imitatedCamera["zoom"]]
      ELSE [attr EXCEPT !["elevation"] = m_imitatedCamera["roll"],
                        !["azimut"] = m_imitatedCamera["pitch"],
                        !["focal_length"] = m_imitatedCamera["zoom"]]
Published ==
    IF axis = "zoom"
      THEN [attr EXCEPT !["field_of_view"] = m_imitatedCamera["zoom"]]
      ELSE [attr EXCEPT !["elevation"] = m_imitatedCamera["pitch"],
                        !["azimut"] = m_imitatedCamera["roll"],
                        !["focal_length"] = m_imitatedCamera["zoom"]]

Publish ==
    /\ pc = "publish"
    /\ attr' = Published
    /\ zoomAlone' = (zoomAlone /\ axis = "zoom")
    /\ NextAxis
    /\ UNCHANGED <<m_requestedCamera, m_imitatedCamera, linkVars, lensDue, wanted>>

(* The imitated link; then the pass is over. *)
SwitchDue == sinceSwitch > IF m_boardOnline THEN OnTime ELSE OffTime

SwitchLink ==
    /\ pc = "link"
    /\ IF SwitchDue
         THEN /\ m_boardOnline' = ~m_boardOnline
              /\ sinceSwitch' = 0
              /\ attr' = [attr EXCEPT !["online"] = ~m_boardOnline]
         ELSE UNCHANGED <<linkVars, attr>>
    /\ pc' = "lens"
    /\ UNCHANGED <<m_requestedCamera, cameraVars, lensDue, axis, wanted>>

Lens == \/ LensDue \/ LensNotDue \/ Differs \/ IsBelow \/ IsAbove
        \/ MoveUp \/ MoveDown \/ Publish

droneActivityImitation == Lens \/ SwitchLink

(* Time counts up to where every switch is due. *)
Longest == IF OnTime > OffTime THEN OnTime ELSE OffTime

Tick ==
    /\ sinceSwitch' = IF sinceSwitch <= Longest THEN sinceSwitch + 1 ELSE sinceSwitch
    /\ lensDue' = TRUE
    /\ UNCHANGED <<m_requestedCamera, cameraVars, m_boardOnline, attr, threadVars>>

Next == Operator \/ droneActivityImitation \/ Tick

Spec == Init /\ [][Next]_vars

(* The thread loops for ever and time passes; the operator may do nothing. *)
FairSpec == Spec /\ WF_vars(droneActivityImitation) /\ WF_vars(Tick)

----------------------------------------------------------------------------
TypeOK ==
    /\ m_requestedCamera \in [Axes -> Int] /\ m_imitatedCamera \in [Axes -> Int]
    /\ \A a \in {"pitch", "roll"} : m_requestedCamera[a] \in Angles[a] \cup {0}
    /\ m_boardOnline \in BOOLEAN /\ sinceSwitch \in 0..(Longest + 1)
    /\ lensDue \in BOOLEAN
    /\ pc \in {"lens", "differs", "below", "above", "up", "down", "publish", "link"}
    /\ axis \in Axes /\ wanted \in Int /\ zoomAlone \in BOOLEAN

(* The imitated camera stays on its scale: whatever the operator asks for  *)
(* between two readings of a request, no step carries an angle beyond what *)
(* may be asked, rounded to whole degrees.  The zoom it heads for can be   *)
(* reached in whole steps and lies at most one unit beyond the scale: the  *)
(* guard of the request lets the last step cross an odd limit, but not the *)
(* one after it.                                                           *)
Within(value, range) == \E low, high \in range : low <= value /\ value <= high
CameraOnScale ==
    /\ \A a \in {"pitch", "roll"} :
         Within(AsInt(m_imitatedCamera[a]), {AsInt(angle) : angle \in Angles[a] \cup {0}})
    /\ {m_imitatedCamera["zoom"], m_requestedCamera["zoom"]} \subseteq 0..(ZoomLimit + 1)
    /\ (m_requestedCamera["zoom"] - m_imitatedCamera["zoom"]) % ZOOM_STEP = 0

(* The attributes agree with the imitated camera, although two callbacks   *)
(* share them out among the moves of three axes.  Only what has just moved *)
(* may differ until it is published; and the focal length, which is        *)
(* published with the angles, while the zoom is the last that moved.       *)
JustMoved(a) == pc = "publish" /\ axis = a
PublishedAgrees ==
    /\ JustMoved("pitch") \/ attr["elevation"] \in {Unset, m_imitatedCamera["pitch"]}
    /\ JustMoved("roll") \/ attr["azimut"] \in {Unset, m_imitatedCamera["roll"]}
    /\ JustMoved("zoom") \/ attr["field_of_view"] \in {Unset, m_imitatedCamera["zoom"]}
    /\ zoomAlone \/ attr["focal_length"] \in {Unset, m_imitatedCamera["zoom"]}
    /\ attr["online"] \in {Unset, m_boardOnline}

(* A request that no longer changes is reached: the camera does not        *)
(* oscillate around it, whatever the parity of the zoom or the fraction of *)
(* the angle, and a move decided on an older request is made up for.       *)
RequestIsReached ==
    /\ \A zoom \in 0..(ZoomLimit + 1) :
         <>[](m_requestedCamera["zoom"] = zoom) => <>[](m_imitatedCamera["zoom"] = zoom)
    /\ \A a \in {"pitch", "roll"} : \A angle \in Angles[a] :
         <>[](m_requestedCamera[a] = angle)
           => <>[](AsInt(m_imitatedCamera[a]) = AsInt(angle))

(* drone_controller.cpp:449 logs the rate zero as "(Stop)": stopping the   *)
(* zoom leaves the requested zoom where it is.                             *)
StopKeepsZoom == [][ZoomChangeRate(0) => UNCHANGED m_requestedCamera["zoom"]]_vars
=============================================================================

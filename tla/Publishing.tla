---------------------------- MODULE Publishing ----------------------------
(***************************************************************************)
(* What the client publishes: attributes of the camera object (elevation,  *)
(* azimut, focal_length, field_of_view), the carrier object (its point and *)
(* angles) and the camera object's own angles.  The callbacks of           *)
(* ControlSignalReceiver write them one after the other, each in two       *)
(* steps, set and push, and without a lock.                                *)
(*                                                                         *)
(* Up to two threads run these callbacks: the slots of DroneController     *)
(* with the reports of the drone, or its maintenance thread with those it  *)
(* imitates; and with a video file the maintenance thread of               *)
(* VideoConvertor with the rows of the recording.                          *)
(***************************************************************************)
EXTENDS Integers

CONSTANTS Points,                       \* positions of the board
          Pitches, Rolls, Yaws, Zooms,  \* of the camera; angles in degrees
          Refusing                      \* fields that may refuse a value

VARIABLES
    source,     \* "video-file" or "other"
    imitation,  \* imitationEnable: "on" or "off"
    local,      \* the fields as the client's objects hold them
    refused,    \* those that refused the last value they were to be set to
    shown,      \* the fields as they were last pushed
    place,      \* of each thread: "idle", or about to "set" or "push" ...
    field,      \* ... this field ...
    final,      \* ... of a report that ends with that one
    report,     \* what each thread reports
    latest      \* the camera report begun last

setup == <<source, imitation>>
vars == <<setup, local, refused, shown, place, field, final, report, latest>>

Threads == {"slot", "imitation", "convertor"}

(* The fields in the order in which the callbacks write them. *)
Point == 1          \* callbackBoardPositionChanged
Elevation == 2      \* callbackCameraPositionChanged, from here ...
Azimut == 3
FocalLength == 4
Carrier == 5
Camera == 6         \* ... to here
FieldOfView == 7    \* callbackCameraFOVChanged
Fields == Point..FieldOfView

(* setValue and changePoint may refuse; setting the angles of an object    *)
(* may not.                                                                *)
ASSUME PublishingAssumption ==
    /\ Points \subseteq Int /\ Zooms \subseteq Int
    /\ Pitches \subseteq -180..180 /\ Rolls \subseteq -180..180
    /\ Yaws \subseteq -180..180
    /\ Refusing \subseteq Fields \ {Carrier, Camera}

(* One push of the carrier object takes its point and its angles along. *)
Pushed(f) == IF f \in {Point, Carrier} THEN {Point, Carrier} ELSE {f}

Reports == [point : Points \cup {0}, pitch : Pitches \cup {0}, roll : Rolls \cup {0},
            yaw : Yaws \cup {0}, zoom : Zooms \cup {0}]
NoReport == [point |-> 0, pitch |-> 0, roll |-> 0, yaw |-> 0, zoom |-> 0]

(* The camera object wants its pitch from the horizon; one that looks      *)
(* backwards is turned round instead.                                      *)
CameraAngles_unturned(r) ==
    IF 90 - r.pitch > 90
      THEN [pitch |-> 180 - (90 - r.pitch), yaw |-> r.yaw, roll |-> 180]
      ELSE [pitch |-> 90 - r.pitch, yaw |-> r.yaw, roll |-> 0]
CameraAngles(r) ==
    IF 90 - r.pitch > 90
      THEN [pitch |-> 180 - (90 - r.pitch),
            yaw   |-> IF r.yaw + 180 > 180 THEN r.yaw + 180 - 360 ELSE r.yaw + 180,
            roll  |-> 180]
      ELSE [pitch |-> 90 - r.pitch, yaw |-> r.yaw, roll |-> 0]

CarrierAngles(r) == [pitch |-> r.pitch, yaw |-> r.yaw, roll |-> r.roll]

Value(f, r) ==
    CASE f = Point       -> r.point
      [] f = Elevation   -> r.pitch
      [] f = Azimut      -> r.roll
      [] f = FocalLength -> r.zoom
      [] f = Carrier     -> CarrierAngles(r)
      [] f = Camera      -> CameraAngles(r)
      [] OTHER           -> r.zoom

Init ==
    /\ source \in {"video-file", "other"} /\ imitation \in {"on", "off"}
    /\ local = [f \in Fields |-> Value(f, NoReport)]
    /\ shown = local /\ refused = {}
    /\ place = [t \in Threads |-> "idle"]
    /\ field = [t \in Threads |-> Point] /\ final = [t \in Threads |-> Point]
    /\ report = [t \in Threads |-> NoReport]
    /\ latest = NoReport

----------------------------------------------------------------------------
(* Thread t begins to publish the fields first..last of report r. *)
Begin(t, r, first, last) ==
    /\ place[t] = "idle"
    /\ place' = [place EXCEPT ![t] = "set"]
    /\ field' = [field EXCEPT ![t] = first]
    /\ final' = [final EXCEPT ![t] = last]
    /\ report' = [report EXCEPT ![t] = r]
    /\ latest' = IF first <= Elevation /\ last = Camera THEN r ELSE latest
    /\ UNCHANGED <<setup, local, refused, shown>>

(* The drone's own reports are ignored while one is imitated.  The lens    *)
(* has no yaw, and its angles are swapped.                                 *)
NotImitating_always == TRUE
NotImitating == imitation = "off"

slotBoardPosChanged ==
    /\ NotImitating
    /\ \E point \in Points :
         Begin("slot", [NoReport EXCEPT !.point = point], Point, Point)

slotRpzLensChanged ==
    /\ NotImitating
    /\ \E roll \in Pitches, pitch \in Rolls, zoom \in Zooms :
         Begin("slot", [NoReport EXCEPT !.pitch = roll, !.roll = pitch, !.zoom = zoom],
               Elevation, Camera)

(* The imitated board flies in a circle; the imitated camera moves, its    *)
(* zoom on its own.                                                        *)
droneActivityImitation ==
    /\ imitation = "on"
    /\ \/ \E point \in Points :
            Begin("imitation", [NoReport EXCEPT !.point = point], Point, Point)
       \/ \E pitch \in Pitches, roll \in Rolls, zoom \in Zooms :
            Begin("imitation", [NoReport EXCEPT !.pitch = pitch, !.roll = roll, !.zoom = zoom],
                  Elevation, Camera)
       \/ \E zoom \in Zooms :
            Begin("imitation", [NoReport EXCEPT !.zoom = zoom], FieldOfView, FieldOfView)

(* A row of the recording: board and camera, with the zoom 0. *)
sendCurrentTelemetry ==
    /\ source = "video-file"
    /\ \E point \in Points, pitch \in Pitches, roll \in Rolls, yaw \in Yaws :
         Begin("convertor", [point |-> point, pitch |-> pitch, roll |-> roll,
                             yaw |-> yaw, zoom |-> 0], Point, Camera)

(* One statement of a callback: a field is set.  A point that is refused   *)
(* is logged, an attribute not even that; the push follows all the same.   *)
Set(t) ==
    /\ place[t] = "set"
    /\ \/ /\ local' = [local EXCEPT ![field[t]] = Value(field[t], report[t])]
          /\ refused' = refused \ {field[t]}
       \/ /\ field[t] \in Refusing
          /\ refused' = refused \cup {field[t]} /\ UNCHANGED local
    /\ place' = [place EXCEPT ![t] = "push"]
    /\ UNCHANGED <<setup, shown, field, final, report, latest>>

(* The next one: what the object holds now is pushed, whoever set it, and  *)
(* the callback goes on with the next field or returns.                    *)
Advance_beyond(t) ==
    /\ place' = [place EXCEPT ![t] = IF field[t] = final[t] THEN "idle" ELSE "set"]
    /\ field' = [field EXCEPT ![t] = @ + 1]
Advance(t) ==
    /\ place' = [place EXCEPT ![t] = IF field[t] = final[t] THEN "idle" ELSE "set"]
    /\ field' = [field EXCEPT ![t] = IF field[t] = final[t] THEN @ ELSE @ + 1]

Push_notForPoint(t) ==
    /\ place[t] = "push"
    /\ shown' = IF field[t] = Point THEN shown
                ELSE [f \in Fields |-> IF f \in Pushed(field[t]) THEN local[f] ELSE shown[f]]
    /\ Advance(t)
    /\ UNCHANGED <<setup, local, refused, final, report, latest>>
Push(t) ==
    /\ place[t] = "push"
    /\ shown' = [f \in Fields |-> IF f \in Pushed(field[t]) THEN local[f] ELSE shown[f]]
    /\ Advance(t)
    /\ UNCHANGED <<setup, local, refused, final, report, latest>>

Next == \/ slotBoardPosChanged \/ slotRpzLensChanged
        \/ droneActivityImitation \/ sendCurrentTelemetry
        \/ \E t \in Threads : Set(t) \/ Push(t)

Spec == Init /\ [][Next]_vars

----------------------------------------------------------------------------
Angles == [pitch : -360..360, yaw : -180..180, roll : -360..360]
Values(f) ==
    CASE f = Point     -> Points \cup {0}
      [] f = Elevation -> Pitches \cup {0}
      [] f = Azimut    -> Rolls \cup {0}
      [] f \in {FocalLength, FieldOfView} -> Zooms \cup {0}
      [] OTHER         -> Angles

TypeOK ==
    /\ source \in {"video-file", "other"} /\ imitation \in {"on", "off"}
    /\ local = [f \in Fields |-> local[f]] /\ shown = [f \in Fields |-> shown[f]]
    /\ \A f \in Fields : local[f] \in Values(f) /\ shown[f] \in Values(f)
    /\ refused \subseteq Refusing
    /\ place \in [Threads -> {"idle", "set", "push"}]
    /\ field \in [Threads -> Fields] /\ final \in [Threads -> Fields]
    /\ report \in [Threads -> Reports] /\ latest \in Reports

(* However the threads interleave, nothing stays behind in the client:     *)
(* once no callback runs, every field was pushed after it was last set.    *)
(* (Another thread may have pushed it, but somebody did.)                  *)
PushedIsCurrent ==
    (\A t \in Threads : place[t] = "idle") => shown = local

(* Without a recording there is one reporter, and what is shown between    *)
(* its reports is one report: all attributes and both objects agree, but   *)
(* for an attribute that refused its value and was pushed all the same.    *)
OneReport ==
    source = "other" /\ (\A t \in Threads : place[t] = "idle") =>
        \A f \in (Elevation..Camera) \ refused : shown[f] = Value(f, latest)

(* The camera object shows the orientation that was reported.  Two triples *)
(* of Euler angles are the same orientation if they agree modulo 360, or   *)
(* if one tumbles over: (p, y, r) is (180 - p, y + 180, r + 180).          *)
Agree(a, b) == (a - b) % 360 = 0
SameOrientation(a, pitch, yaw, roll) ==
    \/ Agree(a.pitch, pitch) /\ Agree(a.yaw, yaw) /\ Agree(a.roll, roll)
    \/ Agree(a.pitch, 180 - pitch) /\ Agree(a.yaw, yaw + 180) /\ Agree(a.roll, roll + 180)
Upright(a) == a.pitch \in -90..90 /\ a.yaw \in -180..180

OrientationKept ==
    \A t \in Threads :
      place[t] = "push" /\ field[t] = Camera =>
        LET a == Value(Camera, report[t]) IN
        SameOrientation(a, 90 - report[t].pitch, report[t].yaw, 0) /\ Upright(a)
=============================================================================

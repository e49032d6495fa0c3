-------------------------- MODULE PublishingProofs --------------------------
(***************************************************************************)
(* Proofs about Publishing, for every set of reports: types, nothing stays *)
(* unpushed, a sole reporter's reports are shown whole, and the camera's   *)
(* orientation survives its conversion.                                    *)
(***************************************************************************)
EXTENDS Publishing, TLAPS

USE DEF Point, Elevation, Azimut, FocalLength, Carrier, Camera, FieldOfView

----------------------------------------------------------------------------
(* The angles of a report are angles. *)
LEMMA ReportAngles ==
    ASSUME NEW r \in Reports
    PROVE  r.pitch \in -180..180 /\ r.roll \in -180..180 /\ r.yaw \in -180..180
<1>1. r.pitch \in Pitches \cup {0} /\ r.roll \in Rolls \cup {0} /\ r.yaw \in Yaws \cup {0}
  BY DEF Reports
<1>2. 0 \in -180..180
  OBVIOUS
<1>3. Pitches \subseteq -180..180 /\ Rolls \subseteq -180..180 /\ Yaws \subseteq -180..180
  BY PublishingAssumption, Zenon
<1>4. r.pitch \in -180..180
  BY <1>1, <1>2, <1>3
<1>5. r.roll \in -180..180
  BY <1>1, <1>2, <1>3
<1>6. r.yaw \in -180..180
  BY <1>1, <1>2, <1>3
<1> QED BY <1>4, <1>5, <1>6

(* What a report says of a field is a value that the field may have. *)
LEMMA ValueType ==
    ASSUME NEW f \in Fields, NEW r \in Reports
    PROVE  Value(f, r) \in Values(f)
<1>1. r.point \in Points \cup {0} /\ r.zoom \in Zooms \cup {0}
  BY DEF Reports
<1>2. r.pitch \in Pitches \cup {0} /\ r.roll \in Rolls \cup {0} /\ r.yaw \in Yaws \cup {0}
  BY DEF Reports
<1>3. r.pitch \in -180..180 /\ r.roll \in -180..180 /\ r.yaw \in -180..180
  BY ReportAngles
<1>4. CarrierAngles(r) \in Angles
  BY <1>3 DEF CarrierAngles, Angles
<1>5. CameraAngles(r) \in Angles
  <2>1. CASE 90 - r.pitch > 90
    <3> DEFINE turned == IF r.yaw + 180 > 180 THEN r.yaw + 180 - 360 ELSE r.yaw + 180
    <3>1. 180 - (90 - r.pitch) \in -360..360 /\ 180 \in -360..360
      BY <1>3, <2>1
    <3>2. turned \in -180..180
      BY <1>3
    <3>3. CameraAngles(r) = [pitch |-> 180 - (90 - r.pitch), yaw |-> turned, roll |-> 180]
      BY <2>1 DEF CameraAngles
    <3> HIDE DEF turned
    <3> QED BY <3>1, <3>2, <3>3 DEF Angles
  <2>2. CASE ~(90 - r.pitch > 90)
    <3>1. 90 - r.pitch \in -360..360 /\ 0 \in -360..360
      BY <1>3, <2>2
    <3>2. CameraAngles(r) = [pitch |-> 90 - r.pitch, yaw |-> r.yaw, roll |-> 0]
      BY <2>2 DEF CameraAngles
    <3> QED BY <1>3, <3>1, <3>2 DEF Angles
  <2> QED BY <2>1, <2>2
<1>6. f \in {1, 2, 3, 4, 5, 6, 7}
  BY DEF Fields
<1>7. CASE f = 1  BY <1>1, <1>7 DEF Value, Values
<1>8. CASE f = 2  BY <1>2, <1>8 DEF Value, Values
<1>9. CASE f = 3  BY <1>2, <1>9 DEF Value, Values
<1>10. CASE f = 4  BY <1>1, <1>10 DEF Value, Values
<1>11. CASE f = 5
  <2>1. Value(f, r) = CarrierAngles(r)  BY <1>11 DEF Value
  <2>2. Values(f) = Angles  BY <1>11 DEF Values
  <2> QED BY <2>1, <2>2, <1>4
<1>12. CASE f = 6
  <2>1. Value(f, r) = CameraAngles(r)  BY <1>12 DEF Value
  <2>2. Values(f) = Angles  BY <1>12 DEF Values
  <2> QED BY <2>1, <2>2, <1>5
<1>13. CASE f = 7  BY <1>1, <1>13 DEF Value, Values
<1> QED
  BY <1>6, <1>7, <1>8, <1>9, <1>10, <1>11, <1>12, <1>13

LEMMA ReportTypes ==
    /\ NoReport \in Reports
    /\ \A p \in Points : [NoReport EXCEPT !.point = p] \in Reports
    /\ \A z \in Zooms : [NoReport EXCEPT !.zoom = z] \in Reports
    /\ \A p \in Pitches, q \in Rolls, z \in Zooms :
         [NoReport EXCEPT !.pitch = p, !.roll = q, !.zoom = z] \in Reports
    /\ \A n \in Points, p \in Pitches, q \in Rolls, y \in Yaws :
         [point |-> n, pitch |-> p, roll |-> q, yaw |-> y, zoom |-> 0] \in Reports
BY DEF NoReport, Reports

(* Every handler that reports begins a report of one of three shapes; the  *)
(* slots report when nothing is imitated, the convertor a recording.       *)
Shape(t, first, last) ==
    \/ first = Point /\ last = Point
    \/ first = Elevation /\ last = Camera
    \/ first = FieldOfView /\ last = FieldOfView
    \/ t = "convertor" /\ first = Point /\ last = Camera

Reporter(t) == CASE t = "slot"      -> imitation = "off"
                 [] t = "imitation" -> imitation = "on"
                 [] OTHER           -> source = "video-file"

LEMMA NextSplits ==
    ASSUME Next
    PROVE  \/ \E t \in Threads, r \in Reports, first, last \in Fields :
                Reporter(t) /\ Shape(t, first, last) /\ Begin(t, r, first, last)
           \/ \E t \in Threads : Set(t)
           \/ \E t \in Threads : Push(t)
<1> DEFINE Begun == \E t \in Threads, r \in Reports, first, last \in Fields :
                      Reporter(t) /\ Shape(t, first, last) /\ Begin(t, r, first, last)
<1>f. {1, 2, 6, 7} \subseteq Fields
  BY DEF Fields
<1>t. {"slot", "imitation", "convertor"} \subseteq Threads
  BY DEF Threads
<1>1. ASSUME slotBoardPosChanged PROVE Begun
  <2>1. PICK p \in Points : Begin("slot", [NoReport EXCEPT !.point = p], Point, Point)
    BY <1>1 DEF slotBoardPosChanged
  <2>2. Reporter("slot") /\ Shape("slot", Point, Point)
    BY <1>1 DEF slotBoardPosChanged, NotImitating, Reporter, Shape
  <2> QED BY <2>1, <2>2, <1>f, <1>t, ReportTypes
<1>2. ASSUME slotRpzLensChanged PROVE Begun
  <2>1. PICK p \in Pitches, q \in Rolls, z \in Zooms :
          Begin("slot", [NoReport EXCEPT !.pitch = p, !.roll = q, !.zoom = z], Elevation, Camera)
    BY <1>2 DEF slotRpzLensChanged
  <2>2. Reporter("slot") /\ Shape("slot", Elevation, Camera)
    BY <1>2 DEF slotRpzLensChanged, NotImitating, Reporter, Shape
  <2> QED BY <2>1, <2>2, <1>f, <1>t, ReportTypes
<1>3. ASSUME droneActivityImitation PROVE Begun
  <2>0. Reporter("imitation")
    BY <1>3 DEF droneActivityImitation, Reporter
  <2>1. CASE \E p \in Points :
               Begin("imitation", [NoReport EXCEPT !.point = p], Point, Point)
    BY <2>0, <2>1, <1>f, <1>t, ReportTypes DEF Shape
  <2>2. CASE \E p \in Pitches, q \in Rolls, z \in Zooms :
               Begin("imitation", [NoReport EXCEPT !.pitch = p, !.roll = q, !.zoom = z],
                     Elevation, Camera)
    BY <2>0, <2>2, <1>f, <1>t, ReportTypes DEF Shape
  <2>3. CASE \E z \in Zooms :
               Begin("imitation", [NoReport EXCEPT !.zoom = z], FieldOfView, FieldOfView)
    BY <2>0, <2>3, <1>f, <1>t, ReportTypes DEF Shape
  <2> QED BY <1>3, <2>1, <2>2, <2>3 DEF droneActivityImitation
<1>4. ASSUME sendCurrentTelemetry PROVE Begun
  <2>1. PICK n \in Points, p \in Pitches, q \in Rolls, y \in Yaws :
          Begin("convertor", [point |-> n, pitch |-> p, roll |-> q, yaw |-> y, zoom |-> 0],
                Point, Camera)
    BY <1>4 DEF sendCurrentTelemetry
  <2>2. Reporter("convertor") /\ Shape("convertor", Point, Camera)
    BY <1>4 DEF sendCurrentTelemetry, Reporter, Shape
  <2> QED BY <2>1, <2>2, <1>f, <1>t, ReportTypes
<1> QED
  BY <1>1, <1>2, <1>3, <1>4 DEF Next

----------------------------------------------------------------------------
(* The inductive invariant, in parts.  A thread that is at work may be:    *)
(* its setup lets it report.  It walks up the fields from where its report *)
(* begins to where it ends; only the convertor comes to Camera from Point. *)
Walks ==
    \A t \in Threads :
      /\ place[t] # "idle" => Reporter(t)
      /\ final[t] \in {Point, Camera, FieldOfView} /\ field[t] <= final[t]
      /\ final[t] = FieldOfView => field[t] = FieldOfView
      /\ field[t] = Point => final[t] = Point \/ t = "convertor"

(* A field that was set and not pushed will be: a thread is about to. *)
Owed ==
    \A f \in Fields :
      local[f] # shown[f] => \E t \in Threads : place[t] = "push" /\ f \in Pushed(field[t])

(* While nothing is recorded: whoever reports the camera is at the latest  *)
(* report, and has set the field that it is about to push, unless it was   *)
(* refused; what it has not still to write, shows the latest report.       *)
InCamera(t) == place[t] # "idle" /\ final[t] = Camera
AtLatest(t) ==
    /\ report[t] = latest
    /\ place[t] = "push" /\ field[t] \notin refused =>
         local[field[t]] = Value(field[t], latest)
Written(f) == \A t \in Threads : InCamera(t) => f < field[t]
ShowsLatest(f) == local[f] = Value(f, latest) /\ shown[f] = Value(f, latest)

Whole ==
    source = "other" =>
      /\ \A t \in Threads : InCamera(t) => AtLatest(t)
      /\ \A f \in (Elevation..Camera) \ refused : Written(f) => ShowsLatest(f)

IInv == TypeOK /\ Walks /\ Owed /\ Whole

LEMMA InitIInv ==
    ASSUME Init
    PROVE  IInv
<1>1. TypeOK
  <2>1. NoReport \in Reports
    BY ReportTypes
  <2>2. \A f \in Fields : Value(f, NoReport) \in Values(f)
    BY <2>1, ValueType
  <2>3. {1, 7} \subseteq Fields
    BY DEF Fields
  <2> QED BY <2>1, <2>2, <2>3 DEF Init, TypeOK
<1>2. Walks
  BY DEF Init, Walks
<1>3. Owed
  BY DEF Init, Owed
<1>4. Whole
  <2>1. \A f \in Elevation..Camera : f \in Fields
    BY DEF Fields
  <2> QED BY <2>1 DEF Init, Whole, InCamera, ShowsLatest
<1> QED BY <1>1, <1>2, <1>3, <1>4 DEF IInv

----------------------------------------------------------------------------
(* Each kind of step preserves the types. *)
LEMMA BeginType ==
    ASSUME TypeOK, NEW t \in Threads, NEW r \in Reports,
           NEW first \in Fields, NEW last \in Fields, Begin(t, r, first, last)
    PROVE  TypeOK'
BY DEF TypeOK, Begin, setup, Values

LEMMA SetType ==
    ASSUME TypeOK, NEW t \in Threads, Set(t)
    PROVE  TypeOK'
<1>1. Value(field[t], report[t]) \in Values(field[t])
  BY ValueType DEF TypeOK
<1>2. /\ local' = [f \in Fields |-> local'[f]]
      /\ \A f \in Fields : local'[f] \in Values(f)
  <2>1. CASE local' = [local EXCEPT ![field[t]] = Value(field[t], report[t])]
    BY <1>1, <2>1 DEF TypeOK
  <2>2. CASE UNCHANGED local
    BY <2>2 DEF TypeOK
  <2> QED BY <2>1, <2>2 DEF Set
<1>3. place' \in [Threads -> {"idle", "set", "push"}]
  BY DEF TypeOK, Set
<1> QED
  BY <1>2, <1>3 DEF TypeOK, Set, setup, Values

LEMMA PushType ==
    ASSUME TypeOK, Walks, NEW t \in Threads, Push(t)
    PROVE  TypeOK'
<1>1. /\ shown' = [f \in Fields |-> shown'[f]]
      /\ \A f \in Fields : shown'[f] \in Values(f)
  BY DEF TypeOK, Push
<1>2. place' \in [Threads -> {"idle", "set", "push"}]
  BY DEF TypeOK, Push, Advance
<1>3. field' \in [Threads -> Fields]
  <2>1. field[t] \in 1..7 /\ final[t] \in 1..7 /\ field[t] <= final[t]
    BY DEF TypeOK, Walks, Fields
  <2>2. field[t] # final[t] => field[t] + 1 \in Fields
    BY <2>1 DEF Fields
  <2> QED BY <2>2 DEF TypeOK, Push, Advance
<1> QED
  BY <1>1, <1>2, <1>3 DEF TypeOK, Push, setup, Values

----------------------------------------------------------------------------
(* ... the walk of each thread ... *)
LEMMA BeginWalks ==
    ASSUME TypeOK, Walks, NEW t \in Threads, NEW r \in Reports,
           NEW first \in Fields, NEW last \in Fields,
           Reporter(t), Shape(t, first, last), Begin(t, r, first, last)
    PROVE  Walks'
BY DEF TypeOK, Walks, Begin, Shape, setup, Reporter

LEMMA SetWalks ==
    ASSUME TypeOK, Walks, NEW t \in Threads, Set(t)
    PROVE  Walks'
BY DEF TypeOK, Walks, Set, setup, Reporter

LEMMA PushWalks ==
    ASSUME TypeOK, Walks, NEW t \in Threads, Push(t)
    PROVE  Walks'
<1>1. field[t] \in 1..7 /\ final[t] \in 1..7
  BY DEF TypeOK, Fields
<1> QED
  BY <1>1 DEF TypeOK, Walks, Push, Advance, setup, Reporter

----------------------------------------------------------------------------
(* ... what is owed ... *)
LEMMA BeginOwed ==
    ASSUME TypeOK, Owed, NEW t \in Threads, NEW r \in Reports,
           NEW first \in Fields, NEW last \in Fields, Begin(t, r, first, last)
    PROVE  Owed'
BY DEF TypeOK, Owed, Begin, Pushed

LEMMA SetOwed ==
    ASSUME TypeOK, Owed, NEW t \in Threads, Set(t)
    PROVE  Owed'
<1> SUFFICES ASSUME NEW f \in Fields, local'[f] # shown'[f]
             PROVE  \E u \in Threads : place'[u] = "push" /\ f \in Pushed(field[u])
  BY DEF Owed, Set, Pushed
<1>1. CASE f = field[t]
  BY <1>1 DEF TypeOK, Set, Pushed
<1>2. CASE f # field[t]
  <2>1. local'[f] = local[f] /\ shown'[f] = shown[f]
    BY <1>2 DEF TypeOK, Set
  <2>2. PICK u \in Threads : place[u] = "push" /\ f \in Pushed(field[u])
    BY <2>1 DEF Owed
  <2>3. place'[u] = "push"
    BY <2>2 DEF TypeOK, Set
  <2> QED BY <2>2, <2>3
<1> QED BY <1>1, <1>2

LEMMA PushOwed ==
    ASSUME TypeOK, Owed, NEW t \in Threads, Push(t)
    PROVE  Owed'
<1> SUFFICES ASSUME NEW f \in Fields, local'[f] # shown'[f]
             PROVE  \E u \in Threads : place'[u] = "push" /\ f \in Pushed(field'[u])
  BY DEF Owed, Pushed
<1>1. local' = local /\ shown'[f] = IF f \in Pushed(field[t]) THEN local[f] ELSE shown[f]
  BY DEF Push
<1>2. f \notin Pushed(field[t]) /\ local[f] # shown[f]
  BY <1>1
<1>3. PICK u \in Threads : place[u] = "push" /\ f \in Pushed(field[u])
  BY <1>2 DEF Owed
<1>4. u # t
  BY <1>2, <1>3
<1>5. place'[u] = place[u] /\ field'[u] = field[u]
  BY <1>4 DEF TypeOK, Push, Advance
<1> QED BY <1>3, <1>5

----------------------------------------------------------------------------
(* ... and what a sole reporter shows.  Without a recording only one       *)
(* thread can be at work, and what it writes of the camera stays below     *)
(* Camera.                                                                 *)
LEMMA Sole ==
    ASSUME Walks, source = "other", NEW t \in Threads, NEW u \in Threads,
           Reporter(t), place[u] # "idle"
    PROVE  u = t /\ t # "convertor"
BY DEF Walks, Reporter, Threads

LEMMA InCameraField ==
    ASSUME TypeOK, Walks, source = "other", NEW t \in Threads, place[t] # "idle"
    PROVE  /\ InCamera(t) => field[t] \in Elevation..Camera
           /\ ~InCamera(t) => field[t] \in {Point, FieldOfView} /\ field[t] = final[t]
<1>1. field[t] \in 1..7 /\ final[t] \in {1, 6, 7}
  BY DEF TypeOK, Walks, Fields
<1>2. t # "convertor"
  BY DEF Walks, Reporter, Threads
<1> QED BY <1>1, <1>2 DEF Walks, InCamera

LEMMA BeginWhole ==
    ASSUME TypeOK, Walks, Whole, NEW t \in Threads, NEW r \in Reports,
           NEW first \in Fields, NEW last \in Fields,
           Reporter(t), Shape(t, first, last), Begin(t, r, first, last)
    PROVE  Whole'
<1> SUFFICES ASSUME source = "other" PROVE Whole'
  BY DEF Whole, Begin, setup
<1>1. t # "convertor" /\ place[t] = "idle"
  BY DEF Reporter, Threads, Begin
<1>2. \A u \in Threads : place[u] = "idle"
  BY <1>1, Sole
<1>3. \A f \in (Elevation..Camera) \ refused : ShowsLatest(f)
  BY <1>2 DEF Whole, Written, InCamera
<1>4. \A u \in Threads : u # t => ~InCamera(u)'
  BY <1>2 DEF TypeOK, Begin, InCamera
<1>5. place'[t] = "set" /\ field'[t] = first /\ final'[t] = last /\ report'[t] = r
  BY DEF TypeOK, Begin
<1>6. CASE last = Camera
  <2>1. first = Elevation /\ latest' = r
    BY <1>1, <1>6 DEF Shape, Begin
  <2>2. InCamera(t)' /\ AtLatest(t)'
    BY <1>5, <1>6, <2>1 DEF InCamera, AtLatest
  <2>3. \A f \in Elevation..Camera : ~Written(f)'
    BY <1>5, <2>1, <2>2 DEF Written
  <2> QED BY <1>4, <2>2, <2>3 DEF Whole
<1>7. CASE last # Camera
  <2>1. ~InCamera(t)'
    BY <1>5, <1>7 DEF InCamera
  <2>2. latest' = latest /\ local' = local /\ shown' = shown /\ refused' = refused
    BY <1>7 DEF Begin
  <2>3. \A f \in (Elevation..Camera) \ refused' : ShowsLatest(f)'
    BY <1>3, <2>2 DEF ShowsLatest
  <2> QED BY <1>4, <2>1, <2>3 DEF Whole
<1> QED BY <1>6, <1>7

LEMMA SetWhole ==
    ASSUME TypeOK, Walks, Whole, NEW t \in Threads, Set(t)
    PROVE  Whole'
<1> SUFFICES ASSUME source = "other" PROVE Whole'
  BY DEF Whole, Set, setup
<1>1. place[t] = "set" /\ place'[t] = "push" /\ Reporter(t)
  BY DEF TypeOK, Set, Walks
<1>2. \A u \in Threads : u # t => place[u] = "idle" /\ place'[u] = "idle"
  BY <1>1, Sole DEF TypeOK, Set
<1>3. /\ field' = field /\ final' = final /\ report' = report
      /\ latest' = latest /\ shown' = shown
  BY DEF Set
<1>4. \A u \in Threads : InCamera(u)' <=> InCamera(u)
  BY <1>1, <1>2, <1>3 DEF InCamera
<1>5. \A f \in Fields : f # field[t] => local'[f] = local[f]
  BY DEF TypeOK, Set
<1>6. InCamera(t) => AtLatest(t)'
  <2> SUFFICES ASSUME InCamera(t) PROVE AtLatest(t)'
    OBVIOUS
  <2>1. field[t] \in Fields
    BY DEF TypeOK
  <2>2. field[t] \notin refused' => local'[field[t]] = Value(field[t], report[t])
    BY <2>1 DEF TypeOK, Set
  <2>3. report[t] = latest
    BY DEF Whole, AtLatest
  <2> QED BY <1>3, <2>2, <2>3 DEF AtLatest
<1>7. ASSUME NEW f \in (Elevation..Camera) \ refused', Written(f)'
      PROVE  ShowsLatest(f)'
  <2>1. Written(f)
    BY <1>3, <1>4, <1>7 DEF Written
  <2>2. f # field[t] /\ f \in Fields
    BY <1>1, <2>1, InCameraField DEF Written, Fields
  <2>3. ShowsLatest(f)
    <3>1. f \notin refused
      BY <1>7, <2>2 DEF Set
    <3> QED BY <2>1, <3>1 DEF Whole
  <2> QED BY <1>3, <1>5, <2>2, <2>3 DEF ShowsLatest
<1>8. \A u \in Threads : InCamera(u)' => AtLatest(u)'
  BY <1>2, <1>4, <1>6 DEF InCamera
<1> QED BY <1>7, <1>8 DEF Whole

LEMMA PushWhole ==
    ASSUME TypeOK, Walks, Whole, NEW t \in Threads, Push(t)
    PROVE  Whole'
<1> SUFFICES ASSUME source = "other" PROVE Whole'
  BY DEF Whole, Push, setup
<1>1. place[t] = "push" /\ Reporter(t)
  BY DEF Push, Walks
<1>2. \A u \in Threads : u # t => place[u] = "idle" /\ place'[u] = "idle"
  BY <1>1, Sole DEF TypeOK, Push, Advance
<1>3. /\ local' = local /\ final' = final /\ report' = report /\ latest' = latest
      /\ refused' = refused
      /\ place'[t] = (IF field[t] = final[t] THEN "idle" ELSE "set")
      /\ field'[t] = (IF field[t] = final[t] THEN field[t] ELSE field[t] + 1)
  BY DEF TypeOK, Push, Advance
<1>4. field[t] \in 1..7
  BY DEF TypeOK, Fields
<1>5. \A u \in Threads : InCamera(u)' => u = t /\ AtLatest(u)'
  <2> SUFFICES ASSUME NEW u \in Threads, InCamera(u)'
               PROVE  u = t /\ AtLatest(u)'
    OBVIOUS
  <2>1. u = t
    BY <1>2 DEF InCamera
  <2>2. place'[t] = "set" /\ InCamera(t)
    BY <1>1, <1>3, <2>1 DEF InCamera
  <2>3. report'[t] = latest'
    BY <1>3, <2>2 DEF Whole, AtLatest
  <2> QED BY <2>1, <2>2, <2>3 DEF AtLatest
<1>6. ASSUME NEW f \in (Elevation..Camera) \ refused, Written(f)'
      PROVE  ShowsLatest(f)'
  <2>1. f \in Fields
    BY DEF Fields
  <2>2. local[f] = Value(f, latest)
    <3>1. CASE Written(f)
      BY <3>1 DEF Whole, ShowsLatest
    <3>2. CASE ~Written(f)
      <4>1. InCamera(t) /\ ~(f < field[t])
        BY <1>2, <3>2 DEF Written, InCamera
      <4>2. f = field[t]
        BY <1>3, <1>4, <1>6, <4>1 DEF Written, InCamera
      <4> QED BY <1>1, <4>1, <4>2 DEF Whole, AtLatest
    <3> QED BY <3>1, <3>2
  <2>3. f \in Pushed(field[t]) \/ Written(f)
    <3>1. CASE InCamera(t)
      BY <1>2, <1>3, <1>4, <1>6, <3>1 DEF Written, InCamera, Pushed
    <3>2. CASE ~InCamera(t)
      BY <1>2, <3>2 DEF Written, InCamera
    <3> QED BY <3>1, <3>2
  <2>4. shown'[f] = IF f \in Pushed(field[t]) THEN local[f] ELSE shown[f]
    BY <2>1 DEF Push
  <2> QED BY <1>3, <2>2, <2>3, <2>4 DEF Whole, ShowsLatest
<1> QED BY <1>3, <1>5, <1>6 DEF Whole

----------------------------------------------------------------------------
LEMMA NextIInv ==
    ASSUME IInv, [Next]_vars
    PROVE  IInv'
<1> USE DEF IInv
<1>1. CASE \E t \in Threads, r \in Reports, first, last \in Fields :
             Reporter(t) /\ Shape(t, first, last) /\ Begin(t, r, first, last)
  BY <1>1, BeginType, BeginWalks, BeginOwed, BeginWhole
<1>2. CASE \E t \in Threads : Set(t)
  BY <1>2, SetType, SetWalks, SetOwed, SetWhole
<1>3. CASE \E t \in Threads : Push(t)
  BY <1>3, PushType, PushWalks, PushOwed, PushWhole
<1>4. CASE UNCHANGED vars
  <2>1. TypeOK'
    BY <1>4 DEF TypeOK, vars, setup, Values
  <2>2. Walks' /\ Owed'
    BY <1>4 DEF Walks, Reporter, Owed, Pushed, vars, setup
  <2>3. Whole'
    BY <1>4 DEF Whole, AtLatest, Written, InCamera, ShowsLatest, vars, setup
  <2> QED BY <2>1, <2>2, <2>3
<1> QED BY <1>1, <1>2, <1>3, <1>4, NextSplits

LEMMA Invariance == Spec => []IInv
<1>1. Init => IInv
  BY InitIInv
<1>2. IInv /\ [Next]_vars => IInv'
  BY NextIInv
<1> QED BY <1>1, <1>2, PTL DEF Spec

(* Every variable keeps its type, for every set of reports: no callback    *)
(* walks past its last field and no angle leaves its range.                *)
THEOREM TypeCorrect == Spec => []TypeOK
<1>1. IInv => TypeOK
  BY DEF IInv
<1> QED BY <1>1, Invariance, PTL

(* When every callback has returned, each field was pushed after it was    *)
(* last set, although the threads push each other's values.                *)
THEOREM NothingStaysUnpushed == Spec => []PushedIsCurrent
<1>1. IInv => PushedIsCurrent
  <2> SUFFICES ASSUME IInv, \A t \in Threads : place[t] = "idle"
               PROVE  shown = local
    BY DEF PushedIsCurrent
  <2>1. \A f \in Fields : local[f] = shown[f]
    BY DEF IInv, Owed
  <2> QED BY <2>1 DEF IInv, TypeOK
<1> QED BY <1>1, Invariance, PTL

(* Without a recording the camera shows one whole report between reports,  *)
(* but for what refused its value.                                         *)
THEOREM ReportsAreWhole == Spec => []OneReport
<1>1. IInv => OneReport
  <2> SUFFICES ASSUME IInv, source = "other", \A t \in Threads : place[t] = "idle",
                      NEW f \in (Elevation..Camera) \ refused
               PROVE  shown[f] = Value(f, latest)
    BY DEF OneReport
  <2>1. Written(f)
    BY DEF Written, InCamera
  <2> QED BY <2>1 DEF IInv, Whole, ShowsLatest
<1> QED BY <1>1, Invariance, PTL

(* The conversion to the angles of the camera object is the identity on    *)
(* orientations, whatever the three angles are, and its result is upright. *)
LEMMA SameAngles ==
    ASSUME NEW r \in Reports
    PROVE  /\ SameOrientation(CameraAngles(r), 90 - r.pitch, r.yaw, 0)
           /\ Upright(CameraAngles(r))
<1>1. r.pitch \in -180..180 /\ r.yaw \in -180..180
  BY ReportAngles
<1>2. \A a \in Int : Agree(a, a) /\ Agree(a - 360, a)
  BY DEF Agree
<1>3. CASE 90 - r.pitch > 90
  <2> DEFINE turned == IF r.yaw + 180 > 180 THEN r.yaw + 180 - 360 ELSE r.yaw + 180
  <2>1. CameraAngles(r) = [pitch |-> 180 - (90 - r.pitch), yaw |-> turned, roll |-> 180]
    BY <1>3 DEF CameraAngles
  <2>2. turned \in -180..180 /\ (turned = (r.yaw + 180) - 360 \/ turned = r.yaw + 180)
    BY <1>1
  <2>3. r.yaw + 180 \in Int
    BY <1>1
  <2>4. Agree((r.yaw + 180) - 360, r.yaw + 180) /\ Agree(r.yaw + 180, r.yaw + 180)
    BY <1>2, <2>3
  <2>5. 180 - (90 - r.pitch) \in -90..90 /\ 180 - (90 - r.pitch) \in Int
    BY <1>1, <1>3
  <2>6. Agree(180 - (90 - r.pitch), 180 - (90 - r.pitch))
    BY <1>2, <2>5
  <2>7. Agree(180, 0 + 180)
    BY DEF Agree
  <2> HIDE DEF turned
  <2>8. Agree(turned, r.yaw + 180)
    BY <2>2, <2>4, Zenon
  <2> QED BY <2>1, <2>2, <2>5, <2>6, <2>7, <2>8 DEF SameOrientation, Upright
<1>4. CASE ~(90 - r.pitch > 90)
  <2>1. CameraAngles(r) = [pitch |-> 90 - r.pitch, yaw |-> r.yaw, roll |-> 0]
    BY <1>4 DEF CameraAngles
  <2>2. /\ 90 - r.pitch \in -90..90 /\ 90 - r.pitch \in Int
        /\ r.yaw \in Int /\ 0 \in Int
    BY <1>1, <1>4
  <2>3. Agree(90 - r.pitch, 90 - r.pitch)
    BY <1>2, <2>2
  <2>4. Agree(r.yaw, r.yaw)
    BY <1>2, <2>2
  <2>5. Agree(0, 0)
    BY <1>2, <2>2
  <2> QED BY <1>1, <2>1, <2>2, <2>3, <2>4, <2>5 DEF SameOrientation, Upright
<1> QED BY <1>3, <1>4

THEOREM OrientationSurvives == Spec => []OrientationKept
<1>1. IInv => OrientationKept
  <2> SUFFICES ASSUME IInv, NEW t \in Threads
               PROVE  LET a == Value(Camera, report[t]) IN
                      SameOrientation(a, 90 - report[t].pitch, report[t].yaw, 0) /\ Upright(a)
    BY DEF OrientationKept
  <2>1. report[t] \in Reports
    BY DEF IInv, TypeOK
  <2>2. Value(Camera, report[t]) = CameraAngles(report[t])
    BY DEF Value
  <2> QED BY <2>1, <2>2, SameAngles
<1> QED BY <1>1, Invariance, PTL
=============================================================================

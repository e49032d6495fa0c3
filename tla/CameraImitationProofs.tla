----------------------- MODULE CameraImitationProofs -----------------------
(***************************************************************************)
(* Proofs about CameraImitation, for every scale of angles and of zoom and *)
(* every pace of the link: types, the imitated camera stays on its scale,  *)
(* what is published of it agrees with it, and it moves towards requests.  *)
(*                                                                         *)
(* No request and no move leaves the grid: angles move by whole degrees    *)
(* and zooms by ZOOM_STEP, from zero.  On the grid a move decided by < or  *)
(* > cannot pass the request it was compared with, whatever the readings   *)
(* before it saw and whatever the operator asks for before it is made.     *)
(***************************************************************************)
EXTENDS CameraImitation, TLAPS

Attributes == {"elevation", "azimut", "focal_length", "field_of_view", "online"}

(* The types, by who writes the variables. *)
Cameras ==
    /\ m_requestedCamera \in [Axes -> Int] /\ m_imitatedCamera \in [Axes -> Int]
    /\ \A a \in {"pitch", "roll"} : m_requestedCamera[a] \in Angles[a] \cup {0}
Thread ==
    /\ pc \in {"lens", "differs", "below", "above", "up", "down", "publish", "link"}
    /\ axis \in Axes /\ wanted \in Int
Timer == sinceSwitch \in 0..(Longest + 1)
Flags == m_boardOnline \in BOOLEAN /\ lensDue \in BOOLEAN /\ zoomAlone \in BOOLEAN
Attrs == attr = [name \in Attributes |-> attr[name]]

(* A camera on the grid, and an angle or a zoom within its scale. *)
OnGrid ==
    /\ \A a \in Axes : m_imitatedCamera[a] % 2 = 0
    /\ m_requestedCamera["zoom"] % 2 = 0
AngleOnScale(a, angle) == Within(AsInt(angle), {AsInt(asked) : asked \in Angles[a] \cup {0}})
ZoomOnScale(zoom) == zoom \in 0..(ZoomLimit + 1)
OnScale ==
    /\ AngleOnScale("pitch", m_imitatedCamera["pitch"])
    /\ AngleOnScale("roll", m_imitatedCamera["roll"])
    /\ ZoomOnScale(m_imitatedCamera["zoom"]) /\ ZoomOnScale(m_requestedCamera["zoom"])

(* A move that is about to be made leads to the request it was decided on, *)
(* which the operator may have replaced since.                             *)
Asked(a, value) == IF a = "zoom" THEN ZoomOnScale(value) /\ value % 2 = 0
                                 ELSE value \in Angles[a] \cup {0}
Decided ==
    /\ pc = "up" => Compared(axis, m_imitatedCamera[axis]) < Compared(axis, wanted)
    /\ pc = "down" => Compared(axis, m_imitatedCamera[axis]) > Compared(axis, wanted)
    /\ pc \in {"up", "down"} => Asked(axis, wanted)

(* The attributes of the lens, and that of the link. *)
LensAgrees ==
    /\ JustMoved("pitch") \/ attr["elevation"] \in {Unset, m_imitatedCamera["pitch"]}
    /\ JustMoved("roll") \/ attr["azimut"] \in {Unset, m_imitatedCamera["roll"]}
    /\ JustMoved("zoom") \/ attr["field_of_view"] \in {Unset, m_imitatedCamera["zoom"]}
FocalAgrees == zoomAlone \/ attr["focal_length"] \in {Unset, m_imitatedCamera["zoom"]}
LinkAgrees == attr["online"] \in {Unset, m_boardOnline}

IInv == /\ Cameras /\ Thread /\ Timer /\ Flags /\ Attrs
        /\ OnGrid /\ OnScale /\ Decided /\ LensAgrees /\ FocalAgrees /\ LinkAgrees

----------------------------------------------------------------------------
(* Half degrees as whole degrees. *)
LEMMA AsIntType ==
    ASSUME NEW angle \in Int
    PROVE  AsInt(angle) \in Int
BY DEF AsInt, DEGREE

LEMMA AsIntMoves ==
    ASSUME NEW angle \in Int, angle % 2 = 0
    PROVE  /\ AsInt(angle + DEGREE) = AsInt(angle) + 1
           /\ AsInt(angle - DEGREE) = AsInt(angle) - 1
BY DEF AsInt, DEGREE

LEMMA AnglesAreInts ==
    ASSUME NEW a \in {"pitch", "roll"}
    PROVE  Angles[a] \subseteq Int
BY ImitationAssumption

(* An angle on the scale that moves up to one that was asked for, or down  *)
(* to it, stays on the scale.                                              *)
LEMMA AngleMoves ==
    ASSUME NEW a \in {"pitch", "roll"}, NEW angle \in Int, NEW asked \in Angles[a] \cup {0},
           NEW step \in {DEGREE, -DEGREE, 0}, angle % 2 = 0, AngleOnScale(a, angle),
           step = DEGREE => AsInt(angle) < AsInt(asked),
           step = -DEGREE => AsInt(angle) > AsInt(asked)
    PROVE  AngleOnScale(a, angle + step)
<1> DEFINE Scale == {AsInt(x) : x \in Angles[a] \cup {0}}
<1>1. Scale \subseteq Int
  BY AsIntType, AnglesAreInts
<1>2. PICK low \in Scale, high \in Scale : low <= AsInt(angle) /\ AsInt(angle) <= high
  BY Zenon DEF AngleOnScale, Within
<1>3. AsInt(asked) \in Scale
  OBVIOUS
<1>4. AsInt(angle) \in Int /\ low \in Int /\ high \in Int /\ AsInt(asked) \in Int
  BY <1>1, <1>3, AsIntType
<1>5. CASE step = DEGREE
  <2>1. low <= AsInt(angle + step) /\ AsInt(angle + step) <= AsInt(asked)
    BY <1>2, <1>4, <1>5, AsIntMoves
  <2> QED BY <1>3, <2>1 DEF AngleOnScale, Within
<1>6. CASE step = -DEGREE
  <2>1. angle + step = angle - DEGREE
    BY <1>6 DEF DEGREE
  <2>2. AsInt(asked) <= AsInt(angle + step) /\ AsInt(angle + step) <= high
    BY <1>2, <1>4, <1>6, <2>1, AsIntMoves
  <2> QED BY <1>3, <2>2 DEF AngleOnScale, Within
<1>7. CASE step = 0
  BY <1>7
<1> QED BY <1>5, <1>6, <1>7

(* The same for the zoom, whose scale ends one unit beyond the limit.      *)
LEMMA ZoomMoves ==
    ASSUME NEW zoom \in Int, NEW asked \in Int, NEW step \in {ZOOM_STEP, -ZOOM_STEP, 0},
           zoom % 2 = 0, asked % 2 = 0, ZoomOnScale(zoom), ZoomOnScale(asked),
           step = ZOOM_STEP => zoom < asked, step = -ZOOM_STEP => zoom > asked
    PROVE  ZoomOnScale(zoom + step)
BY ImitationAssumption DEF ZoomOnScale, ZOOM_STEP

LEMMA ZoomRequestStays ==
    ASSUME NEW rate \in {-1, 0, 1}, Cameras, OnGrid, OnScale
    PROVE  ZoomOnScale(ZoomRequest(rate)) /\ ZoomRequest(rate) % 2 = 0
<1> DEFINE zoom == m_requestedCamera["zoom"]
<1>1. zoom \in 0..(ZoomLimit + 1) /\ zoom % 2 = 0
  BY DEF OnScale, OnGrid, ZoomOnScale
<1>2. ZoomRequest(rate) \in {zoom, IF zoom < ZoomLimit THEN zoom + 2 ELSE zoom,
                             IF zoom > 0 THEN zoom - 2 ELSE zoom}
  BY DEF ZoomRequest, ZOOM_STEP
<1> QED BY <1>1, <1>2, ImitationAssumption DEF ZoomOnScale

----------------------------------------------------------------------------
LEMMA InitIInv ==
    ASSUME Init
    PROVE  IInv
<1>1. Cameras /\ Thread /\ OnGrid
  BY DEF Init, Cameras, Thread, OnGrid, Axes
<1>2. Timer
  BY ImitationAssumption DEF Init, Timer, Longest
<1>3. Flags
  BY Zenon DEF Init, Flags
<1>4. Attrs /\ LensAgrees /\ Decided
  BY DEF Init, Attrs, Attributes, LensAgrees, Decided
<1>5. LinkAgrees /\ FocalAgrees
  <2>1. attr["online"] = Unset /\ attr["focal_length"] = Unset
    BY DEF Init
  <2> QED BY <2>1, Zenon DEF LinkAgrees, FocalAgrees
<1>6. ZoomOnScale(0)
  BY ImitationAssumption DEF ZoomOnScale
<1>7. \A a \in {"pitch", "roll"} : AngleOnScale(a, 0)
  <2> TAKE a \in {"pitch", "roll"}
  <2>1. AsInt(0) \in {AsInt(x) : x \in Angles[a] \cup {0}} /\ AsInt(0) <= AsInt(0)
    BY AsIntType
  <2> QED BY <2>1, Zenon DEF AngleOnScale, Within
<1>8. OnScale
  BY <1>6, <1>7 DEF Init, OnScale, Axes
<1> QED BY <1>1, <1>2, <1>3, <1>4, <1>5, <1>8 DEF IInv

----------------------------------------------------------------------------
(* The operator. *)
LEMMA RequestKeeps ==
    ASSUME IInv, NEW a \in Axes, NEW value \in Int, Request(a, value),
           a \in {"pitch", "roll"} => value \in Angles[a],
           a = "zoom" => ZoomOnScale(value) /\ value % 2 = 0
    PROVE  IInv'
<1>1. /\ m_requestedCamera' = [m_requestedCamera EXCEPT ![a] = value]
      /\ UNCHANGED <<m_imitatedCamera, sinceSwitch, attr, pc, axis, wanted>>
  BY DEF Request, cameraVars, linkVars, threadVars
<1>2. UNCHANGED <<m_boardOnline, lensDue, zoomAlone, attr, m_imitatedCamera>>
  BY Zenon DEF Request, cameraVars, linkVars
<1>3. Cameras' /\ OnGrid'
  BY <1>1 DEF IInv, Cameras, OnGrid, Axes
<1>4. Thread' /\ Timer' /\ Attrs' /\ LensAgrees'
  BY <1>1 DEF IInv, Thread, Timer, Longest, Attrs, LensAgrees, JustMoved
<1>5. Flags' /\ LinkAgrees' /\ FocalAgrees'
  BY <1>2, Zenon DEF IInv, Flags, LinkAgrees, FocalAgrees
<1>6. OnScale'
  <2>1. m_requestedCamera'["zoom"] = IF a = "zoom" THEN value ELSE m_requestedCamera["zoom"]
    BY <1>1 DEF IInv, Cameras, Axes
  <2> QED BY <1>1, <2>1 DEF IInv, OnScale
<1>7. Decided'
  BY <1>1, Zenon DEF IInv, Decided, Asked
<1> QED BY <1>3, <1>4, <1>5, <1>6, <1>7 DEF IInv

LEMMA OperatorKeeps ==
    ASSUME IInv, Operator
    PROVE  IInv'
<1>1. /\ "roll" \in Axes /\ "pitch" \in Axes /\ "zoom" \in Axes
      /\ "roll" # "zoom" /\ "pitch" # "zoom"
  BY DEF Axes
<1>2. Angles["roll"] \subseteq Int /\ Angles["pitch"] \subseteq Int
  BY AnglesAreInts
<1>3. ASSUME NEW angle \in Angles["roll"], WantAzimut(angle)
      PROVE  IInv'
  BY <1>1, <1>2, <1>3, RequestKeeps DEF WantAzimut
<1>4. ASSUME NEW angle \in Angles["pitch"], WantElevation(angle)
      PROVE  IInv'
  BY <1>1, <1>2, <1>4, RequestKeeps DEF WantElevation
<1>5. ASSUME NEW rate \in {-1, 0, 1}, AzimutChangeRate(rate)
      PROVE  IInv'
  BY <1>1, <1>2, <1>5, RequestKeeps DEF AzimutChangeRate
<1>6. ASSUME NEW rate \in {-1, 0, 1}, ElevationChangeRate(rate)
      PROVE  IInv'
  BY <1>1, <1>2, <1>6, RequestKeeps DEF ElevationChangeRate
<1>7. ASSUME NEW rate \in {-1, 0, 1}, ZoomChangeRate(rate)
      PROVE  IInv'
  <2>1. ZoomOnScale(ZoomRequest(rate)) /\ ZoomRequest(rate) % 2 = 0
    BY ZoomRequestStays DEF IInv
  <2>2. ZoomRequest(rate) \in Int
    BY <2>1, ImitationAssumption DEF ZoomOnScale
  <2> QED BY <1>1, <1>7, <2>1, <2>2, RequestKeeps DEF ZoomChangeRate
<1> QED BY <1>3, <1>4, <1>5, <1>6, <1>7 DEF Operator

----------------------------------------------------------------------------
LEMMA NextAxisTypes ==
    ASSUME Thread, NextAxis, UNCHANGED wanted
    PROVE  Thread' /\ pc' \in {"differs", "link"}
BY DEF Thread, NextAxis, Axes

(* A move of the axis the thread is busy with, up or down as was decided.  *)
LEMMA MoveKeeps ==
    ASSUME IInv, NEW step \in {StepSize, -StepSize}, Move(step), pc \in {"up", "down"},
           step = StepSize => pc = "up", step = -StepSize => pc = "down"
    PROVE  IInv'
<1> DEFINE before == m_imitatedCamera[axis]
<1>1. axis \in Axes /\ before \in Int /\ wanted \in Int /\ before % 2 = 0
  BY DEF IInv, Thread, Cameras, OnGrid
<1>2. StepSize = 2 /\ step \in {2, -2}
  BY DEF StepSize, DEGREE, ZOOM_STEP
<1>3. /\ m_imitatedCamera' = [m_imitatedCamera EXCEPT ![axis] = before + step]
      /\ UNCHANGED <<m_requestedCamera, sinceSwitch, attr, axis>>
      /\ pc' = "publish" /\ wanted' = 0
  BY DEF Move, linkVars
<1>4. Cameras'
  BY <1>1, <1>2, <1>3 DEF IInv, Cameras
<1>5. OnGrid'
  <2>1. (before + step) % 2 = 0
    BY <1>1, <1>2
  <2> QED BY <1>1, <1>3, <2>1 DEF IInv, Cameras, OnGrid
<1>6. OnScale'
  <2>0. /\ step = 2 => Compared(axis, before) < Compared(axis, wanted)
        /\ step = -2 => Compared(axis, before) > Compared(axis, wanted)
        /\ Asked(axis, wanted)
    BY <1>2 DEF IInv, Decided
  <2>1. CASE axis = "zoom"
    <3>1. Compared(axis, before) = before /\ Compared(axis, wanted) = wanted
      BY <2>1 DEF Compared
    <3>2. wanted % 2 = 0 /\ ZoomOnScale(before) /\ ZoomOnScale(wanted)
      BY <2>0, <2>1 DEF IInv, OnScale, Asked
    <3>3. ZoomOnScale(before + step)
      BY <1>1, <1>2, <2>0, <3>1, <3>2, ZoomMoves DEF ZOOM_STEP
    <3>4. /\ m_imitatedCamera'["zoom"] = before + step
          /\ m_imitatedCamera'["pitch"] = m_imitatedCamera["pitch"]
          /\ m_imitatedCamera'["roll"] = m_imitatedCamera["roll"]
      BY <1>3, <2>1 DEF IInv, Cameras, Axes
    <3> QED BY <1>3, <3>3, <3>4 DEF IInv, OnScale
  <2>2. ASSUME axis \in {"pitch", "roll"}
        PROVE  AngleOnScale(axis, before + step)
    <3>1. Compared(axis, before) = AsInt(before) /\ Compared(axis, wanted) = AsInt(wanted)
      BY <2>2 DEF Compared
    <3>2. wanted \in Angles[axis] \cup {0} /\ AngleOnScale(axis, before)
      BY <2>0, <2>2 DEF IInv, OnScale, Asked
    <3> QED BY <1>1, <1>2, <2>0, <2>2, <3>1, <3>2, AngleMoves DEF DEGREE
  <2>3. CASE axis = "pitch"
    <3>1. /\ m_imitatedCamera'["pitch"] = before + step
          /\ m_imitatedCamera'["zoom"] = m_imitatedCamera["zoom"]
          /\ m_imitatedCamera'["roll"] = m_imitatedCamera["roll"]
      BY <1>3, <2>3 DEF IInv, Cameras, Axes
    <3> QED BY <1>3, <2>2, <2>3, <3>1 DEF IInv, OnScale
  <2>4. CASE axis = "roll"
    <3>1. /\ m_imitatedCamera'["roll"] = before + step
          /\ m_imitatedCamera'["zoom"] = m_imitatedCamera["zoom"]
          /\ m_imitatedCamera'["pitch"] = m_imitatedCamera["pitch"]
      BY <1>3, <2>4 DEF IInv, Cameras, Axes
    <3> QED BY <1>3, <2>2, <2>4, <3>1 DEF IInv, OnScale
  <2> QED BY <1>1, <2>1, <2>3, <2>4 DEF Axes
<1>7. LensAgrees'
  <2>1. ~JustMoved("pitch") /\ ~JustMoved("roll") /\ ~JustMoved("zoom")
    BY DEF JustMoved
  <2>2. \A a \in Axes : a # axis => m_imitatedCamera'[a] = m_imitatedCamera[a]
    BY <1>3 DEF IInv, Cameras
  <2>3. \A a \in Axes : JustMoved(a)' <=> a = axis
    BY <1>3 DEF JustMoved
  <2> QED BY <1>1, <1>3, <2>1, <2>2, <2>3 DEF IInv, LensAgrees, Axes
<1>8. FocalAgrees'
  <2>1. CASE axis = "zoom"
    <3>1. zoomAlone' = TRUE
      BY <2>1, Zenon DEF Move
    <3> QED BY <3>1, Zenon DEF FocalAgrees
  <2>2. CASE axis # "zoom"
    <3>1. m_imitatedCamera'["zoom"] = m_imitatedCamera["zoom"] /\ attr' = attr
      BY <1>3, <2>2 DEF IInv, Cameras, Axes
    <3>2. zoomAlone' <=> zoomAlone
      BY <2>2, Zenon DEF Move
    <3> QED BY <3>1, <3>2, Zenon DEF IInv, FocalAgrees
  <2> QED BY <2>1, <2>2
<1>9. Flags' /\ LinkAgrees'
  <2>1. UNCHANGED <<m_boardOnline, lensDue, attr>> /\ zoomAlone' = (zoomAlone \/ axis = "zoom")
    BY Zenon DEF Move, linkVars
  <2> QED BY <2>1, Zenon DEF IInv, Flags, LinkAgrees
<1>10. Thread' /\ Timer' /\ Attrs' /\ Decided'
  BY <1>3 DEF IInv, Thread, Timer, Longest, Attrs, Decided
<1> QED BY <1>4, <1>5, <1>6, <1>7, <1>8, <1>9, <1>10 DEF IInv

(* What is published is where the camera is. *)
LEMMA PublishKeeps ==
    ASSUME IInv, Publish
    PROVE  IInv'
<1>1. /\ UNCHANGED <<m_requestedCamera, m_imitatedCamera, sinceSwitch, wanted>>
      /\ attr' = Published
  BY DEF Publish, linkVars
<1>2. UNCHANGED <<m_boardOnline, lensDue>> /\ zoomAlone' = (zoomAlone /\ axis = "zoom")
  BY Zenon DEF Publish, linkVars
<1>3. Thread' /\ pc' \in {"differs", "link"}
  BY <1>1, NextAxisTypes DEF IInv, Publish
<1>4. Timer' /\ Cameras' /\ OnGrid' /\ OnScale'
  BY <1>1 DEF IInv, Timer, Longest, Cameras, OnGrid, OnScale, AngleOnScale, ZoomOnScale,
              Within, AsInt
<1>5. Decided'
  BY <1>3 DEF Decided
<1>6. CASE axis = "zoom"
  <2>1. /\ attr' = [attr EXCEPT !["field_of_view"] = m_imitatedCamera["zoom"]]
        /\ ~JustMoved("pitch") /\ ~JustMoved("roll")
    BY <1>1, <1>6 DEF Published, JustMoved
  <2>2. Attrs' /\ LensAgrees'
    BY <1>1, <2>1 DEF IInv, Attrs, Attributes, LensAgrees
  <2>3. attr'["online"] = attr["online"] /\ attr'["focal_length"] = attr["focal_length"]
    BY <2>1 DEF IInv, Attrs, Attributes
  <2>4. Flags' /\ LinkAgrees' /\ FocalAgrees'
    BY <1>1, <1>2, <1>6, <2>3, Zenon DEF IInv, Flags, LinkAgrees, FocalAgrees
  <2> QED BY <1>3, <1>4, <1>5, <2>2, <2>4 DEF IInv
<1>7. CASE axis # "zoom"
  <2>1. /\ attr' = [attr EXCEPT !["elevation"] = m_imitatedCamera["pitch"],
                                !["azimut"] = m_imitatedCamera["roll"],
                                !["focal_length"] = m_imitatedCamera["zoom"]]
        /\ ~JustMoved("zoom")
    BY <1>1, <1>7 DEF Published, JustMoved
  <2>2. Attrs' /\ LensAgrees'
    BY <1>1, <2>1 DEF IInv, Attrs, Attributes, LensAgrees
  <2>3. /\ attr'["online"] = attr["online"]
        /\ attr'["focal_length"] = m_imitatedCamera'["zoom"]
    BY <1>1, <2>1 DEF IInv, Attrs, Attributes
  <2>4. Flags' /\ LinkAgrees' /\ FocalAgrees'
    BY <1>2, <1>7, <2>3, Zenon DEF IInv, Flags, LinkAgrees, FocalAgrees
  <2> QED BY <1>3, <1>4, <1>5, <2>2, <2>4 DEF IInv
<1> QED BY <1>6, <1>7

(* A step that neither moves nor publishes anything.                       *)
LEMMA RestKeeps ==
    ASSUME IInv, UNCHANGED <<m_requestedCamera, m_imitatedCamera, attr>>,
           UNCHANGED <<m_boardOnline, zoomAlone>>, lensDue' \in BOOLEAN,
           Thread', Timer', Decided', pc # "publish" \/ UNCHANGED <<pc, axis>>
    PROVE  IInv'
<1>1. Cameras' /\ OnGrid' /\ OnScale'
  BY DEF IInv, Cameras, OnGrid, OnScale, AngleOnScale, ZoomOnScale, Within, AsInt
<1>2. Attrs' /\ LensAgrees'
  BY DEF IInv, Attrs, LensAgrees, JustMoved
<1>3. Flags' /\ LinkAgrees' /\ FocalAgrees'
  BY Zenon DEF IInv, Flags, LinkAgrees, FocalAgrees
<1> QED BY <1>1, <1>2, <1>3 DEF IInv

(* A reading that decides on a move finds the camera off the request, and  *)
(* the request is one that the operator could ask for.                     *)
LEMMA ReadingKeeps ==
    ASSUME IInv, IsBelow \/ IsAbove
    PROVE  IInv'
<1>1. /\ UNCHANGED <<m_requestedCamera, m_imitatedCamera, attr, axis>>
      /\ UNCHANGED sinceSwitch
      /\ \/ pc' = "up" /\ Is < Wanted /\ wanted' = m_requestedCamera[axis]
         \/ pc' = "down" /\ Is > Wanted /\ wanted' = m_requestedCamera[axis]
         \/ pc' \in {"above", "publish"} /\ UNCHANGED wanted
      /\ pc # "publish"
  BY DEF IsBelow, IsAbove, cameraVars, linkVars
<1>2. UNCHANGED <<m_boardOnline, zoomAlone, lensDue>>
  BY Zenon DEF IsBelow, IsAbove, cameraVars, linkVars
<1>3. lensDue' \in BOOLEAN
  BY <1>2, Zenon DEF IInv, Flags
<1>4. axis \in Axes /\ m_requestedCamera[axis] \in Int
  BY DEF IInv, Thread, Cameras
<1>5. Thread' /\ Timer'
  BY <1>1, <1>4 DEF IInv, Thread, Timer, Longest
<1>6. Asked(axis, m_requestedCamera[axis])
  BY <1>4 DEF IInv, Asked, Cameras, OnGrid, OnScale, Axes
<1>7. Decided'
  <2>1. CASE pc' = "up"
    <3>1. Compared(axis, m_imitatedCamera[axis]) < Compared(axis, m_requestedCamera[axis])
      BY <1>1, <2>1 DEF Is, Wanted
    <3>2. wanted' = m_requestedCamera[axis]
      BY <1>1, <2>1
    <3> QED BY <1>1, <1>6, <2>1, <3>1, <3>2 DEF Decided, Asked, ZoomOnScale, Compared, AsInt
  <2>2. CASE pc' = "down"
    <3>1. Compared(axis, m_imitatedCamera[axis]) > Compared(axis, m_requestedCamera[axis])
      BY <1>1, <2>2 DEF Is, Wanted
    <3>2. wanted' = m_requestedCamera[axis]
      BY <1>1, <2>2
    <3> QED BY <1>1, <1>6, <2>2, <3>1, <3>2 DEF Decided, Asked, ZoomOnScale, Compared, AsInt
  <2>3. CASE pc' \notin {"up", "down"}
    BY <2>3 DEF Decided
  <2> QED BY <2>1, <2>2, <2>3
<1> QED BY <1>1, <1>2, <1>3, <1>5, <1>7, RestKeeps

LEMMA ThreadKeeps ==
    ASSUME IInv, droneActivityImitation
    PROVE  IInv'
<1>1. CASE LensDue \/ LensNotDue \/ Differs
  <2>1. /\ UNCHANGED <<m_requestedCamera, m_imitatedCamera, attr>>
        /\ UNCHANGED <<sinceSwitch, wanted>>
        /\ pc # "publish"
    BY <1>1 DEF LensDue, LensNotDue, Differs, cameraVars, linkVars
  <2>2. UNCHANGED <<m_boardOnline, zoomAlone>>
    BY <1>1, Zenon DEF LensDue, LensNotDue, Differs, cameraVars, linkVars
  <2>3. lensDue' \in {lensDue, FALSE}
    BY <1>1, Zenon DEF LensDue, LensNotDue, Differs
  <2>4. lensDue' \in BOOLEAN
    BY <2>3, Zenon DEF IInv, Flags
  <2>5. Thread' /\ pc' \in {"differs", "below", "link"}
    BY <1>1, <2>1, NextAxisTypes DEF IInv, Thread, LensDue, LensNotDue, Differs
  <2>6. Timer' /\ Decided'
    BY <2>1, <2>5 DEF IInv, Timer, Longest, Decided
  <2> QED BY <2>1, <2>2, <2>4, <2>5, <2>6, RestKeeps
<1>2. CASE MoveUp \/ MoveDown
  <2>1. StepSize \in Int /\ StepSize # -StepSize
    BY DEF StepSize, DEGREE, ZOOM_STEP
  <2> QED BY <1>2, <2>1, MoveKeeps DEF MoveUp, MoveDown
<1>3. CASE SwitchLink
  <2>1. /\ UNCHANGED <<m_requestedCamera, m_imitatedCamera, axis, wanted>>
        /\ pc' = "lens" /\ pc = "link"
    BY <1>3 DEF SwitchLink, cameraVars
  <2>2. UNCHANGED <<lensDue, zoomAlone>>
    BY <1>3, Zenon DEF SwitchLink, cameraVars
  <2>3. sinceSwitch' \in {0, sinceSwitch}
    BY <1>3 DEF SwitchLink, linkVars
  <2>4. Thread' /\ Timer' /\ Decided'
    BY <2>1, <2>3, ImitationAssumption DEF IInv, Thread, Timer, Longest, Decided
  <2>5. CASE ~SwitchDue
    <3>1. UNCHANGED <<m_boardOnline, attr>>
      BY <1>3, <2>5, Zenon DEF SwitchLink, linkVars
    <3>2. lensDue' \in BOOLEAN
      BY <2>2, Zenon DEF IInv, Flags
    <3> QED BY <2>1, <2>2, <2>4, <3>1, <3>2, RestKeeps
  <2>6. CASE SwitchDue
    <3>1. m_boardOnline' = ~m_boardOnline
      BY <1>3, <2>6, Zenon DEF SwitchLink
    <3>2. attr' = [attr EXCEPT !["online"] = ~m_boardOnline]
      BY <1>3, <2>6, Zenon DEF SwitchLink
    <3>3. /\ Attrs' /\ UNCHANGED <<attr["elevation"], attr["azimut"], attr["field_of_view"]>>
          /\ attr'["online"] = ~m_boardOnline /\ attr'["focal_length"] = attr["focal_length"]
      BY <3>2 DEF IInv, Attrs, Attributes
    <3>4. LensAgrees'
      BY <2>1, <3>3 DEF IInv, LensAgrees, JustMoved
    <3>5. Flags' /\ LinkAgrees' /\ FocalAgrees'
      BY <2>1, <2>2, <3>1, <3>3, Zenon DEF IInv, Flags, LinkAgrees, FocalAgrees
    <3>6. Cameras' /\ OnGrid' /\ OnScale'
      BY <2>1 DEF IInv, Cameras, OnGrid, OnScale, AngleOnScale, ZoomOnScale, Within, AsInt
    <3> QED BY <2>4, <3>3, <3>4, <3>5, <3>6 DEF IInv
  <2> QED BY <2>5, <2>6
<1> QED
  BY <1>1, <1>2, <1>3, ReadingKeeps, PublishKeeps DEF droneActivityImitation, Lens

LEMMA TickKeeps ==
    ASSUME IInv, Tick
    PROVE  IInv'
<1>1. /\ UNCHANGED <<m_requestedCamera, m_imitatedCamera, attr, pc, axis, wanted>>
      /\ sinceSwitch' = IF sinceSwitch <= Longest THEN sinceSwitch + 1 ELSE sinceSwitch
  BY DEF Tick, cameraVars, threadVars
<1>2. UNCHANGED <<m_boardOnline, zoomAlone>> /\ lensDue' = TRUE
  BY Zenon DEF Tick, cameraVars
<1>3. lensDue' \in BOOLEAN
  BY <1>2, Zenon
<1>4. Thread' /\ Timer'
  BY <1>1, ImitationAssumption DEF IInv, Thread, Timer, Longest
<1>5. Decided'
  BY <1>1, Zenon DEF IInv, Decided, Asked
<1> QED BY <1>1, <1>2, <1>3, <1>4, <1>5, RestKeeps

----------------------------------------------------------------------------
LEMMA Invariance == Spec => []IInv
<1>1. ASSUME IInv, [Next]_vars
      PROVE  IInv'
  <2>1. CASE Operator
    BY <1>1, <2>1, OperatorKeeps
  <2>2. CASE droneActivityImitation
    BY <1>1, <2>2, ThreadKeeps
  <2>3. CASE Tick
    BY <1>1, <2>3, TickKeeps
  <2>4. CASE UNCHANGED vars
    <3>1. /\ UNCHANGED <<m_requestedCamera, m_imitatedCamera, attr>>
          /\ UNCHANGED <<sinceSwitch, pc, axis, wanted>>
      BY <2>4 DEF vars
    <3>2. UNCHANGED <<m_boardOnline, zoomAlone, lensDue>>
      BY <2>4, Zenon DEF vars
    <3>3. lensDue' \in BOOLEAN
      BY <1>1, <3>2, Zenon DEF IInv, Flags
    <3>4. Thread' /\ Timer'
      BY <1>1, <3>1 DEF IInv, Thread, Timer, Longest
    <3>5. Decided'
      BY <1>1, <3>1, Zenon DEF IInv, Decided, Asked
    <3> QED BY <1>1, <3>1, <3>2, <3>3, <3>4, <3>5, RestKeeps
  <2> QED BY <1>1, <2>1, <2>2, <2>3, <2>4 DEF Next
<1> QED BY <1>1, InitIInv, PTL DEF Spec

(* Requests, moves and the imitated link keep to their types: a requested  *)
(* angle is one that the operator could ask for, or the initial one.       *)
THEOREM TypeCorrect == Spec => []TypeOK
<1>1. IInv => TypeOK
  BY Zenon DEF IInv, TypeOK, Cameras, Thread, Timer, Flags
<1> QED BY <1>1, Invariance, PTL

(* droneActivityImitation never carries the imitated camera beyond what    *)
(* may be asked, although it reads a request three times while the         *)
(* operator changes it, and heads for zooms it can reach.                  *)
THEOREM CameraStaysOnScale == Spec => []CameraOnScale
<1>1. IInv => CameraOnScale
  <2> SUFFICES ASSUME IInv
               PROVE  CameraOnScale
    OBVIOUS
  <2>1. /\ m_requestedCamera["zoom"] \in Int /\ m_requestedCamera["zoom"] % 2 = 0
        /\ m_imitatedCamera["zoom"] \in Int /\ m_imitatedCamera["zoom"] % 2 = 0
    BY DEF IInv, Cameras, OnGrid, Axes
  <2>2. (m_requestedCamera["zoom"] - m_imitatedCamera["zoom"]) % ZOOM_STEP = 0
    BY <2>1 DEF ZOOM_STEP
  <2>3. AngleOnScale("pitch", m_imitatedCamera["pitch"])
        /\ AngleOnScale("roll", m_imitatedCamera["roll"])
    BY DEF IInv, OnScale
  <2>4. {m_imitatedCamera["zoom"], m_requestedCamera["zoom"]} \subseteq 0..(ZoomLimit + 1)
    BY DEF IInv, OnScale, ZoomOnScale
  <2>5. \A a \in {"pitch", "roll"} : AngleOnScale(a, m_imitatedCamera[a])
    BY <2>3
  <2> QED BY <2>2, <2>4, <2>5, Zenon DEF CameraOnScale, AngleOnScale
<1> QED BY <1>1, Invariance, PTL

(* What the callbacks publish of the imitated camera and link stays equal  *)
(* to them until the next move is published: the angle that a callback     *)
(* publishes beside the one that moved, the field of view, and the focal   *)
(* length until the zoom moves and no angle does.                          *)
THEOREM AttributesFollow == Spec => []PublishedAgrees
<1>1. IInv => PublishedAgrees
  BY Zenon DEF IInv, PublishedAgrees, LensAgrees, FocalAgrees, LinkAgrees
<1> QED BY <1>1, Invariance, PTL

----------------------------------------------------------------------------
(* The safety part of RequestIsReached: a move takes the camera nearer to  *)
(* the request that it was decided on, and not past it.  How far the       *)
(* camera is from a request that no longer changes is what decreases.      *)
Offset(a, value) == Compared(a, value) - Compared(a, wanted)
Nearer(before, after) == \/ before < after /\ after <= 0
                         \/ 0 <= after /\ after < before
MovesApproach ==
    [][\A a \in Axes : m_imitatedCamera'[a] # m_imitatedCamera[a] =>
           Nearer(Offset(a, m_imitatedCamera[a]), Offset(a, m_imitatedCamera'[a]))]_vars

LEMMA MoveApproaches ==
    ASSUME IInv, MoveUp \/ MoveDown
    PROVE  /\ \A a \in Axes \ {axis} : m_imitatedCamera'[a] = m_imitatedCamera[a]
           /\ Nearer(Offset(axis, m_imitatedCamera[axis]), Offset(axis, m_imitatedCamera'[axis]))
<1> DEFINE before == m_imitatedCamera[axis]
<1>1. axis \in Axes /\ before \in Int /\ wanted \in Int /\ before % 2 = 0
  BY DEF IInv, Thread, Cameras, OnGrid
<1>2. PICK step \in {2, -2} :
         /\ Move(step)
         /\ step = 2 => Compared(axis, before) < Compared(axis, wanted)
         /\ step = -2 => Compared(axis, before) > Compared(axis, wanted)
  <2>1. StepSize = 2
    BY DEF StepSize, DEGREE, ZOOM_STEP
  <2>2. CASE MoveUp
    BY <2>1, <2>2 DEF MoveUp, IInv, Decided
  <2>3. CASE MoveDown
    BY <2>1, <2>3 DEF MoveDown, IInv, Decided
  <2> QED BY <2>2, <2>3
<1>3. /\ m_imitatedCamera'[axis] = before + step
      /\ \A a \in Axes \ {axis} : m_imitatedCamera'[a] = m_imitatedCamera[a]
      /\ pc \in {"up", "down"}
  BY <1>1, <1>2 DEF Move, MoveUp, MoveDown, IInv, Cameras
<1>4. Nearer(Offset(axis, before), Offset(axis, before + step))
  <2>1. CASE axis = "zoom"
    <3>1. /\ wanted % 2 = 0
          /\ Compared(axis, before) = before /\ Compared(axis, wanted) = wanted
      BY <1>3, <2>1 DEF IInv, Decided, Asked, Compared
    <3>2. /\ before < wanted => before + 2 <= wanted
          /\ before > wanted => before - 2 >= wanted
      BY <1>1, <3>1
    <3>3. /\ Offset(axis, before) = before - wanted
          /\ Offset(axis, before + step) = (before + step) - wanted
      BY <2>1 DEF Offset, Compared
    <3> QED BY <1>1, <1>2, <3>1, <3>2, <3>3 DEF Nearer
  <2>2. CASE axis # "zoom"
    <3>1. Compared(axis, before) = AsInt(before) /\ Compared(axis, wanted) = AsInt(wanted)
      BY <2>2 DEF Compared
    <3>2. /\ AsInt(before + 2) = AsInt(before) + 1 /\ AsInt(before - 2) = AsInt(before) - 1
          /\ AsInt(before) \in Int /\ AsInt(wanted) \in Int
      BY <1>1, AsIntMoves, AsIntType DEF DEGREE
    <3>3. /\ Offset(axis, before) = AsInt(before) - AsInt(wanted)
          /\ Offset(axis, before + step) = AsInt(before + step) - AsInt(wanted)
      BY <2>2 DEF Offset, Compared
    <3>4. step = -2 => before + step = before - 2
      BY <1>1
    <3> QED BY <1>2, <3>1, <3>2, <3>3, <3>4 DEF Nearer
  <2> QED BY <2>1, <2>2
<1> QED BY <1>3, <1>4

(* Whatever the operator asks for between the readings and before the      *)
(* move, the imitated camera never moves away from the request it was last *)
(* compared with, or past it.                                              *)
THEOREM EveryMoveApproaches == Spec => MovesApproach
<1>1. ASSUME IInv, [Next]_vars, NEW a \in Axes, m_imitatedCamera'[a] # m_imitatedCamera[a]
      PROVE  Nearer(Offset(a, m_imitatedCamera[a]), Offset(a, m_imitatedCamera'[a]))
  <2>1. MoveUp \/ MoveDown
    BY <1>1
    DEF Next, Operator, WantAzimut, WantElevation, AzimutChangeRate, ElevationChangeRate,
        ZoomChangeRate, Request, droneActivityImitation, Lens, LensDue, LensNotDue, Differs,
        IsBelow, IsAbove, Publish, SwitchLink, Tick, cameraVars, vars
  <2>2. a = axis
    BY <1>1, <2>1, MoveApproaches
  <2> QED BY <1>1, <2>1, <2>2, MoveApproaches
<1>2. ASSUME IInv, [Next]_vars
      PROVE  [\A a \in Axes : m_imitatedCamera'[a] # m_imitatedCamera[a] =>
                Nearer(Offset(a, m_imitatedCamera[a]), Offset(a, m_imitatedCamera'[a]))]_vars
  BY <1>1, <1>2
<1> QED BY <1>2, Invariance, PTL DEF Spec, MovesApproach
=============================================================================

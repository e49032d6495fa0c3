---------------------------- MODULE DroneFrames ----------------------------
(***************************************************************************)
(* Frames from the drone on their way into the pipeline.  The rfv library  *)
(* hands every received frame to ImageFromDrone::slotLastFrameChanged,     *)
(* which replaces m_droneCurrentFrame under a lock and, at the first frame *)
(* that decodes, describes it and signals DroneClient, which connects the  *)
(* VideoGenerator.  From then on the feeding thread fetches a pointer to   *)
(* the current frame under the same lock and copies from it after the lock *)
(* is gone, so the frame may be replaced, and its memory freed, between    *)
(* the two.                                                                *)
(*                                                                         *)
(* A frame is its serial number, and what it is: "good", "corrupt" (bytes  *)
(* that do not decode) or "empty".                                         *)
(***************************************************************************)
EXTENDS Integers

CONSTANT MaxFrames   \* bound on the frames received

Kinds == {"good", "corrupt", "empty"}
NoFrame == [serial |-> 0, kind |-> "empty"]
Garbage == [serial |-> -1, kind |-> "garbage"]

VARIABLES
    m_droneCurrentFrame,
    m_frameDescr,        \* has the first good frame been described?
    m_widthViaOpenCV,    \* 0 or the serial of the frame it was read from
    slot,                \* where slotLastFrameChanged is
    pipeline,            \* "none", "failed", or "playing"
    declared,            \* the image size in the pipeline's caps
    feed,                \* where callbackPushData is
    fetched,             \* the frame its pointer points into
    pushed,              \* the frame last copied into a buffer
    crashed              \* the copy read memory that was unmapped

slotVars == <<m_droneCurrentFrame, m_frameDescr, m_widthViaOpenCV, slot>>
pipeVars == <<pipeline, declared>>
feedVars == <<feed, fetched, pushed, crashed>>
vars == <<m_droneCurrentFrame, m_frameDescr, m_widthViaOpenCV, slot,
          pipeline, declared, feed, fetched, pushed, crashed>>

Init ==
    /\ m_droneCurrentFrame = NoFrame
    /\ m_frameDescr = FALSE /\ m_widthViaOpenCV = 0
    /\ slot = "idle"
    /\ pipeline = "none" /\ declared = 0
    /\ feed = "idle" /\ fetched = NoFrame /\ pushed = NoFrame
    /\ crashed = FALSE

----------------------------------------------------------------------------
(* slotLastFrameChanged: the frame is replaced before anything is checked. *)
ReplaceFrame(kind) ==
    /\ ~crashed /\ slot = "idle"
    /\ m_droneCurrentFrame.serial < MaxFrames
    /\ m_droneCurrentFrame' = [serial |-> m_droneCurrentFrame.serial + 1, kind |-> kind]
    /\ slot' = "check"
    /\ UNCHANGED <<m_frameDescr, m_widthViaOpenCV, pipeVars, feedVars>>

Worthless == \/ m_droneCurrentFrame.kind = "empty"                       \* (1)
             \/ ~m_frameDescr /\ m_droneCurrentFrame.kind = "corrupt"    \* (2)

LeaveSlot ==
    /\ ~crashed /\ slot = "check"
    /\ m_frameDescr \/ Worthless
    /\ slot' = "idle"
    /\ UNCHANGED <<m_droneCurrentFrame, m_frameDescr, m_widthViaOpenCV, pipeVars, feedVars>>

(* The first good frame: its size, its description. *)
DescribeFrame_unsignalled ==
    /\ ~crashed /\ slot = "check"
    /\ ~m_frameDescr /\ ~Worthless
    /\ m_widthViaOpenCV' = m_droneCurrentFrame.serial
    /\ m_frameDescr' = TRUE
    /\ slot' = "idle"
    /\ UNCHANGED <<m_droneCurrentFrame, pipeVars, feedVars>>
DescribeFrame ==
    /\ ~crashed /\ slot = "check"
    /\ ~m_frameDescr /\ ~Worthless
    /\ m_widthViaOpenCV' =
         IF m_droneCurrentFrame.kind = "good" THEN m_droneCurrentFrame.serial ELSE 0
    /\ m_frameDescr' = TRUE
    /\ slot' = "signal"
    /\ UNCHANGED <<m_droneCurrentFrame, pipeVars, feedVars>>

(* m_signalFirstFrameFromDrone: DroneClient::firstFrameFronDrone calls     *)
(* connectToSource on this thread and drops its result.                    *)
connectToSource ==
    /\ ~crashed /\ slot = "signal"
    /\ IF pipeline = "none"
         THEN /\ declared' = m_widthViaOpenCV
              /\ pipeline' \in {"playing", "failed"}
         ELSE UNCHANGED pipeVars
    /\ slot' = "idle"
    /\ UNCHANGED <<m_droneCurrentFrame, m_frameDescr, m_widthViaOpenCV, feedVars>>

----------------------------------------------------------------------------
(* callbackPushData: getImageData ... *)
getImageData_cached ==
    /\ ~crashed /\ pipeline = "playing" /\ feed = "idle"
    /\ fetched' = IF fetched = NoFrame THEN m_droneCurrentFrame ELSE fetched
    /\ feed' = "copy"
    /\ UNCHANGED <<slotVars, pipeVars, pushed, crashed>>
getImageData ==
    /\ ~crashed /\ pipeline = "playing" /\ feed = "idle"
    /\ fetched' = m_droneCurrentFrame
    /\ feed' = "copy"
    /\ UNCHANGED <<slotVars, pipeVars, pushed, crashed>>

(* ... and memcpy.  A frame that was replaced is freed memory: its bytes   *)
(* may still be there, may be something else, or may be unmapped.          *)
CopyCurrent ==
    /\ ~crashed /\ feed = "copy" /\ fetched = m_droneCurrentFrame
    /\ pushed' = fetched
    /\ feed' = "idle"
    /\ UNCHANGED <<slotVars, pipeVars, fetched, crashed>>

CopyFreed_asEmpty ==
    /\ ~crashed /\ feed = "copy" /\ fetched # m_droneCurrentFrame
    /\ pushed' = NoFrame
    /\ feed' = "idle"
    /\ UNCHANGED <<slotVars, pipeVars, fetched, crashed>>
CopyFreed ==
    /\ ~crashed /\ feed = "copy" /\ fetched # m_droneCurrentFrame
    /\ \/ /\ pushed' \in {fetched, Garbage} /\ UNCHANGED crashed
       \/ /\ crashed' = TRUE /\ UNCHANGED pushed
    /\ feed' = "idle"
    /\ UNCHANGED <<slotVars, pipeVars, fetched>>

slotLastFrameChanged ==
    \/ \E kind \in Kinds : ReplaceFrame(kind)
    \/ LeaveSlot \/ DescribeFrame \/ connectToSource

callbackPushData == getImageData \/ CopyCurrent \/ CopyFreed

Next == slotLastFrameChanged \/ callbackPushData

Spec == Init /\ [][Next]_vars

----------------------------------------------------------------------------
TypeOK ==
    /\ m_droneCurrentFrame \in [serial : 0..MaxFrames, kind : Kinds]
    /\ m_frameDescr \in BOOLEAN
    /\ m_widthViaOpenCV \in 0..MaxFrames
    /\ slot \in {"idle", "check", "signal"}
    /\ pipeline \in {"none", "failed", "playing"}
    /\ declared \in 0..MaxFrames
    /\ feed \in {"idle", "copy"}
=============================================================================

------------------------- MODULE VideoStreamProofs -------------------------
(***************************************************************************)
(* Proofs about VideoStream, for every length of the queue, set of source  *)
(* ids and number of frames: types, one source feeds the pipeline, the     *)
(* video never goes back, and no thread waits without being fed.  The      *)
(* first and the last need the places of both threads that share sourceId, *)
(* the frames how old each copy of one may be.                             *)
(***************************************************************************)
EXTENDS VideoStream, TLAPS

(* callbackStartFeed goes on only where nothing is attached or about to be *)
(* named, and nobody else names a source meanwhile.                        *)
AddsAlone == stream \in {"add", "store"} => sourceId = NoSource

(* The main loop's source stays attached until this thread removes it.     *)
DispatchedIsLive == loop \in {"push", "enough"} => running \in live

(* callbackStopFeed is at the source that is being dispatched, keeps its   *)
(* id in sourceId, which holds off callbackStartFeed, and once it is       *)
(* removed nothing is attached.                                            *)
StopsItsOwn ==
    /\ loop \in {"remove", "clear"} => sourceId = running /\ running # NoSource
    /\ loop = "clear" => live = {}

FeedInv == TypeOK /\ OneSource /\ AddsAlone /\ DispatchedIsLive /\ StopsItsOwn

(* Frames that are on their way are no newer than where they came from.    *)
NoFrameIsAhead ==
    /\ m_droneCurrentFrame.serial \in Nat
    /\ fetched.serial \in Nat /\ fetched.serial <= m_droneCurrentFrame.serial
    /\ pushed.serial \in Int /\ pushed.serial <= fetched.serial

----------------------------------------------------------------------------
(* The feed. *)
LEMMA InitFeed ==
    ASSUME Init
    PROVE  FeedInv
<1>1. TypeOK
  <2>1. 0 \in 0..QueueCap /\ 0 \in 0..0
    BY FeedAssumption
  <2> QED BY <2>1, Zenon DEF Init, TypeOK, NoSource
<1>2. OneSource /\ AddsAlone /\ DispatchedIsLive /\ StopsItsOwn
  BY DEF Init, OneSource, AddsAlone, DispatchedIsLive, StopsItsOwn
<1> QED BY <1>1, <1>2 DEF FeedInv

(* The streaming thread, whose two steps are read by the main loop between *)
(* them, and what may stop it.                                             *)
LEMMA StreamingKeepsFeed ==
    ASSUME FeedInv, streamingThread \/ StreamFails \/ Disconnect \/ QuitLoop
    PROVE  FeedInv'
<1> USE FeedAssumption
    DEF FeedInv, TypeOK, OneSource, AddsAlone, DispatchedIsLive, StopsItsOwn, NoSource
<1>1. ASSUME NEW size \in Sizes, TakeBuffer(size) PROVE FeedInv'
  BY <1>1 DEF TakeBuffer, Sizes
<1>2. CASE NeedData
  BY <1>2 DEF NeedData
<1>3. ASSUME NEW id \in SourceIds, AddSource(id) PROVE FeedInv'
  <2>1. live = {}
    BY <1>3 DEF AddSource
  <2>2. live' = {id} /\ added' = id /\ stream' = "store" /\ loop \notin {"remove", "clear"}
    BY <1>3, <2>1 DEF AddSource
  <2> QED BY <1>3, <2>1, <2>2 DEF AddSource
<1>4. CASE StoreSource
  BY <1>4 DEF StoreSource
<1>5. CASE WaitForData
  BY <1>5 DEF WaitForData
<1>6. CASE StreamFails
  BY <1>6 DEF StreamFails
<1>7. CASE Disconnect
  BY <1>7 DEF Disconnect
<1>8. CASE QuitLoop
  BY <1>8 DEF QuitLoop
<1> QED
  BY <1>1, <1>2, <1>3, <1>4, <1>5, <1>6, <1>7, <1>8 DEF streamingThread

(* The main loop. *)
LEMMA LoopKeepsFeed ==
    ASSUME FeedInv, mainLoop
    PROVE  FeedInv'
<1> USE FeedAssumption
    DEF FeedInv, TypeOK, OneSource, AddsAlone, DispatchedIsLive, StopsItsOwn, NoSource
<1>1. CASE Dispatch
  BY <1>1 DEF Dispatch
<1>2. CASE PushRefused
  BY <1>2 DEF PushRefused
<1>3. CASE PushAccepted
  BY <1>3 DEF PushAccepted
<1>4. CASE EnoughData
  BY <1>4 DEF EnoughData
<1>5. CASE RemoveSource
  BY <1>5 DEF RemoveSource
<1>6. CASE ClearSource
  BY <1>6 DEF ClearSource
<1>7. ASSUME NEW size \in Sizes, AppendBuffer(size) PROVE FeedInv'
  <2>1. queue' \in 0..QueueCap /\ bytes' \in 0..queue'
    BY <1>7 DEF AppendBuffer, UpToCap, Sizes
  <2> QED BY <1>7, <2>1 DEF AppendBuffer
<1> QED
  BY <1>1, <1>2, <1>3, <1>4, <1>5, <1>6, <1>7 DEF mainLoop

LEMMA FeedStutters ==
    ASSUME FeedInv, UNCHANGED vars
    PROVE  FeedInv'
BY DEF FeedInv, TypeOK, OneSource, AddsAlone, DispatchedIsLive, StopsItsOwn, vars

----------------------------------------------------------------------------
(* The frames. *)
LEMMA InitFrames ==
    ASSUME Frames!Init
    PROVE  Frames!TypeOK /\ NoFrameIsAhead
<1>1. Frames!NoFrame \in [serial : 0..MaxFrames, kind : Frames!Kinds]
  BY StreamAssumption DEF Frames!NoFrame, Frames!Kinds
<1>2. Frames!TypeOK
  <2>1. 0 \in 0..MaxFrames
    BY StreamAssumption
  <2> QED BY <1>1, <2>1, Zenon DEF Frames!Init, Frames!TypeOK
<1>3. NoFrameIsAhead
  BY DEF Frames!Init, NoFrameIsAhead, Frames!NoFrame
<1> QED BY <1>2, <1>3

(* A new frame has the next number; no other step renumbers one. *)
LEMMA ReceivingKeepsFrames ==
    ASSUME Frames!TypeOK, NoFrameIsAhead, Frames!slotLastFrameChanged
    PROVE  Frames!TypeOK' /\ NoFrameIsAhead'
<1> USE StreamAssumption
    DEF Frames!TypeOK, NoFrameIsAhead, Frames!slotVars, Frames!pipeVars, Frames!feedVars
<1>1. ASSUME NEW kind \in Frames!Kinds, Frames!ReplaceFrame(kind)
      PROVE  Frames!TypeOK' /\ NoFrameIsAhead'
  BY <1>1 DEF Frames!ReplaceFrame
<1>2. CASE Frames!LeaveSlot
  BY <1>2 DEF Frames!LeaveSlot
<1>3. CASE Frames!DescribeFrame
  BY <1>3 DEF Frames!DescribeFrame
<1>4. CASE Frames!connectToSource
  BY <1>4 DEF Frames!connectToSource
<1> QED
  BY <1>1, <1>2, <1>3, <1>4 DEF Frames!slotLastFrameChanged

LEMMA FeedingKeepsFrames ==
    ASSUME Frames!TypeOK, NoFrameIsAhead, Frames!callbackPushData
    PROVE  Frames!TypeOK' /\ NoFrameIsAhead'
<1> USE DEF Frames!TypeOK, NoFrameIsAhead, Frames!slotVars, Frames!pipeVars
<1>1. CASE Frames!getImageData
  BY <1>1 DEF Frames!getImageData
<1>2. CASE Frames!CopyCurrent
  BY <1>2 DEF Frames!CopyCurrent
<1>3. CASE Frames!CopyFreed
  BY <1>3 DEF Frames!CopyFreed, Frames!Garbage
<1> QED
  BY <1>1, <1>2, <1>3 DEF Frames!callbackPushData

LEMMA FramesStutter ==
    ASSUME Frames!TypeOK, NoFrameIsAhead, UNCHANGED frameVars
    PROVE  Frames!TypeOK' /\ NoFrameIsAhead'
BY DEF Frames!TypeOK, NoFrameIsAhead, frameVars

----------------------------------------------------------------------------
(* The composition: each of its steps is one of each part, or leaves it.   *)
IInv == FeedInv /\ Frames!TypeOK /\ NoFrameIsAhead

LEMMA StepSplits ==
    ASSUME [StreamNext]_streamVars
    PROVE  /\ \/ streamingThread \/ StreamFails \/ Disconnect \/ QuitLoop
              \/ mainLoop \/ UNCHANGED vars
           /\ Frames!slotLastFrameChanged \/ Frames!callbackPushData \/ UNCHANGED frameVars
<1>1. CASE Streaming
  BY <1>1 DEF Streaming
<1>2. CASE feedingThread
  <2>1. FetchedSize \in Sizes
    BY DEF FetchedSize, Sizes
  <2> QED
    BY <1>2, <2>1
    DEF feedingThread, FetchFrame, CopyFrame, PushFrame, mainLoop, Frames!callbackPushData
<1>3. CASE ReceiveFrame
  BY <1>3 DEF ReceiveFrame
<1>4. CASE UNCHANGED streamVars
  BY <1>4 DEF streamVars
<1> QED
  BY <1>1, <1>2, <1>3, <1>4 DEF StreamNext

LEMMA Invariance == StreamSpec => []IInv
<1>1. StreamInit => IInv
  BY InitFeed, InitFrames DEF StreamInit, IInv
<1>2. IInv /\ [StreamNext]_streamVars => IInv'
  <2> SUFFICES ASSUME IInv, [StreamNext]_streamVars
               PROVE  IInv'
    OBVIOUS
  <2>1. FeedInv'
    BY StepSplits, StreamingKeepsFeed, LoopKeepsFeed, FeedStutters DEF IInv
  <2>2. Frames!TypeOK' /\ NoFrameIsAhead'
    BY StepSplits, ReceivingKeepsFrames, FeedingKeepsFrames, FramesStutter DEF IInv
  <2> QED BY <2>1, <2>2 DEF IInv
<1> QED BY <1>1, <1>2, PTL DEF StreamSpec

(* Every variable of the two parts keeps its type, together with the other *)
(* part and at every bound.                                                *)
THEOREM TypeCorrect == StreamSpec => []StreamTypeOK
<1>1. IInv => StreamTypeOK
  BY DEF IInv, FeedInv, StreamTypeOK
<1> QED BY <1>1, Invariance, PTL

(* callbackStartFeed and callbackStopFeed share sourceId without a lock;   *)
(* however they overlap, at most one source feeds the pipeline, and the    *)
(* one that is removed is there and is the one being dispatched.           *)
THEOREM OneSourceFeeds == StreamSpec => []OneSource
<1>1. IInv => OneSource
  BY DEF IInv, FeedInv
<1> QED BY <1>1, Invariance, PTL

(* callbackPushData copies the frame after the lock is gone; what it       *)
(* pushes is no older than what it pushed before, unless it is garbage.    *)
THEOREM VideoNeverGoesBack == StreamSpec => FramesInOrder
<1>1. IInv /\ [StreamNext]_streamVars =>
        [pushed'.serial < pushed.serial => pushed' = Frames!Garbage]_streamVars
  <2> SUFFICES ASSUME IInv, [StreamNext]_streamVars, pushed'.serial < pushed.serial
               PROVE  pushed' = Frames!Garbage
    OBVIOUS
  <2>1. pushed' \in {pushed, fetched, Frames!Garbage}
    BY StepSplits
    DEF Frames!slotLastFrameChanged, Frames!ReplaceFrame, Frames!LeaveSlot,
        Frames!DescribeFrame, Frames!connectToSource, Frames!callbackPushData,
        Frames!getImageData, Frames!CopyCurrent, Frames!CopyFreed,
        Frames!slotVars, Frames!pipeVars, Frames!feedVars, frameVars
  <2>2. pushed.serial \in Int /\ fetched.serial \in Int /\ pushed.serial <= fetched.serial
    BY DEF IInv, NoFrameIsAhead
  <2> QED BY <2>1, <2>2
<1> QED BY <1>1, Invariance, PTL DEF StreamSpec, FramesInOrder

----------------------------------------------------------------------------
(* The safety part of FeedNeverStalls: the streaming thread and the main   *)
(* loop never wait for each other.  A thread that is told to wait for data *)
(* has a source that is attached, or the loop is past removing the last    *)
(* one and about to append the buffer that wakes it.                       *)
WaiterIsFed ==
    stream \in {"needed", "waiting"} /\ queue = 0 => live # {} \/ loop \in {"clear", "append"}

(* It was let wait because it attached a source or found one named: until  *)
(* the pipeline is flushed, which ends the thread, the named source is     *)
(* attached, except between its removal and the clearing of its id.        *)
NamedIsAttached ==
    /\ flushing => stream = "dead"
    /\ stream = "store" => added \in live
    /\ sourceId # NoSource /\ ~flushing => sourceId \in live \/ loop = "clear"

LEMMA StreamingKeepsFed ==
    ASSUME FeedInv, NamedIsAttached, WaiterIsFed,
           streamingThread \/ StreamFails \/ Disconnect \/ QuitLoop
    PROVE  NamedIsAttached' /\ WaiterIsFed'
<1> USE DEF NamedIsAttached, WaiterIsFed, NoSource
<1>1. ASSUME NEW size \in Sizes, TakeBuffer(size)
      PROVE  NamedIsAttached' /\ WaiterIsFed'
  BY <1>1 DEF TakeBuffer
<1>2. CASE NeedData
  BY <1>2 DEF NeedData
<1>3. ASSUME NEW id \in SourceIds, AddSource(id)
      PROVE  NamedIsAttached' /\ WaiterIsFed'
  BY <1>3 DEF AddSource, FeedInv, AddsAlone
<1>4. CASE StoreSource
  BY <1>4 DEF StoreSource
<1>5. CASE WaitForData
  BY <1>5 DEF WaitForData
<1>6. CASE StreamFails
  BY <1>6 DEF StreamFails
<1>7. CASE Disconnect
  BY <1>7 DEF Disconnect
<1>8. CASE QuitLoop
  BY <1>8 DEF QuitLoop
<1> QED
  BY <1>1, <1>2, <1>3, <1>4, <1>5, <1>6, <1>7, <1>8 DEF streamingThread

LEMMA LoopKeepsFed ==
    ASSUME FeedInv, NamedIsAttached, WaiterIsFed, mainLoop
    PROVE  NamedIsAttached' /\ WaiterIsFed'
<1> USE DEF NamedIsAttached, WaiterIsFed, NoSource
<1>1. CASE Dispatch
  BY <1>1 DEF Dispatch
<1>2. CASE PushRefused
  BY <1>2 DEF PushRefused
<1>3. CASE PushAccepted
  BY <1>3 DEF PushAccepted
<1>4. CASE EnoughData
  BY <1>4 DEF EnoughData
<1>5. CASE RemoveSource
  BY <1>5 DEF RemoveSource, FeedInv, AddsAlone, StopsItsOwn
<1>6. CASE ClearSource
  BY <1>6 DEF ClearSource
<1>7. ASSUME NEW size \in Sizes, AppendBuffer(size)
      PROVE  NamedIsAttached' /\ WaiterIsFed'
  <2>1. queue \in 0..QueueCap /\ queue' > 0
    BY <1>7, FeedAssumption DEF AppendBuffer, UpToCap, FeedInv, TypeOK
  <2> QED BY <1>7, <2>1 DEF AppendBuffer
<1> QED
  BY <1>1, <1>2, <1>3, <1>4, <1>5, <1>6, <1>7 DEF mainLoop

(* However callbackStartFeed and callbackStopFeed overlap, the streaming   *)
(* thread is never left waiting without a source or a buffer on its way.   *)
THEOREM NoThreadWaitsAlone == StreamSpec => []WaiterIsFed
<1>1. StreamInit => NamedIsAttached /\ WaiterIsFed
  BY DEF StreamInit, Init, NamedIsAttached, WaiterIsFed
<1>2. IInv /\ NamedIsAttached /\ WaiterIsFed /\ [StreamNext]_streamVars
        => NamedIsAttached' /\ WaiterIsFed'
  <2> SUFFICES ASSUME IInv, NamedIsAttached, WaiterIsFed, [StreamNext]_streamVars
               PROVE  NamedIsAttached' /\ WaiterIsFed'
    OBVIOUS
  <2>1. CASE UNCHANGED vars
    BY <2>1 DEF vars, NamedIsAttached, WaiterIsFed
  <2> QED BY <2>1, StepSplits, StreamingKeepsFed, LoopKeepsFed DEF IInv
<1> QED BY <1>1, <1>2, Invariance, PTL DEF StreamSpec
=============================================================================

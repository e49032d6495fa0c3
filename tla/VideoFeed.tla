----------------------------- MODULE VideoFeed -----------------------------
(***************************************************************************)
(* VideoGenerator feeding its pipeline.  Two threads share sourceId of     *)
(* SDataForTransfer without a lock:                                        *)
(*                                                                         *)
(*   - the pipeline's streaming thread takes buffers out of appsrc's queue *)
(*     and, finding it empty, emits need-data: callbackStartFeed adds an   *)
(*     idle source to the main loop if sourceId is 0;                      *)
(*   - the GLib main loop runs that source: callbackPushData pushes one    *)
(*     buffer; when appsrc finds its queue full it first emits enough-data *)
(*     on this thread: callbackStopFeed removes the source and clears      *)
(*     sourceId.                                                           *)
(*                                                                         *)
(* A queue is empty when it has no buffers, and full when it has so many   *)
(* bytes: the buffer of an empty frame has none.  A buffer with bytes      *)
(* counts as one, and the order of the buffers is forgotten.               *)
(*                                                                         *)
(* appsrc and the main loop are GStreamer's and GLib's; they are modelled  *)
(* from how the callbacks depend on them.                                  *)
(***************************************************************************)
EXTENDS Integers, FiniteSets

CONSTANTS QueueLimit,   \* bytes at which appsrc counts as full
          QueueCap,     \* a longer queue counts as this long
          SourceIds     \* ids g_idle_add may return

ASSUME FeedAssumption ==
    /\ QueueLimit \in Nat \ {0} /\ QueueCap \in Nat
    /\ QueueCap > QueueLimit + 1
    /\ SourceIds \subseteq Nat \ {0}

NoSource == 0

VARIABLES
    queue,       \* buffers in appsrc
    bytes,       \* those of them that have bytes
    flushing,    \* the pipeline was set to NULL: pushes are refused
    stream,      \* where the streaming thread is
    added,       \* the id g_idle_add returned to callbackStartFeed
    live,        \* idle sources attached to the main loop
    loop,        \* where the main loop's thread is
    running,     \* the source it dispatches, or NoSource
    sourceId     \* SDataForTransfer::sourceId

vars == <<queue, bytes, flushing, stream, added, live, loop, running, sourceId>>

(* connectToSource: callbacks connected, pipeline playing, loop started. *)
Init ==
    /\ queue = 0 /\ bytes = 0 /\ flushing = FALSE
    /\ stream = "create" /\ added = NoSource
    /\ live = {} /\ loop = "poll" /\ running = NoSource
    /\ sourceId = NoSource

----------------------------------------------------------------------------
(* The streaming thread. *)
TakeBuffer(size) ==
    /\ stream = "create" /\ queue > 0
    /\ queue' = queue - 1
    /\ bytes' = bytes - size /\ bytes' \in 0..queue'
    /\ UNCHANGED <<flushing, stream, added, live, loop, running, sourceId>>

(* An empty queue: need-data calls callbackStartFeed. *)
NeedData ==
    /\ stream = "create" /\ queue = 0
    /\ stream' = IF sourceId = NoSource THEN "add" ELSE "needed"
    /\ UNCHANGED <<queue, bytes, flushing, added, live, loop, running, sourceId>>

AddSource_twice(id) ==
    /\ stream = "add"
    /\ id \notin live \cup {sourceId, running}
    /\ live' = live \cup {id}
    /\ added' = id
    /\ stream' = "needed"
    /\ UNCHANGED <<queue, bytes, flushing, loop, running, sourceId>>
AddSource(id) ==
    /\ stream = "add"
    /\ id \notin live \cup {sourceId, running}
    /\ live' = live \cup {id}
    /\ added' = id
    /\ stream' = "store"
    /\ UNCHANGED <<queue, bytes, flushing, loop, running, sourceId>>

StoreSource ==
    /\ stream = "store"
    /\ sourceId' = added
    /\ added' = NoSource
    /\ stream' = "needed"
    /\ UNCHANGED <<queue, bytes, flushing, live, loop, running>>

(* Back in appsrc: wait until a push finds the thread waiting. *)
WaitForData ==
    /\ stream = "needed"
    /\ stream' = IF queue = 0 THEN "waiting" ELSE "create"
    /\ UNCHANGED <<queue, bytes, flushing, added, live, loop, running, sourceId>>

(* Downstream fails: the task pauses, the error is logged from the bus.    *)
StreamFails ==
    /\ stream = "create" /\ stream' = "dead"
    /\ UNCHANGED <<queue, bytes, flushing, added, live, loop, running, sourceId>>

Sizes == {0, 1}

streamingThread == \/ \E size \in Sizes : TakeBuffer(size)
                   \/ NeedData \/ StoreSource \/ WaitForData
                   \/ \E id \in SourceIds : AddSource(id)

----------------------------------------------------------------------------
(* The main loop.  callbackPushData builds a buffer and pushes it. *)
Dispatch ==
    /\ loop = "poll"
    /\ running' \in live
    /\ loop' = "push"
    /\ UNCHANGED <<queue, bytes, flushing, stream, added, live, sourceId>>

Full_late == bytes > QueueCap
Full == bytes >= QueueLimit

(* appsrc refuses the buffer: callbackPushData returns FALSE and GLib      *)
(* destroys the source, whose id stays in sourceId.                        *)
PushRefused ==
    /\ loop \in {"push", "append"} /\ flushing
    /\ live' = live \ {running}
    /\ loop' = "poll" /\ running' = NoSource
    /\ UNCHANGED <<queue, bytes, flushing, stream, added, sourceId>>

PushAccepted ==
    /\ loop = "push" /\ ~flushing
    /\ loop' = IF Full THEN "enough" ELSE "append"
    /\ UNCHANGED <<queue, bytes, flushing, stream, added, live, running, sourceId>>

(* enough-data calls callbackStopFeed. *)
EnoughData ==
    /\ loop = "enough"
    /\ loop' = IF sourceId # NoSource THEN "remove" ELSE "append"
    /\ UNCHANGED <<queue, bytes, flushing, stream, added, live, running, sourceId>>

RemoveSource ==
    /\ loop = "remove"
    /\ live' = live \ {sourceId}
    /\ loop' = "clear"
    /\ UNCHANGED <<queue, bytes, flushing, stream, added, running, sourceId>>

ClearSource_forgotten ==
    /\ loop = "clear" /\ loop' = "append"
    /\ UNCHANGED <<queue, bytes, flushing, stream, added, live, running, sourceId>>
ClearSource_toMinusOne ==
    /\ loop = "clear"
    /\ sourceId' = -1
    /\ loop' = "append"
    /\ UNCHANGED <<queue, bytes, flushing, stream, added, live, running>>
ClearSource ==
    /\ loop = "clear"
    /\ sourceId' = NoSource
    /\ loop' = "append"
    /\ UNCHANGED <<queue, bytes, flushing, stream, added, live, running>>

(* appsrc takes the buffer and wakes the streaming thread; the callback    *)
(* returns TRUE.                                                           *)
UpToCap(n) == IF n <= QueueCap THEN n ELSE QueueCap

AppendBuffer(size) ==
    /\ loop = "append" /\ ~flushing
    /\ queue' = UpToCap(queue + 1) /\ bytes' = UpToCap(bytes + size)
    /\ stream' = IF stream = "waiting" THEN "create" ELSE stream
    /\ loop' = "poll" /\ running' = NoSource
    /\ UNCHANGED <<flushing, added, live, sourceId>>

mainLoop == \/ Dispatch \/ PushRefused \/ PushAccepted \/ EnoughData
            \/ RemoveSource \/ ClearSource
            \/ \E size \in Sizes : AppendBuffer(size)

(* disconnectFromSource sets the pipeline to NULL, which ends the          *)
(* streaming thread outside its callbacks and flushes appsrc.              *)
Disconnect ==
    /\ ~flushing /\ stream \in {"create", "waiting", "dead"}
    /\ flushing' = TRUE /\ stream' = "dead" /\ queue' = 0 /\ bytes' = 0
    /\ UNCHANGED <<added, live, loop, running, sourceId>>

(* Then it quits the main loop, which ends where it would poll again, with  *)
(* or without the source, and joins its thread.                             *)
QuitLoop ==
    /\ flushing /\ loop = "poll"
    /\ loop' = "ended"
    /\ UNCHANGED <<queue, bytes, flushing, stream, added, live, running, sourceId>>

Next == streamingThread \/ mainLoop \/ StreamFails \/ Disconnect \/ QuitLoop

Spec == Init /\ [][Next]_vars

----------------------------------------------------------------------------
TypeOK ==
    /\ queue \in 0..QueueCap /\ bytes \in 0..queue /\ flushing \in BOOLEAN
    /\ stream \in {"create", "add", "store", "needed", "waiting", "dead"}
    /\ added \in SourceIds \cup {NoSource}
    /\ live \subseteq SourceIds
    /\ loop \in {"poll", "push", "enough", "remove", "clear", "append", "ended"}
    /\ running \in SourceIds \cup {NoSource}
    /\ sourceId \in SourceIds \cup {NoSource}

(* The pipeline is never fed by two sources, which would double its frame  *)
(* rate: however the two callbacks overlap, the only source attached is    *)
(* the one sourceId names or the one callbackStartFeed is about to name.   *)
(* So callbackStopFeed removes a source that exists (GLib complains        *)
(* otherwise), and it is the one this thread is dispatching.               *)
OneSource ==
    /\ live \subseteq {IF stream = "store" THEN added ELSE sourceId}
    /\ loop = "remove" => sourceId = running /\ running \in live
=============================================================================

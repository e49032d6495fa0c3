---------------------------- MODULE VideoStream ----------------------------
(***************************************************************************)
(* The drone's video from the radio to the network: ImageFromDrone and the *)
(* VideoGenerator together.  The first frame that decodes makes            *)
(* DroneClient connect the generator; from then on its pipeline asks for   *)
(* data, its main loop fetches the current frame, copies it and pushes the *)
(* copy, while frames keep coming.                                         *)
(*                                                                         *)
(* VideoFeed is the feed of the pipeline, Frames the way of the frames.    *)
(* They meet in callbackPushData: the dispatched source calls getImageData *)
(* and pushes when its copy is made.                                       *)
(***************************************************************************)
EXTENDS VideoFeed

CONSTANT MaxFrames   \* bound on the frames received

ASSUME StreamAssumption == MaxFrames \in Nat

VARIABLES m_droneCurrentFrame, m_frameDescr, m_widthViaOpenCV, slot,
          pipeline, declared, feed, fetched, pushed, crashed

Frames == INSTANCE DroneFrames

frameVars == <<m_droneCurrentFrame, m_frameDescr, m_widthViaOpenCV, slot,
               pipeline, declared, feed, fetched, pushed, crashed>>
streamVars == <<vars, frameVars>>

StreamInit == Init /\ Frames!Init

(* The pipeline's threads exist once it is built, and end with the process. *)
Playing == pipeline = "playing" /\ ~crashed

Streaming == /\ Playing /\ (streamingThread \/ StreamFails \/ Disconnect \/ QuitLoop)
             /\ UNCHANGED frameVars

(* callbackPushData: fetch, copy, push.  The buffer is as large as the     *)
(* fetched frame, whatever the copy found there.                           *)
FetchedSize == IF fetched.kind = "empty" THEN 0 ELSE 1
FetchFrame == Dispatch /\ Frames!getImageData
CopyFrame == (Frames!CopyCurrent \/ Frames!CopyFreed) /\ UNCHANGED vars
PushFrame ==
    /\ Playing /\ feed = "idle"
    /\ \/ PushRefused \/ PushAccepted
       \/ EnoughData \/ RemoveSource \/ ClearSource
       \/ AppendBuffer(FetchedSize)
    /\ UNCHANGED frameVars
feedingThread == FetchFrame \/ CopyFrame \/ PushFrame

ReceiveFrame == Frames!slotLastFrameChanged /\ UNCHANGED vars

StreamNext == Streaming \/ feedingThread \/ ReceiveFrame

StreamSpec == StreamInit /\ [][StreamNext]_streamVars

(* The pipeline's threads run, and the slot runs to its end; frames need   *)
(* not come, and nothing has to fail.                                      *)
StreamFairSpec ==
    /\ StreamSpec
    /\ WF_streamVars(Playing /\ streamingThread /\ UNCHANGED frameVars)
    /\ WF_streamVars(feedingThread)
    /\ WF_streamVars((Frames!LeaveSlot \/ Frames!DescribeFrame \/ Frames!connectToSource)
                     /\ UNCHANGED vars)

----------------------------------------------------------------------------
StreamTypeOK == TypeOK /\ Frames!TypeOK

(* A good frame starts the video: however many worthless ones came before, *)
(* a picture is pushed, unless the pipeline could not be built or failed,  *)
(* or the process ended.  It takes five hand-overs: the slot, the signal,  *)
(* need-data, the idle source and the copy.                                *)
VideoStarts ==
    m_droneCurrentFrame.kind = "good" ~>
        pushed # Frames!NoFrame \/ pipeline = "failed" \/ stream = "dead" \/ crashed

(* A streaming thread that waits for data gets it: a need-data that found  *)
(* sourceId already removed but not yet cleared, and was ignored, is made  *)
(* up for by the buffer that the same push appends.                        *)
FeedNeverStalls == stream = "waiting" ~> stream # "waiting" \/ crashed

(* A feed whose consumer is gone comes to rest: nothing pushes buffers     *)
(* into a queue that nobody empties.  Only if the frame that stays is      *)
(* empty it does not: its buffers have no bytes, the queue never counts as *)
(* full, and they are pushed until the loop ends.                          *)
DeadConsumerStopsFeed ==
    stream = "dead" ~> \/ [](live = {})
                       \/ crashed \/ loop = "ended"
                       \/ [](m_droneCurrentFrame.kind = "empty")

(* The video never goes back to an older frame, although the copy is made  *)
(* outside the lock: what a late copy reads is the frame fetched last, or  *)
(* garbage.                                                                *)
FramesInOrder ==
    [][pushed'.serial < pushed.serial => pushed' = Frames!Garbage]_streamVars

(* Frames stop at MaxFrames.  A copy that raced with the last of them is   *)
(* made up for: the frame that stays is the one that is streamed, however  *)
(* often the feed was stopped and started in between.                      *)
LastFrameIsStreamed ==
    <>[](Playing /\ stream # "dead" => pushed = m_droneCurrentFrame)
=============================================================================

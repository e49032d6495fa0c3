SPECIFICATION StreamFairSpec
CONSTANTS
    QueueLimit = 2
    QueueCap = 4
    SourceIds = {1, 2, 3}
    MaxFrames = 4
INVARIANTS
    StreamTypeOK
    OneSource
PROPERTIES
    VideoStarts
    FeedNeverStalls
    DeadConsumerStopsFeed
    FramesInOrder
    LastFrameIsStreamed
CHECK_DEADLOCK FALSE

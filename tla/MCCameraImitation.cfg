SPECIFICATION FairSpec
CONSTANTS
    Angles <- MCAngles
    ZoomLimit = 3
    OnTime = 1
    OffTime = 0
    Unset = Unset
INVARIANTS
    TypeOK
    CameraOnScale
    PublishedAgrees
PROPERTIES
    RequestIsReached

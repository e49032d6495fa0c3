SPECIFICATION Spec
CONSTANTS
    Angles <- MCAngles
    ZoomLimit = 3
    OnTime = 1
    OffTime = 0
    Unset = Unset
PROPERTIES
    StopKeepsZoom

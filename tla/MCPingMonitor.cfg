SPECIFICATION FairSpec
CONSTANTS
    Timeout = 5
    MaxLag = 1
    MinPeriod = 2
    Cap = 10
INVARIANTS
    TypeOK
    NoPhantomPing
    NoMissedPing
    PublishedAgrees
PROPERTIES
    ImplementsLink
    PingingStaysOnline
    SilentGoesOffline

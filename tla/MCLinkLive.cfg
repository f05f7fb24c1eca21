SPECIFICATION FairSpec
CONSTANTS
    ReadCap = 2
    FreeThreshold = 1
    LineCap = 1
    Frags <- TwoFragments
    PeerKinds <- TwoFrames
    Faults = {"loss"}
    MaxFaults = 1
    Early = {}
PROPERTIES
    EveryMessageCompletes
    EveryFrameReceived
INVARIANT
    StreamDataIntact
CHECK_DEADLOCK FALSE

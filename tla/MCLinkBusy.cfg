SPECIFICATION FairSpec
CONSTANTS
    ReadCap = 2
    FreeThreshold = 1
    LineCap = 1
    Frags <- OneFrame
    PeerKinds <- NoFrames
    Faults = {"loss", "busy"}
    MaxFaults = 2
    Early = {}
PROPERTY
    EveryMessageCompletes
CHECK_DEADLOCK FALSE

SPECIFICATION Spec
CONSTANTS
    ReadCap = 2
    FreeThreshold = 1
    LineCap = 1
    Frags <- TwoShort
    PeerKinds <- NoFrames
    Faults = {"restart"}
    MaxFaults = 1
    Early = {"T2"}
INVARIANT
    CompletedWasTaken
CHECK_DEADLOCK FALSE

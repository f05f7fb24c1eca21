SPECIFICATION Spec
CONSTANTS
    ReadCap = 2
    FreeThreshold = 1
    LineCap = 1
    Frags <- TwoFragments
    PeerKinds <- OnePeerFrame
    Faults = {"loss", "restart", "reset", "busy"}
    MaxFaults = 2
    Early = {"T2"}
INVARIANTS
    LinkTypeOK
    FramesInOrder
    AckedFramesWereTaken
    ResendScheduled
    NoLostWakeUp
    AckHasContext
    CompletedUnlessRestarted
CHECK_DEADLOCK FALSE

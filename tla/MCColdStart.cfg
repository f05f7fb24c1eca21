SPECIFICATION Spec
CONSTANTS
  Apps = {a1}
  NoOrigin = NoOrigin
  MaxRequests = 2
  MaxRestarts = 1
  QBytes = 140
  CreateCanFail = TRUE
  InitialIds = {}
  Garbage <- MCGarbage
INVARIANT TypeOK
INVARIANT ChannelContract
INVARIANT CoreStopsOnlyAfterBlindRead
INVARIANT AckCausality
INVARIANT AckConservation
PROPERTY AckAtMostOnce
PROPERTY ImplementsAckService
CHECK_DEADLOCK FALSE

SPECIFICATION FairSpec
CONSTANTS
  Apps = {a1, a2}
  NoOrigin = NoOrigin
  MaxRequests = 2
  MaxRestarts = 0
  QBytes = 1000
  CreateCanFail = FALSE
  InitialIds <- Keys
  Garbage <- MCUnsendable
INVARIANTS AckConservation WaitersCovered
PROPERTY EveryCallReturns
PROPERTY DeviceCatchesUp
CHECK_DEADLOCK FALSE

SPECIFICATION Spec
CONSTANTS
  Apps = {a1}
  NoOrigin = NoOrigin
  MaxRequests = 2
  MaxRestarts = 0
  QBytes = 140
  CreateCanFail = FALSE
  InitialIds <- Keys
  Garbage <- MCUnsendable
INVARIANT BoardAckIsFromBoard
CHECK_DEADLOCK FALSE

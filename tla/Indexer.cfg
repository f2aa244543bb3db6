SPECIFICATION Spec
CONSTANTS
  MaxHeight = 4
  MaxTxs = 2
  MaxRequests = 2
  MaxCrashes = 2
CHECK_DEADLOCK FALSE
INVARIANTS
  DBNeverAhead
  OnlyLostBlocksMissing
  StatusAgrees
  PanicHasCause
  PoisonOnlyIfSkipped

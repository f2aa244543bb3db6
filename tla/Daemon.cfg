SPECIFICATION FairSpec
CONSTANTS
  KeyList <- TwoKeys
  Transactions <- SomeTransactions
  MaxRestarts = 1
  MaxDrops = 1
CHECK_DEADLOCK FALSE
INVARIANTS
  KeysConserved
  RejectedOnlyAfterAbandon
  ReportsComplete
PROPERTIES
  EveryRequestHandled

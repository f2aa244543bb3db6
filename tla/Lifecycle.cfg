SPECIFICATION Spec
CONSTANTS
  Validators = {v1, v2}
  Accounts = {a1}
  RawRequestLists <- SomeSources
  MaxRawRequestCount = 2
  MaxAskCount = 2
  ExpirationBlockCount = 2
  MaxConsecutiveMisses = 1
  StakingMoves <- NoMoves
  MaxRequests = 2
  MaxMinCount = 3
  MaxHeight = 4
SYMMETRY Symmetry
INVARIANTS
  TypeOK
  PendingConsistent
  EnoughReportsResolve
  ExpiredHaveResult
  ExpiryIsTimely
  EarlyReportsAreCounted
  ResponsesInOrder
  UnanswerableOnlyExpires
PROPERTIES
  FinalResultStable

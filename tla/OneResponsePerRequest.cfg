SPECIFICATION Spec
CONSTANTS
  Validators = {v1, v2}
  Accounts = {}
  RawRequestLists <- OneSource
  MaxRawRequestCount = 1
  MaxAskCount = 2
  ExpirationBlockCount = 2
  MaxConsecutiveMisses = 1
  StakingMoves <- NoMoves
  MaxRequests = 1
  MaxMinCount = 3
  MaxHeight = 4
INVARIANTS
  OneResponsePerRequest

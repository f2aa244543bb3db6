SPECIFICATION FairSpec
CONSTANTS
  Validators = {v1, v2}
  Accounts = {}
  RawRequestLists <- OneSource
  MaxRawRequestCount = 1
  MaxAskCount = 2
  ExpirationBlockCount = 1
  MaxConsecutiveMisses = 1
  StakingMoves <- NoMoves
  MaxRequests = 2
  MaxMinCount = 2
  MaxHeight = 3
PROPERTIES
  EveryRequestAnswered
  ImplementsLifecycle

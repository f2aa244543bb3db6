SPECIFICATION GenesisSpec
CONSTANTS
  Validators = {v1}
  Accounts = {}
  RawRequestLists <- OneSource
  MaxRawRequestCount = 1
  MaxAskCount = 1
  ExpirationBlockCount = 1
  MaxConsecutiveMisses = 1
  StakingMoves <- NoMoves
  MaxRequests = 3
  MaxMinCount = 1
  MaxHeight = 3
CHECK_DEADLOCK FALSE
INVARIANTS
  NoResultBeforeRequest
PROPERTIES
  ResultsKeepIDs

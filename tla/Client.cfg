SPECIFICATION FairSpec
CONSTANTS
  Calls <- MCCalls
  Gas <- MCGas
  MsgCap = 2
  MaximumMsgPerTx = 2
INVARIANTS
  AnswersAreTrue
  GasCoversMessages
PROPERTIES
  EveryCallReturns
CHECK_DEADLOCK FALSE

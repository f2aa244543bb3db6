SPECIFICATION FairSpec
CONSTANTS
  Validators <- MCValidators
  ValidatorSets <- MCValidatorSets
  Requests = {1, 2}
  Executions <- MCExecutions
  InitialLists <- MCInitialLists
  OwnerLists <- MCOwnerLists
  PageSize = 2
  MaxHeight = 3
  MaxOwnerUpdates = 1
INVARIANTS
  CurrentPowersSuffice
  LastOfBlockProved
PROPERTIES
  PowersCatchUp

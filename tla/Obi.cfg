SPECIFICATION Spec
CONSTANTS
  Base = 4
  LengthBytes = 2
  IntegerTokens <- Tokens
  Cases <- AllCases
  ValuesOf <- SmallValues
  MaxValues = 2
CHECK_DEADLOCK FALSE
INVARIANTS
  SchemaParsed
  RoundTrip
  SelfDelimiting
  TruncationNoticed

SPECIFICATION Spec
CONSTANTS
  Ident = {"a"}
  Literal = {"1"}
  MaxExprTokens = 5
  MaxStatParts = 5
INVARIANTS
  RoundTrip
  CutOff
  NothingElse
  FormatKeeps
CHECK_DEADLOCK FALSE

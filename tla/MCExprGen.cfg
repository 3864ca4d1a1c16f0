SPECIFICATION Spec
CONSTANTS
  Bits <- TheBits
  Vars <- TheVars
  Funcs <- TheFuncs
  Lambdas <- TheLambdas
  Programs <- Statements
INVARIANTS ObjectsReady Evaluates AllDestroyed Verified
CHECK_DEADLOCK FALSE

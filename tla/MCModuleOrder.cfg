SPECIFICATION FairSpec
CONSTANTS
  a = a
  b = b
  c = c
  d = d
  MaxImports = 2
  Name <- MCName
  AstsInputs <- MCAsts
  CompiledInputs <- MCCompiled
INVARIANTS TypeOK ImportsFirst ScopesSeeImports
PROPERTIES RefinesPlan Terminates

SPECIFICATION Spec
CONSTANTS
  e1 = e1
  e2 = e2
  Var = {x, y}
  Storage = {s1, s2}
  Elem = {e1, e2}
  Default = Default
  Raw = Raw
  Null = Null
  Dead = Dead
  W = 3
  MaxLen = 3
  Reserves = {5}
  Literals <- MCLiterals
INVARIANTS CellsConstructed ElementsCounted
PROPERTIES GrowthIsLeast BehavesLikeVectors
CHECK_DEADLOCK FALSE

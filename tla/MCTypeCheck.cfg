SPECIFICATION Spec
CONSTANTS
  Prelude <- TypesPrelude
  Stats <- Programs
  MaxStats = 2
INVARIANTS
  AssertionsHold
  OverloadsDistinct
PROPERTIES
  Sound
  Complete
CHECK_DEADLOCK FALSE

SPECIFICATION Spec
CONSTANTS
  a = a
  b = b
  Name = {a, b}
  Kinds = {"func", "closure", "block"}
  MaxScopes = 5
  MaxObjects = 2
  MaxUses = 2
INVARIANTS CapturesAvailable UsesRefer CapturesNeeded
PROPERTIES LookupEnds
CHECK_DEADLOCK FALSE

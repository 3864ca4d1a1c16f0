SPECIFICATION Spec
CONSTANTS
  Programs <- BreakAfterPlain
INVARIANTS ReturnsWhenAccepted
CHECK_DEADLOCK FALSE

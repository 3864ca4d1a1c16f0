SPECIFICATION Spec
CONSTANTS
  Programs <- TidyFunctions
INVARIANTS FollowsSource ReturnsWhenAccepted WellFormed
CHECK_DEADLOCK FALSE

CONSTANTS
  Plans <- SplitPlans
  Nobody = Nobody
SPECIFICATION Spec
INVARIANTS TimeoutFails
CHECK_DEADLOCK FALSE

SPECIFICATION Spec
CONSTANTS
  Worker = {w1, w2}
  Width = 1
  Cap = 2
  TurnMax = 5
  Clock = "input"
  Stateful = TRUE
  MaxTick = 9
  None = None
INVARIANTS
  QueueWithinCap
PROPERTIES
  LaneCloses

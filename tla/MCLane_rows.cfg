SPECIFICATION Spec
CONSTANTS
  Worker = {w1, w2}
  Width = 1
  Cap = 2
  TurnMax = 3
  Clock = "input"
  Stateful = TRUE
  MaxTick = 4
  None = None
INVARIANTS
  HandedEveryRow

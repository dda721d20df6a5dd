SPECIFICATION Spec
CONSTANTS
  Clock = "input"
  Width = 1
  Cap = 3
  TurnMax = 7
  MaxTick = 12
  None = None
  Procs = 4
  Edges = 4
INVARIANTS
  LoopsAreTheForms
  WalkStarts
  RefusedForCause
  EveryStrategyPasses
  SearchKeepsItsCaps
CHECK_DEADLOCK FALSE

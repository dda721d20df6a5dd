SPECIFICATION PairSpec
CONSTANTS
  Worker = {w1, w2, w3}
  Width = 3
  Cap = 3
  TurnMax = 1
  Clock = "input"
  Stateful = TRUE
  MaxTick = 5
  None = None
INVARIANTS
  TypeOK
  LastCallAlone
  HandedEveryRow
  NothingStranded
  OneHandEach
PROPERTIES
  ClaimClosesTheLane
  ImplementsSerialLane
  LaneCloses

SPECIFICATION GroupSpec
CONSTANTS
  Nobody = Nobody
  Cascade = 2
  NoTime = NoTime
  Ports = 1
  Plans <- MCPlans
INVARIANTS CleanMeansClean NothingLeftRunning ChainBlame ToldOnce OneTimeline
PROPERTIES StageEnds LateralTold LateralThreadsEnd
CHECK_DEADLOCK FALSE

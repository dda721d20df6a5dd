CONSTANTS
  Plans <- SplitPlans
  Nobody = Nobody
SPECIFICATION Spec
INVARIANTS CleanMeansClean StagesApart ReportIsWhole
PROPERTY RunEnds
CHECK_DEADLOCK FALSE

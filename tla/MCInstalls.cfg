SPECIFICATION Spec
CONSTANTS
  Installers = {1, 2}
  Worlds <- Several
  Absent = Absent
  Blocks = 2
  Retries = 1
  Runs = 2
INVARIANTS
  NeverTorn
  PinnedIsWhole
PROPERTIES
  InstallEnds
CHECK_DEADLOCK FALSE

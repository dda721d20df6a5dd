SPECIFICATION Spec
CONSTANTS
  Installers = {1, 2}
  Worlds <- Cleared
  Absent = Absent
  Blocks = 2
  Retries = 1
  Runs = 2
PROPERTIES
  InstallPutsBack
CHECK_DEADLOCK FALSE

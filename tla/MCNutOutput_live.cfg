SPECIFICATION Spec
CONSTANTS
  Streams = 2
  Data <- MCFirst
  Live = TRUE
  Every = 2
  Scripts <- MCScripts
  MaxTime = 2
  MaxFrames = 2
  MaxData = 2
INVARIANTS InTimeOrder KeptUp NeverStepsBack
PROPERTIES Closes

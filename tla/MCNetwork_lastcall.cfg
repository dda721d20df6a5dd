SPECIFICATION Spec
CONSTANTS
  w1 = w1
  w2 = w2
  i = i
  a = a
  b = b
  o = o
  p = p
  None = None
  Lane <- MCLane
  Input <- MCInput
  Writer <- One
  Worker <- MCWorker
  Nets <- OnlySink
  TurnMax = 2
INVARIANTS
  LastCallHappens

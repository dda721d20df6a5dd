SPECIFICATION Spec
CONSTANTS
  w1 = w1
  w2 = w2
  i = i
  a = a
  b = b
  o = o
  p = p
  None = None
  Lane <- MCLane
  Input <- MCInput
  Writer <- Two
  Worker <- MCWorker
  Nets <- JoinAndEnc
  TurnMax = 2
INVARIANTS
  WorkIsSeen
  WrittenWhole
  CreditBounds
  FailureSurfaces
PROPERTIES
  EachIsSerial
  Returns

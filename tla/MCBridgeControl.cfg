CONSTANTS
  p1 = p1
  p2 = p2
  c1 = c1
  c2 = c2
  Instances <- MCInstances
  Invocations <- MCInvocations
  Absent = Absent
  Empty = Empty
SPECIFICATION ControlSpec
SYMMETRY Symmetry
INVARIANTS
  StoppedIsGone
  ReadyIsReal
CHECK_DEADLOCK FALSE

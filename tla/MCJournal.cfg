SPECIFICATION Spec
CONSTANTS
  p1 = p1
  p2 = p2
  Procs = {p1, p2}
  Free = Free
  LateDirStamps = FALSE
  SegmentLimit = 2
  MaxAppends = 2
  MaxCrashes = 1
SYMMETRY Symmetric
INVARIANTS
  TypeOK
  ChainIntact
  AckedDurable
  ViewsArePrefixes
  WriterIsCurrent
  NoFalseRefusal
PROPERTY ImplementsEventLog
CHECK_DEADLOCK FALSE

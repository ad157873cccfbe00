SPECIFICATION Spec
CONSTANTS
  a = a
  b = b
  Procs = {a, b}
  Free = Free
  Diagnostic = {1}
  Keep = 1
  MaxLen = 2
  MaxCuts = 2
  MaxJobs = 2
  MaxFaults = 1
SYMMETRY Symmetric
INVARIANTS Recoverable ReadersAreServed
CHECK_DEADLOCK FALSE

SPECIFICATION Spec
CONSTANTS
  p1 = p1
  p2 = p2
  Procs <- One
  MaxRuns = 2
  MaxPlugs = 1
INVARIANT ReleaseReattaches
CHECK_DEADLOCK FALSE

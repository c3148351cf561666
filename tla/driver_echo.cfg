SPECIFICATION Spec
CONSTANTS
  a = a
  b = b
  bad = bad
  Profiles <- OneProfile
  MaxStages = 2
  Count <- OneCount
  Words = {a}
  Corrupt = bad
  Stored <- OneStored
  ReadAttempts = 2
  LinkCap = 3
  MaxChanges = 0
  MaxRepeats = 1
  MaxRuns = 1
INVARIANT ReadbackIsNoEcho
CHECK_DEADLOCK FALSE

SPECIFICATION MCSpec
CONSTANTS
  a = a
  b = b
  bad = bad
  Profiles <- TwoProfiles
  MaxStages = 2
  Count <- TwoCounts
  Words = {a, b}
  Corrupt = bad
  Stored <- OneMayBeBad
  ReadAttempts = 2
  LinkCap = 3
  MaxChanges = 2
  MaxRepeats = 0
  MaxRuns = 2
INVARIANTS SuccessSound StableBeforeWrite ChecksFresh
PROPERTY LateRunsEnd
CHECK_DEADLOCK FALSE

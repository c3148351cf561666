SPECIFICATION MCSpec
CONSTANTS
  t1 = t1
  t2 = t2
  t3 = t3
  Threads = {t1, t2, t3}
  Nobody = nobody
  Forever = forever
  Off = off
  Transfers = {t1, t2, t3}
  Timeouts = {1, 2}
  Patience = 2
  MaxWakes = 2
INVARIANTS PolledOpen NobodyDeaf TimerCovers
PROPERTIES AllReturn TimeoutsCome
CHECK_DEADLOCK FALSE

SPECIFICATION MCSpec
CONSTANTS
  ReadAttempts = 2
  DrainLimit = 2
  Timeout = 1
  QueueCap = 1
  MaxEventErrors = 1
  PersistentErrors = FALSE
  PollMisses = TRUE
INVARIANTS BufferOwned FlagExact DeadlineKept AnswerSound
PROPERTIES ResentOnlyOnTimeout KeepsPromise

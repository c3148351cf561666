SPECIFICATION Spec
CONSTANTS
  ReadAttempts = 1
  DrainLimit = 2
  Timeout = 1
  QueueCap = 1
  MaxEventErrors = 0
  PersistentErrors = TRUE
  PollMisses = FALSE
PROPERTY ResponseWaitsBounded

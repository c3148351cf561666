SPECIFICATION Spec
CONSTANTS
  hub = hub
  mouse = mouse
  Nothing = Nothing
  Sessions = {mouse}
  Parent <- Root
  Objects = 3
  Callbacks = {}
  MaxUsers = 1
  MaxChanges = 3
INVARIANT PollDrains
CHECK_DEADLOCK FALSE

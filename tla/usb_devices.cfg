SPECIFICATION Spec
CONSTANTS
  hub = hub
  mouse = mouse
  Nothing = Nothing
  Sessions = {hub, mouse}
  Parent <- Tree
  Objects = 4
  Callbacks = {c1}
  MaxUsers = 2
  MaxChanges = 2
INVARIANTS ListedOnce RefsExact NamedAlive ExitFrees
PROPERTIES NoGhosts CatchesUp
CHECK_DEADLOCK FALSE

SPECIFICATION Spec
CONSTANTS
  Kinds = {"bulk", "interrupt", "control", "iso"}
  Modes = {"whole", "continuation", "split"}
  Lengths = {0, 3}
  Chunk = 2
  MaxSubmits = 1
INVARIANTS UrbsOwned CalledAlone DataInOrder StatusTrue
PROPERTY Settles
CHECK_DEADLOCK FALSE

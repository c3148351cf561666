SPECIFICATION PresetsSpec
CONSTANTS
  Names <- SomeNames
  Header <- Headers
  Seek <- Seeks
  Dpi = "dpi"
  Entered <- SomeLevels
  MaxEntries = 3
  MaxCuts = 2
INVARIANT SavedLoads
CHECK_DEADLOCK FALSE

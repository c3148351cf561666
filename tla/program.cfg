SPECIFICATION MCSpec
CONSTANTS
  p1 = p1
  p2 = p2
  Procs <- Two
  MaxRuns = 2
  MaxPlugs = 1
  Bytes <- EdgeBytes
  Levels <- EveryLevel
  Addresses <- SomeAddresses
  Names <- SomeNames
  Header <- Headers
  Seek <- Seeks
  Dpi = "dpi"
  Entered <- SomeLevels
  MaxEntries = 3
  MaxCuts = 2
  Words <- SomeWords
  AsNumber <- ReadAs
  AsAddress <- ReadAs
  MaxWords = 4
  Keys <- SomeKeys
  Elements <- Ordinals
  MaxParts = 3
  Inlines <- SomeInlines
  MaxStatements = 3
SYMMETRY AnyProcess
INVARIANTS
  TypesOK WorksAlone NothingKept OrphanExcused
  RoundTrip Canonical TargetUsable
  SavedComesBack LoadsSound OrderFree
  SaidIsFound ValidAccepted PlainKeysExact
  CallMeant
CHECK_DEADLOCK FALSE

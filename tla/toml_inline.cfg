SPECIFICATION TomlSpec
CONSTANTS
  Keys <- SomeKeys
  Elements <- Ordinals
  MaxParts = 3
  Inlines <- SomeInlines
  MaxStatements = 2
CHECK_DEADLOCK FALSE
PROPERTY InlineClosed

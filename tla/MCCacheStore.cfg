SPECIFICATION UseSpec
CONSTANTS
  a = a
  b = b
  c = c
  Keys = {a, b, c}
  Versions = {0}
  EnableStorage = TRUE
  CleanupEnabled = TRUE
  Ttl = 2
  MaxEntries = 2
  MaxTime = 3
PROPERTIES
  LiveLostOnlyToEviction

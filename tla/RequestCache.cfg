SPECIFICATION FairSpec
CHECK_DEADLOCK FALSE
CONSTANTS
  k = k
  t1 = t1
  t2 = t2
  NoCall = NoCall
  c1 = c1
  c2 = c2
  w1 = w1
  Keys = {k}
  Timeouts = {t1, t2}
  Calls = {c1, c2}
  Writers = {w1}
  Versions <- MCVersions
  EnableStorage = TRUE
  CleanupEnabled = TRUE
  Ttl = 1
  MaxEntries = 1
  MaxTime = 1
  MaxVersion = 1
  MaxGeneration = 1
INVARIANTS
  OneLoaderPerGeneration
  DestroyedKeepsNothing
PROPERTIES
  KeepsPromise
  EveryCallEnds

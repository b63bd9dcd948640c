\* Two channels, with failing file operations and a death of the process.
SPECIFICATION FairSpec
CONSTANTS
  a = a
  b = b
  Keys = {a, b}
  Settings <- SomeSettings
  MaxFaults = 1
  MaxCrashes = 1
INVARIANTS
  Bookkeeping
  StartRepairs
  CacheAgrees
  NeverRefused
PROPERTIES
  CleanupEnds

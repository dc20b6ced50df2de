\* Three providers compete for two slots; two stores share a bucket or do not.
CONSTANTS
  N = 3
  MaxParallel = 2
  Found <- FoundByTool
  S = 2
  b = b
  c = c
  Keys <- AllKeys
  Layouts <- SharedOrNot

SPECIFICATION FairSpec

INVARIANTS
  InventoryExact
  RetentionHonest

PROPERTIES
  KeepsPromise
  ScanReturns

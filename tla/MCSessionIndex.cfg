SPECIFICATION Spec
CONSTANTS
  Homes = {"d", "x"}
  Default = "d"
  Orca = "x"
  Names = {"a"}
  Cwds <- MCCwds
  MaxLoads = 2
  Window = 1
  MaxTime = 2
  MaxChanges = 2
  InitialStores <- MCStores
  InitialFiles <- MCFiles
  InitialCaches <- MCCaches
CHECK_DEADLOCK FALSE
INVARIANTS
  StalenessBounded
  DeletionsSeeAll

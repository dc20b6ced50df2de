SPECIFICATION TmpSpec
CONSTANTS
  Sweeps = {"s", "t"}
  Required = {"cli", "gui"}
  Cooperating <- MCCooperating
  Layouts <- MCLayouts
  Versions = {"1", ""}
  Contents <- MCContents
  Outside <- MCOutside
  MaxInterference = 2
CHECK_DEADLOCK FALSE
PROPERTIES
  RemovesOnlyVetted
  FencesReturned

SPECIFICATION Spec
CONSTANTS
  Home <- H
  Protected <- MCProtected
  Relocated <- MCRelocated
  Container <- MCContainer
  Stored <- MCStored
  Up = ".."
  Git = "g"
  MaxLinks = 3
  MaxLength = 5
  Names <- MCNames
  Rows <- MCRows
  Positions <- MCPositions
  Initial <- MCInitial
  Places <- MCPlaces
  Leads <- MCLeads
  Attics <- MCAttics
  Temp <- MCTemp
  Star = "*"
  Cwds <- MCCwds
  Ask <- MCAsk
CHECK_DEADLOCK FALSE
INVARIANTS
  GateSound
PROPERTIES
  RemovesWhatWasVetted
  PinnedStands
  IntactOrReported

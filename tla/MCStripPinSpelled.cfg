SPECIFICATION Spec
CONSTANTS
  Home <- H
  Protected <- MCProtected
  Relocated <- MCRelocated
  Container <- MCContainer
  Stored <- MCFolded
  Up = ".."
  Git = "g"
  MaxLinks = 3
  MaxLength = 5
  Names <- MCNames
  Rows <- MCRows
  Positions <- MCPositions
  Initial <- MCSpelled
  Places <- MCPlaces
  Leads <- MCLeads
  Attics <- MCAttics
  Temp <- MCTemp
  Star = "*"
  Cwds <- MCCwds
  Ask <- MCAsk
CHECK_DEADLOCK FALSE
PROPERTIES
  PinnedHoweverSpelled

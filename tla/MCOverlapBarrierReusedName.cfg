\* An entry may be deleted and created again under its name.
CONSTANTS
  Entries = {"inner"}
  T = 2
  Relation <- OnlyOuter
  Commands <- NoCommand
  Cwds = {"p", "q"}
  PathOf <- MCPathOf
  Containers <- MCContainers
  Encoded <- MCEncoded
  Contents <- MCContents
  Disks <- MCDisks
  NamesReused = TRUE
  MaxEvents = 3

SPECIFICATION Spec

PROPERTIES
  DiscoversOverlaps

\* A provider fails during the scan of the first target.
CONSTANTS
  Entries = {"own", "inner"}
  T = 2
  Relation <- OnlyOuter
  Commands <- NoCommand
  Cwds = {"p", "q"}
  PathOf <- MCPathOf
  Containers <- MCContainers
  Encoded <- MCEncoded
  Contents <- MCContents
  Disks <- MCDisks
  NamesReused = FALSE
  MaxEvents = 0

SPECIFICATION Spec

PROPERTIES
  FailureNotInherited

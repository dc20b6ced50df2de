\* An agent-state target, then a directory that may hold another entry.
CONSTANTS
  Entries = {"own", "inner"}
  T = 3
  Relation <- ExactThenOuter
  Commands <- ThirdByCommand
  Cwds = {"p", "q"}
  PathOf <- MCPathOf
  Containers <- MCContainers
  Encoded <- MCEncoded
  Contents <- MCContents
  Disks <- MCDisks
  NamesReused = FALSE
  MaxEvents = 3

SPECIFICATION Spec

INVARIANTS
  ReportComplete

PROPERTIES
  DiscoversOverlaps
  ShieldsLiveState
  TargetPinned

\* A target of every kind before a plain one; two changes by other programs.
CONSTANTS
  N = 2
  Plans <- PairsOfKinds
  MaxSize = 1
  MaxEvents = 2

SPECIFICATION FairSpec

INVARIANTS
  FreedIsReal

PROPERTIES
  KeepsReceipts
  VettedBeforeMutation
  BatchEnds

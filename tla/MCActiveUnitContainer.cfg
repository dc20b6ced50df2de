\* A container unit: two members, up to three changes by the world, both routes.
CONSTANTS
  N = 2
  Attached <- OneAttached
  Leaf <- SecondInLeaf
  Direct = FALSE
  MaxEvents = 3

SPECIFICATION Spec

INVARIANTS
  PreflightShields
  StopsAtFirstFailure
  ReceiptTruthful

PROPERTIES
  BarrierGuardsMutation

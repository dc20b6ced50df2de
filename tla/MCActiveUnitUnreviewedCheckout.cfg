\* The container instance, checking FullMemberSetRevalidated alone.
CONSTANTS
  N = 2
  Attached <- OneAttached
  Leaf <- SecondInLeaf
  Direct = FALSE
  MaxEvents = 1

SPECIFICATION Spec

PROPERTY
  FullMemberSetRevalidated

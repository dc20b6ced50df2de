SPECIFICATION Spec
CONSTANTS
  Targets <- MCTargets
  DocumentOrder <- MCOrder
  Lines <- MCLines
  FlagSets <- MCFlags
  Size = 1
  MaxTyped = 3
  MaxSwaps = 1
INVARIANTS
  AnswersBind
  ReceiptTruthful
  SuccessIsComplete
  NeverUnderstated
  SinkPinned
PROPERTIES
  NothingAfterCancel
  CancelEnds

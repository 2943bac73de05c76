CONSTANTS
  Keys = {a, empty}
  EmptyKey = empty
  LiteralKinds <- MCLiteralKinds
  TokenSizes <- MCTokenSizes
  MaxNesting = 3
  MaxItems = 2
  MaxOffset = 9
SPECIFICATION MapSpec
INVARIANTS
  MapFollows
  SubtreeIsExact
PROPERTY MapReturns
CHECK_DEADLOCK FALSE

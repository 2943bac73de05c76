CONSTANTS
  Keys = {a, empty}
  EmptyKey = empty
  LiteralKinds <- MCLiteralKinds
  TokenSizes <- MCTokenSizes
  MaxNesting = 3
  MaxItems = 2
  MaxOffset = 9
  IssueLimits <- MCIssueLimits
SPECIFICATION DetectSpec
INVARIANT DuplicatesReported
PROPERTY DetectReturns
CHECK_DEADLOCK FALSE

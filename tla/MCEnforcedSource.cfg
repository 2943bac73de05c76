CONSTANTS
  Keys = {a, empty}
  EmptyKey = empty
  LiteralKinds <- MCLiteralKinds
  TokenSizes <- MCTokenSizes
  MaxNesting = 3
  MaxItems = 2
  MaxOffset = 10
  Drivers <- MCDrivers
  DepthLimits <- MCDepthLimits
  ByteLimits <- MCByteLimits
SPECIFICATION Spec
INVARIANTS
  StackMirrorsDocument
  Lockstep
  CleanDocument
PROPERTY ImplementsContract

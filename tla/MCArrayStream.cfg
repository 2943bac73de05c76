CONSTANTS
  Keys = {a, empty}
  EmptyKey = empty
  LiteralKinds <- MCLiteralKinds
  TokenSizes <- MCTokenSizes
  MaxNesting = 3
  MaxItems = 2
  MaxOffset = 8
  Drivers <- MCDrivers
  DepthLimits <- MCDepthLimits
  ByteLimits <- MCByteLimits
  ElementSchemas <- MCElementSchemas
  ContainsLimits <- MCContainsLimits
SPECIFICATION ArraySpec
INVARIANTS
  InStep
  SubtreeMirrors
  SoundVerdict
PROPERTIES
  FirstFailureLocated
  Returns
CHECK_DEADLOCK FALSE

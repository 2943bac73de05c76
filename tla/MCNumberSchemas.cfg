SPECIFICATION Spec
CONSTANTS
  MaxInt <- MCMaxInt
  MaxUint <- MCMaxUint
  Exact = 40
  MaxFloat = 140
  ExpFrom = 8
  Wholes <- MCWholes
INVARIANT NumbersAreKept
INVARIANT RoutesAgree

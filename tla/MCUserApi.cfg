SPECIFICATION FairSpec
CONSTANTS
  c1 = c1
  c2 = c2
  Clients <- MCClients
  Fields <- MCFields
  Required <- MCRequired
  Values <- MCValues
  Zero = "zero"
  Default <- MCDefault
  Bad = Bad
  Bodies <- MCBodies
  Seeds <- MCSeeds
  None = None
  Targets <- MCTargets
  MaxID = 3
INVARIANT StoreInv
INVARIANT PatchIsCurrent
INVARIANT CreatedApart
PROPERTY ImplementsDirectory
PROPERTY StoreAnswers

CONSTANTS
  FieldOrder <- MCFieldOrder
  LateFields = {"late"}
  Unknowns = {"z"}
  Target = "t"
  Holdings <- MCHoldings
  Schemas <- MCSchemas
  Views <- MCViews
SPECIFICATION ObjectSpec
INVARIANTS
  IssuesAreExact
  PresenceIsTrue
  PreserveIsFaithful
  NothingVanishes

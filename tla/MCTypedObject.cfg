CONSTANTS
  FieldOrder <- MCFieldOrder
  LateFields = {}
  Unknowns = {"z"}
  Target = "a"
  Holdings = {{}}
  Schemas <- MCSchemas
  Views <- MCViews
  Rules <- MCRules
  Bindings <- MCBindings
SPECIFICATION TypedSpec
INVARIANTS
  PresenceRules
  FailuresInOrder
  AcceptedIsChecked
  RulesRunOnce
  SecondPassChangesNothing

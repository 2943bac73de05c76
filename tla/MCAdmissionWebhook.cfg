CONSTANTS
  DefKeys <- MCDefKeys
  Foreign <- MCForeign
  Tables <- MCTables
  Matches <- MCMatches
  Invalid <- MCInvalid
  NumberTexts <- MCNumberTexts
  RoundedTexts <- MCRoundedTexts
  WholeTexts <- MCWholeTexts
  PlainTexts <- MCPlainTexts
  Joined <- MCJoined
  Kind <- MCKind
  Cases <- MCCases
  Suites <- MCSuites
  NoDocument <- MCNoDocument
  MaxDepth = 4
SPECIFICATION Webhook
INVARIANTS
  ExpansionsAreNested
  WarningsAreTrue
  
  ConformingAdmitted
  SchemaOfItsVersion
PROPERTY ImportEnds
CHECK_DEADLOCK FALSE

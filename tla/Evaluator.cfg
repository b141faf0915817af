SPECIFICATION Spec
CONSTANTS
  InputKey <- MCInputKey
  BodyKey <- MCBodyKey
  BodyRawKey <- MCBodyRawKey
  JsonValues <- MCJsonValues
  Nodes <- MCNodes
  Height <- MCHeight
  MaxDepth = 5
  MaxBody = 2
  Statements <- MCStatements
  Openings <- MCOpenings
  RuleValues <- MCRuleValues
  Inputs <- MCInputs
INVARIANTS
  TypeOK
  DecidesMeaning
  ShallowNeverTooDeep
  UnreadBodyIrrelevant
  PrefixSuffices
CHECK_DEADLOCK FALSE

SPECIFICATION Spec
CONSTANTS
  InputKey <- MCInputKey
  BodyKey <- MCBodyKey
  BodyRawKey <- MCBodyRawKey
  JsonValues <- MCJsonValues
  Nodes <- MCNodes
  Height <- MCHeight
  MaxDepth = 5
  MaxBody = 1
  Statements <- MCStatements
  Openings <- MCOpenings
  RuleValues <- MCRuleValues
  Inputs <- MCInputs
INVARIANT OnlyFalseAndUndefinedFalsy
CHECK_DEADLOCK FALSE

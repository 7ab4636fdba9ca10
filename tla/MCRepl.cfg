SPECIFICATION Spec
CONSTANTS
  Statement <- MCStatement
  Lines <- MCLines
  Programs <- MCPrograms
  Checks <- MCChecks
  Lowers <- MCLowers
  Panics <- MCPanics
  MaxSession = 3
INVARIANTS
  TypeOK
  KeptWellTyped
  ValueIsOfTheLine
PROPERTIES
  ImplementsSession
  BrokenForGood
  PromptReturns
CHECK_DEADLOCK FALSE

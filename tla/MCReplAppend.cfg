SPECIFICATION Spec
CONSTANTS
  Statement <- MCStatement
  Lines <- MCLines
  Programs <- MCPrograms
  Checks <- MCChecks
  Lowers <- MCLowers
  Panics <- MCPanics
  MaxSession = 3
INVARIANT BindingsCanBeAppended
CHECK_DEADLOCK FALSE

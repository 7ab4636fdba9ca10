SPECIFICATION Spec
CONSTANTS
  f = f
  int = int
  Names <- MCNames
  Types <- MCTypes
  Captures <- MCCaptures
  NoCaptures <- Nothing
  Anonymous = Anonymous
  MaxStatements = 2
  Size <- Sizes
  MaxLets = 1
  MaxSymbols = 20
CHECK_DEADLOCK FALSE
INVARIANTS
  TypeOK
  EmittedOnce
  Resolved
PROPERTIES
  ImplementsInstantiation
  LoweringEnds

SPECIFICATION Spec
CONSTANTS
  TypeVars = {"a", "b"}
  RowVars <- MCRowVars
  Constructors <- MCConstructors
  Names = {""}
  Labels <- MCLabels
  MaxDepth = 6
  NewTypeVar <- MCTypeVar
  MaxFresh = 4
  EquationVars <- MCVariables
  Equations <- SelfEquations
  MaxEquations = 1
  Valuations <- MCValuations
  GroundRows <- MCGroundRows
CHECK_DEADLOCK FALSE
INVARIANT Reflexive

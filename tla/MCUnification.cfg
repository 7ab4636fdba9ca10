SPECIFICATION Spec
CONSTANTS
  TypeVars = {"a", "b"}
  RowVars <- MCRowVars
  Constructors <- MCConstructors
  Names = {""}
  Labels <- MCLabels
  MaxDepth = 8
  NewTypeVar <- MCTypeVar
  MaxFresh = 4
  EquationVars <- MCVariables
  Equations <- MCEquations
  MaxEquations = 3
  Valuations <- MCValuations
  GroundRows <- MCGroundRows
CHECK_DEADLOCK FALSE
INVARIANTS
  TypeOK
  Acyclic
  Sound
  MostGeneral
  RejectsUnsolvable
  AgreesWithUnify

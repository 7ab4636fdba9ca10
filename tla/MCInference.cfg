SPECIFICATION WSpec
CONSTANTS
  TypeVars <- MCVariables
  RowVars = {}
  Constructors = {"Int", "Bool", "Str", "Float", "Unit", "Fn", "List", "Infer"}
  Names = {""}
  Labels = {}
  MaxDepth = 6
  NewTypeVar <- MCTypeVar
  MaxFresh = 0
  EquationVars <- MCVariables
  Equations = {}
  MaxEquations = 20
  Valuations <- MCValuations
  GroundRows = {}
  Nodes <- MCNodes
  Exp <- MCExp
  Programs <- MCPrograms
  Idents <- MCIdents
  RuntimeTypes <- MCBuiltins
  Scope <- MCScope
  MaxVars = 12
CHECK_DEADLOCK FALSE
INVARIANTS
  WellTyped
  QuantifiedStay
  AgreesWithInfer

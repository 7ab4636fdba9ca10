SPECIFICATION Spec
CONSTANTS
  Names = {f, x}
  UserVars = {a}
  MaxVars = 4
  MaxDepth = 1
SYMMETRY NameSymmetry
INVARIANTS
  TypeOK
  NoCapture
  SchemesIntact
PROPERTY AllocatesUnused

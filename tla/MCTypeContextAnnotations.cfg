SPECIFICATION Spec
CONSTANTS
  Names = {f, x}
  UserVars = {1}
  MaxVars = 4
  MaxDepth = 1
SYMMETRY NameSymmetry
INVARIANT SchemesIntact

SPECIFICATION Spec
CONSTANTS
  Check <- Typecheck
  Generate <- LowerStatement
  Verify <- Verified
  Evaluate <- Execute
  Mean <- Meaning
  Sources <- Programs
  Fuel = 40
CHECK_DEADLOCK FALSE
INVARIANTS
  TypeOK
  WellTypedCompiles
  Correct
  FileCorrect
  ShownIsMeant
  CacheAgrees
  ConstantStack

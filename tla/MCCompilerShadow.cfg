SPECIFICATION Spec
CONSTANTS
  Check <- Typecheck
  Generate <- LowerStatement
  Verify <- Verified
  Evaluate <- Execute
  Mean <- Meaning
  Sources <- ShadowPrograms
  Fuel = 40
CHECK_DEADLOCK FALSE
INVARIANT Correct

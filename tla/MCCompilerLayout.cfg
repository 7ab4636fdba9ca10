SPECIFICATION Spec
CONSTANTS
  Check <- Typecheck
  Generate <- LowerStatement
  Verify <- Verified
  Evaluate <- Execute
  Mean <- Meaning
  Sources <- LayoutPrograms
  Fuel = 40
CHECK_DEADLOCK FALSE
INVARIANT Correct

SPECIFICATION Spec
CONSTANTS
  Inference <- Typecheck
  Rules <- Derived
  Vocabulary <- MCVocabulary
  Universe <- MCUniverse
  Constructors <- OptionConstructors
CHECK_DEADLOCK FALSE
INVARIANTS
  Sound
  Principal
  ContextAgrees

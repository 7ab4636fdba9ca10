SPECIFICATION Spec
CONSTANTS
  Inference <- Typecheck
  Rules <- Derived
  Vocabulary <- ConstructorVocabulary
  Universe <- MCUniverse
  Constructors <- OptionConstructors
CHECK_DEADLOCK FALSE
INVARIANTS
  Sound

SPECIFICATION Spec
CONSTANTS
  p1 = p1
  p2 = p2
  source = source
  executable = executable
  good = good
  usesPrelude = usesPrelude
  garbled = garbled
  flawed = flawed
  Pids <- MCPids
  Sources <- MCSources
  Executables <- MCExecutables
  OutputOf <- Named
  Texts <- MCTexts
  Parses <- MCParses
  WellTyped <- MCWellTyped
  Lowers <- MCLowers
  Verifies <- MCVerifies
  MaxStarts = 3
INVARIANTS
  TypeOK
  OwnProgram
  NoObjectLeft
  Verdict
  OnlyChecked
PROPERTIES
  EveryRunEnds

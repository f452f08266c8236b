SPECIFICATION Spec
CONSTANTS
  Half = 16
  Lumps <- SuffixLumps
  Commands <- Vanilla
  MaxRuns = 1
INVARIANTS VanillaStaysVanilla

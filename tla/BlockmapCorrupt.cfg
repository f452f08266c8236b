SPECIFICATION Spec
CONSTANTS
  Half = 16
  Lumps <- WrappedLumps
  Commands <- OnlyUnstack
  MaxRuns = 1
INVARIANTS CorruptLeftAlone

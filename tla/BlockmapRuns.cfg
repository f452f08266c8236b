SPECIFICATION Spec
CONSTANTS
  Half = 16
  Lumps <- AllLumps
  Commands <- AllCommands
  MaxRuns = 3
INVARIANTS TypeOK KeepsLists FullyStacked FullyUnstacked Repeatable VanillaStaysVanilla

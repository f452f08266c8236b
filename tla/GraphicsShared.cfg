SPECIFICATION Spec
CONSTANTS
  Lumps <- SharedMergeable
  FlatLengths <- Flats
  MaxWidth = 7
  MaxHeight = 2
  MaxLength = 1000
  MaxRuns = 1
INVARIANTS PictureKept

SPECIFICATION Spec
CONSTANTS
  Lumps <- SomeLumps
  FlatLengths <- Flats
  MaxWidth = 7
  MaxHeight = 2
  MaxLength = 1000
  MaxRuns = 3
INVARIANTS TypeOK PictureKept StaysInLump FullySquashed FullyUnsquashed ListedRight Repeatable SortsRight Shallow

SPECIFICATION Spec
CONSTANTS
  Sizes <- SomeSizes
  Graphical = {"pic", "woven"}
  Foreign = {"psxsides"}
  Overflowed = {"wrapped"}
  NameOrder <- Names
  NoPicture <- NotPictures
  Type = {"IWAD", "PWAD"}
  MaxPos = 14
  Beyond = 99
  Wads <- Littered
  Commands <- FirstRun
INVARIANTS RowsAddUp

SPECIFICATION Spec
CONSTANTS
  p1 = p1  p2 = p2  t1 = t1  t2 = t2  d1 = d1  d2 = d2  g1 = g1  g2 = g2
  None = None
  Proc = {p1, p2}
  Target = {t1, t2}
  Dir = {d1, d2}
  Game = {g1, g2}
  Empty = g2
  Iwad = {g2}
  Inode <- Inodes
  Args <- SameFile
  Cmd <- Compressing
  OutputWad <- ToSecond
  Home <- OneDir
  AllowMerge = TRUE
  MaxTemp = 3
  Litter <- OldTemp
  FirstInode <- InodesOf
  Faults = "sticky"
  Windows = FALSE
INVARIANTS TypeOK OutputsPrivate TempsAccounted
PROPERTIES ReplacedWhole ReplacesAtomically

SPECIFICATION SystemsSpec
CONSTANTS
  p1 = p1  p2 = p2  w1 = w1  w2 = w2  t1 = t1  t2 = t2  d1 = d1  d2 = d2
  g1 = g1  g2 = g2
  None = None
  Proc = {p1, p2, w1, w2}
  Target = {t1, t2}
  Dir = {d1, d2}
  Game = {g1}
  Empty = g1
  Iwad = {}
  Inode <- Inodes
  Args <- BothFiles
  Cmd <- Mixed
  OutputWad <- FirstToSecond
  Home <- TwoDirs
  AllowMerge = TRUE
  MaxTemp = 3
  Litter <- TempOfSecond
  FirstInode <- InodesOf
  Faults = "sticky"
  Windows = TRUE
INVARIANTS RenameInDirectory HealthyNeverFails
PROPERTIES Termination

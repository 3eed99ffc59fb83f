SPECIFICATION LogSpec
CONSTANTS
  p1 = p1
  p2 = p2
  Calls = {p1, p2}
  Entries = {0, 1}
  MaxTree = 2
  Roots <- MCRoots
  Size <- MCSize
  Prefix <- MCPrefix
  Checkpoint <- MCCheckpoint
  Evidences = {"sound", "scanMismatch", "unavailable", "none"}
  NoRoot = NoRoot
  MaxSize = 9
  TileWidths = {2, 4}
  Witnesses = {w1, w2, w3}
  Groups = {g1, g2}
  MaxMoment = 3
  Today = 2
INVARIANT
  InclusionBindsIndex
CHECK_DEADLOCK FALSE

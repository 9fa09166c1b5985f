SPECIFICATION FairSpec
CONSTANTS
  p1 = p1
  p2 = p2
  p3 = p3
  Bsp = Bsp
  CopyAPs = {p1, p2}
  SharedAPs = {p3}
INVARIANTS
  LockMeansHolder
  OwnTables
  IInv
PROPERTIES
  LiveWorldKept
  CopyNeverStuck

SPECIFICATION FairSpec
CONSTANTS
  MaxDepth = 4
  Radix = 4
  HeaderSize = 1
  RsvEntry = 1
  NoString = "bad"
  Memory = {"memory@0", "memory@1"}
  Wanted = 5
  Cdns = 7
  Zynqmp = 8
  Pl011 = 9
  DefaultBase = 0
  MaxRanges = 2
  MaxNodes = 4
  MaxItems = 3
  Cases <- MCCases
INVARIANTS ValidBlocksInside ChildrenInOrder SearchFindsFirst LookupsFollowTree RangesComplete RegFollowsWindows ConsoleFollowsTree
PROPERTIES ShallowWalksEnd

SPECIFICATION FairSpec
CONSTANTS
  c1 = c1
  c2 = c2
  s1 = s1
  a = a
  b = b
  Cores = {c1, c2}
  Slots = {s1}
  Factory = Factory
  Objects = {a, b}
  FactoryObj = FactoryObj
  Requests <- MCRequests
  MaxDepth = 1
INVARIANTS
  MutualExclusion
  SnapshotWhole
  HandlerSeesItsOwnShape
  FactoryAlwaysLive
  ResultMatchesEffect
PROPERTIES
  WritesUnderLock
  ImplementsRegistry
  CallsReturn

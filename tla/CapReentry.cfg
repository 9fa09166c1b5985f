SPECIFICATION FairSpec
CONSTANTS
  c1 = c1
  c2 = c2
  s1 = s1
  a = a
  b = b
  Cores = {c1}
  Slots = {s1}
  Factory = Factory
  Objects = {a, b}
  FactoryObj = FactoryObj
  Requests <- MCRequests
  MaxDepth = 3
INVARIANTS
  NoSelfDeadlock
  IrqStateRestored
  IInv
PROPERTIES
  LockReleased

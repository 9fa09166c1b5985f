SPECIFICATION Spec
CONSTANTS
  NativeCpu = "native"
  Word = 512
  MaxTables = 4
  Entries = 4
  PageSize = 32
  MaxAps = 3
  Aps = {1, 2, 3}
  RegionSize = 12
  KernelMax = 2
  InitOffset = 2
  InitMax = 3
  StackOffset = 5
  StackSize = 1
  MailboxOffset = 6
  MailboxSize = 6
  DiscoveryOffset = 6
  DiscoverySize = 1
  PgtableOffset = 7
  TableSize = 1
  BootAllocatorBase = 20
  BootAllocatorSize = 2
  DefaultUart = 7
  Lapic = 494
  KernelLoadBase <- MCKernelLoadBase
  InitLoadBase <- MCInitLoadBase
  BspMailbox <- MCBspMailbox
  RegionBase <- MCRegionBase
  AllocMin <- MCAllocMin
  AllocMax <- MCAllocMax
  Published <- MCPublished
  Inputs <- X86Only
INVARIANTS ApInitInOwnRegion

----------------------------- MODULE SmpLayout -----------------------------
(***************************************************************************)
(* The memory layout of include/smp_layout.h: where the BSP's kernel,      *)
(* scratch window and init lie, where the region of every other core       *)
(* begins, and what lies at which offset in a region.  The bases depend on *)
(* the architecture and are functions of its name.                         *)
(***************************************************************************)
EXTENDS Integers

CONSTANTS MaxAps,                             \* cores with a region of their own
          KernelLoadBase, InitLoadBase,       \* KERNEL_LOAD_BASE, BSP_INIT_LOAD_BASE
          BspMailbox,                         \* BSP_MAILBOX_REGION_BASE + CORE_MAILBOX_OFFSET
          BootAllocatorBase, BootAllocatorSize,
          RegionBase, AllocMin, AllocMax,     \* CORE_REGION_BASE, ALLOC_MIN, ALLOC_MAX
          RegionSize, KernelMax, InitOffset, InitMax, \* CORE_...
          StackOffset, StackSize, MailboxOffset, MailboxSize,
          DiscoveryOffset, DiscoverySize,
          PgtableOffset, TableSize            \* four tables of this size

Arches == {"x86_64", "aarch64"}

\* The n addresses from base.
Span(base, n) == {base + k : k \in 0 .. n - 1}

\* The region of core c, CORE_REGION_BASE + (c - 1) * CORE_REGION_SIZE.
Region(arch, c) == RegionBase[arch] + (c - 1) * RegionSize

\* The parts of a region follow one another: the kernel, init, the stack, and
\* in the mailbox window the discovery record and the page tables.
PartsInOrder ==
    /\ KernelMax <= InitOffset
    /\ InitOffset + InitMax <= StackOffset
    /\ StackOffset + StackSize <= MailboxOffset
    /\ MailboxOffset <= DiscoveryOffset
    /\ DiscoveryOffset + DiscoverySize <= PgtableOffset
    /\ PgtableOffset + 4 * TableSize <= MailboxOffset + MailboxSize
    /\ MailboxOffset + MailboxSize <= RegionSize

\* x86_64: the kernel, the BSP's scratch window, init, the pool, the regions;
\* init begins a whole number of regions above zero.
X86InOrder ==
    /\ KernelLoadBase["x86_64"] + KernelMax <= BspMailbox["x86_64"]
    /\ BspMailbox["x86_64"] + MailboxSize <= InitLoadBase["x86_64"]
    /\ InitLoadBase["x86_64"] + InitMax <= AllocMin["x86_64"]
    /\ AllocMin["x86_64"] <= AllocMax["x86_64"]
    /\ AllocMax["x86_64"] <= RegionBase["x86_64"]
    /\ InitLoadBase["x86_64"] % RegionSize = 0

\* aarch64: init, the kernel, the BSP's scratch window, the boot allocator's
\* region, the regions, the pool.
ArmInOrder ==
    /\ InitLoadBase["aarch64"] + InitMax <= KernelLoadBase["aarch64"]
    /\ KernelLoadBase["aarch64"] + KernelMax <= BspMailbox["aarch64"]
    /\ BspMailbox["aarch64"] + MailboxSize <= BootAllocatorBase
    /\ BootAllocatorBase + BootAllocatorSize <= RegionBase["aarch64"]
    /\ RegionBase["aarch64"] + MaxAps * RegionSize <= AllocMin["aarch64"]
    /\ AllocMin["aarch64"] <= AllocMax["aarch64"]

LayoutTypes ==
    /\ {MaxAps, RegionSize, KernelMax, InitOffset, InitMax, StackOffset, StackSize,
        MailboxOffset, MailboxSize, DiscoveryOffset, DiscoverySize, PgtableOffset,
        TableSize, BootAllocatorBase, BootAllocatorSize} \subseteq Nat \ {0}
    /\ {KernelLoadBase, InitLoadBase, BspMailbox, RegionBase, AllocMin, AllocMax}
          \subseteq [Arches -> Nat \ {0}]

LayoutOK == LayoutTypes /\ PartsInOrder /\ X86InOrder /\ ArmInOrder

ASSUME LayoutAssumption == LayoutOK

=============================================================================

# Specifications of saski

saski is a small capability kernel for x86_64 and aarch64. It loads one program,
init, on every core, hands it a table of facts about the machine, and from then
on does one thing: it carries invocations from one object to another and checks
their messages. This directory models that kernel in TLA+, checks the models
with TLC, and proves the main results about the invocation path, the boot of
several cores and the device tree walks with TLAPS.

## Inventory of the code

| Part | Source | Here |
|---|---|---|
| Capability kernel: `kernel_invoke`, the factory object, `g_cap_lock` | `kernel/cap.c`, `cap.h`, `schema.h` | `CapKernel`, `CapRegistry`, `CapRefinement`, `CapInvariants`; `CapKernelProofs` |
| Capability bootstrap over shared and copied images | `kernel/cap.c` (`kernel_cap_bootstrap`) | `CapImages`, `CapImagesProofs` |
| Cap'n Proto decoding and validation | `kernel/capnp.h`, `capnp_validate.c` | `CapnpWire`, `CapnpValidator`; `CapnpValidatorProofs` |
| Boot-path message builder and reader | `include/capnp_list.h` | `CapnpBuild`, `CapnpList`; `CapnpListProofs` |
| Device tree walker | `lib/fdt.c` | `Fdt` (the functions), `FdtTree` (what they are meant to answer), `FdtClient` (walks over several calls); `FdtTreeProofs`, `FdtProofs` |
| Mach-O loader | `kernel/macho.c` | `Macho`, composed in `Boot`; `LayoutProofs` |
| XNU boot arguments, EFI tables | `kernel/kernel.c`, `kernel_boot_aarch64.c` | `BootArgs`, composed in `Boot`; `BootProofs` |
| Memory layout of the cores | `include/smp_layout.h` | `SmpLayout`, `LayoutProofs` |
| x86_64 page tables | `kernel/boot.S`, `kernel/kernel.c` (`build_ap_page_tables`) | `Paging`, composed in `Boot`; `LayoutProofs` |
| aarch64 console selection | `kernel/serial_aarch64.c` (`serial_init`) | `FdtClient` (its searches), `Boot` (when it runs); `FdtProofs`, `BootProofs` |
| Boot of the first and of the other cores | `kernel/kernel.c`, `kernel_boot_aarch64.c`, `init_abi.h`, `arch/boot_aarch64.S` | `Boot`, `LayoutProofs`, `BootProofs` |
| Mode switch of the entry stubs, printing, annotations, freestanding runtime, tools | see `PROJECT.json` | not modelled |

How the parts interact: a boot entry captures the firmware's description
(`BootArgs`), chooses a console (`FdtClient`), loads init (`Macho`), bootstraps the capability table (`CapImages`)
and enters init, which starts the other cores into regions of their own
(`SmpLayout`) and, on x86_64, under page tables of their own (`Paging`); `Boot`
composes these. From then on every core calls `kernel_invoke` (`CapKernel`), which runs
the validator (`CapnpValidator`) on each request and response. `Fdt` is used by
the aarch64 boot and by init; `CapnpList` is the format of the objects the boot
path passes on without `kernel_invoke`.

## Modules and the code they model

**CapKernel.** State: the record storage, the lock word, and per core a stack of
frames, one for each invocation in progress with its program counter, saved
interrupt state and local copy of the record, plus the core's interrupt flag.
`Invoke` and `Interrupt` push frames (a handler invoking again, an interrupt
handler invoking); `CapLock`, `TestAndSet`, `Release` and `RestoreIrq` are the
steps of `cap_lock` and `cap_unlock`; `Check`, `Copy`, `FindMethod`,
`FactoryHandler`, `WriteField`, `HandlerReturn`, `Verify` and `Return` are those
of `kernel_invoke` and `factory_handler`. A record is
written one field per step, in the order of the source, so that a copy taken
between two writes would show as a mixture of objects.

**CapRegistry** is the specification of what callers are promised: an atomic
table of objects, in which an invocation binds to an object in one step, or
misses it, and CREATE and DESTROY take effect in one step. **CapRefinement**
instantiates it with the mapping from `CapKernel`: CREATE takes effect when it
acquires the lock, DESTROY when its check succeeds, a lookup at its check when it
fails and at the copy when it succeeds. **CapInvariants** holds the inductive invariant.

**CapImages** models `kernel_cap_bootstrap` on the first core, on cores whose
image is a copy made at any moment, also in the middle of another core's critical
section, and on cores that share the image.

**CapnpWire** decodes words into pointers from their bits. **CapnpValidator**
models `capnp_validate_message` with the C recursion as an explicit stack of
frames, one step for each check, so that termination and the depth limit can be
spoken of; beside it `StructValid` is the recursion as the source has it, by depth.
**CapnpBuild** and **CapnpList** model the two functions of
`capnp_list.h`, with widths and truncations of their fields.

**Fdt** has one operator per function of `lib/fdt.c`, over a blob that is a
sequence of structure tokens with a header whose offsets are numbers modulo a
small radix; sums wrap at the width of the field. Offsets into the structure
block are token positions, and the memory reservation block is a function from
offsets to entries. A loop of the source is a recursive function of what the loop
keeps. **FdtTree** is the reference: the tree by nesting alone, in terms of how
many nodes are open at a token. **FdtClient** makes the walks that keep state over
several calls: listing children with a cursor, the search by compatible with its
stack of `FDT_MAX_DEPTH` levels, and `serial_init`, which makes up to three
searches (`StartSerialInit`, `Found`) and tests what each returns. Its properties
say what these walks, and the functions that combine several nodes (cell counts,
paths, translated addresses, the ranges of memory), answer of the tree.

**SmpLayout** declares the layout as constants and, in `LayoutOK`, the order its
parts are in: inside a region, and around the BSP's own images on each
architecture. **Paging** has the two builders of page tables, with tables as
functions from their address to their entries, and, external, what the processor
makes of them (`Walk`).

**Macho**, **BootArgs**, **Boot.** Memory maps an address to the thing written
there. `StartBsp`, `FinishBsp`, `BootProtocol`, `StartAp`, `FinishAp` and
`StartSharedAp` are the entries; `LoadCommand` is one iteration of `macho_load`,
so the loads of several cores interleave. A core's page tables are in that same
memory, where a load that strays would overwrite them, and `cr3` says which it
runs under. `machine` and `console` are the globals of the kernel: the device
tree's address and size, the ACPI root, and per kernel image the UART. `BringUp` stands for init, which is not
in this repository: it does what `smp_layout.h` and `init_abi.h` say init does.
The boot arguments are left as GRUB and the firmware leave them, with pointers
remapped by `SetVirtualAddressMap` on x86_64.

## Runs

| Run | Question | Bounds |
|---|---|---|
| `CapRace` | Do locking, snapshots, dispatch and results hold up, does the kernel implement the registry, does every call return? | two cores, two objects contending for one storage, interrupts |
| `CapReentry` | Can a core deadlock itself or lose its interrupt state, is the lock always given back? | one core, three calls deep, interrupts at every step |
| `Images` | Can a later core disturb a live factory, or a copy start with a dead lock? | one boot core, two copies, one sharing core |
| `Validator` | Is an accepted message readable, is the verdict that of a recursive definition, does it end? | every message over a small set of words, six schema tables |
| `List` | Does the reader stay in bounds and invert the builder? | damage in up to two words, cuts at every length |
| `Built` | Does the validator accept what the builder builds? (It does not.) | the builder's messages with their own schema |
| `Fdt` | Do the walks, the ranges they collect and the console they choose agree with the tree that nesting defines? | up to four nodes and three other items, sibling nodes with the same name, a UART on a bus on a bus with ranges missing, empty or with windows, every kind of status, depth limit 4, arrays of two ranges, reservations with and without a terminator |
| `FdtDeep` | Does the search end on trees deeper than its stack? (It does not.) | one level more than the limit |
| `FdtStatus` | Does `serial_init` take only UARTs that `fdt.h` calls enabled? (It does not.) | the UART trees of `Fdt` |
| `Boot` | Is what runs after boot what was loaded, does it run mapped, is init told the truth, do the cores agree on the console? | three other cores, 169 inputs of both architectures, memory maps missing, empty and with pointers inside and outside their descriptors, page tables of four entries |
| `BootX86` | Does another core's init land in its region? (Not on x86_64.) | the x86_64 inputs |
| `BootTree` | Does a valid device tree choose the console on every path? (Not on the boot protocol's.) | the aarch64 inputs |

The bounds are the smallest in which each hazard of `PROJECT.json` can happen:
two writers and a reader of one record, one interrupt inside a critical section,
one level of nesting more than a limit, one region on each side of another, an
image one unit larger than its slot. Each property of a passing run also has a
mutant: a change of one definition, of the kind a slip in the code would make,
under which TLC reports the property violated.

### Disagreements between code and documentation

* `Built`: `capnp_validate.c:119` requires one word more for a composite list
  than the builder's own count, so a built message whose list ends the segment is
  refused, though `capnp_list.h:30-32` says the convention was verified against
  that decoder.
* `FdtDeep`: when a tree is deeper than `FDT_MAX_DEPTH`,
  `fdt_node_by_compatible_offset` pops a level and descends into the same child
  again, for ever; its comment says it skips the subtree.
* `BootX86`: `kernel_boot_ap` gives `macho_load` an absolute address where a
  displacement is added to init's own addresses, so the copy lands six regions
  above the core's own. The aarch64 entry subtracts the load base, and
  `ArmApStaysInSlot` holds for it.
* `BootTree`: `boot_protocol_start` stores the address of the device tree without
  testing it and never stores its size; `fdt_valid` refuses a blob of size 0, so
  `serial_init` keeps the built-in UART. `boot_aarch64.S:144-145` says the blob is
  validated as `_start` does it, and `serial_aarch64.c:10-11` that the tree should
  win. The run shows a second disagreement: `fdt_valid` (`fdt.c:201`) has no use for
  a size of 0, where `fdt.h:53-55` says to pass 0 when the size is not known and only
  the magic is to be checked. The same happens when the tree is found only through the firmware's tables,
  which the BSP reads after it has chosen its console; `OneConsole` says what does
  hold, for the BSP with a tree in `x0` and for the cores with copies.
* `FdtStatus`: `fdt_is_enabled` (`fdt.c:798`) compares the first four characters of a
  status with "okay" and not its end, so that a longer word that begins so counts as
  enabled, where `fdt.h:90-92` names "okay" and "ok" only. `ConsoleFollowsTree` says
  what holds when no status goes on after "okay". An empty status counts as absent.

Two more were met and have no run of their own:

* `fdt_reg_to_cpu_addr` (`fdt.c:640`) begins with the node's own `ranges`, so that the
  registers of a node that is a bus itself are translated by the windows meant for its
  children; `fdt.h:104-105` speaks of "every enclosing bus's ranges". `Fdt` follows the
  code, and `RegFollowsWindows` leaves such nodes out. The one caller in this
  repository asks for UARTs.
* `xnu_efi_translate_virt` returns a pointer that lies in no descriptor as it is, as its
  last comment says; `kernel.c:242` and `kernel.c:374-385` say that it returns 0 and
  that the lookup then fails. `BootArgs` follows the code, and `Boot` has such pointers.

### Fairness

`CapRace`, `CapReentry` and `Images` assume weak fairness of the kernel code each core is in:
hardware keeps executing, and a handler that was called returns. Invocations and
interrupts are never required to happen. A test-and-set lock promises no order
among those who spin on it, and no strong fairness is assumed; so `CallsReturn`
says that calls return unless new ones keep arriving for ever, while
`LockReleased` needs no such exception. `Validator` and `Fdt` are sequential programs and assume weak
fairness of the next step. The other runs check safety only.

## Proofs

Eight modules of proofs, all checked by TLAPS for every value of the constants:

* `CapKernelProofs`: `IInv` of `CapInvariants` is inductive.
  To the type invariant it adds the shape of the stacks (`StackInv`), that only
  the running frame of a core has interrupts masked by `cap_lock` and that each
  frame remembers the state of the one below (`IrqInv`), mutual exclusion, what a
  frame knows at each point of `kernel_invoke` and `factory_handler`
  (`FramesInv`), and that records nobody is writing are whole while a writer's
  progress says which fields are new (`RecordsInv`). None of the results is inductive alone: mutual exclusion needs the place
  of the holder on its stack, and an untorn snapshot needs both mutual exclusion
  and the writer's progress. From it follow mutual exclusion, no self-deadlock,
  restored interrupt state, whole snapshots, dispatch on the checked schema, the
  factory's permanence, and that results match effects.
  The second part shows that `CapKernel` implements `CapRegistry`. From `IInv`, every
  step of the kernel is one step of the registry or leaves it as it is. Seven
  kernel steps are visible: entering, taking the lock for CREATE, the check that
  fails a lookup or lets DESTROY go on, the copy, a refusal, the response check and
  the return. Two facts carry the argument: while a core writes a record nobody
  else can look at it, so that the registry may have the outcome from the first
  field on (`WriteSilent`), and a record under the holder's eyes is one whole
  object's or dead (`HolderReads`, `LiveIsObject`).
* `CapImagesProofs`: the invariant relates each image's lock to the cores that
  use it and says that a copy's tables are either foreign or its own; from it,
  that live factories are kept and that tables are never mixed.
* `CapnpListProofs`: reading in bounds for any input, and the round trip for every
  shape that fits its fields (`IInv`).
* `CapnpValidatorProofs`: the invariant says, for every frame of the stack, that
  the slots it has passed lead to structs that lie in the segment and were
  visited or are still to be; from it, that accepted messages are readable. A second
  invariant, `Deciding`, ties the stack to the recursion. `Rest` is what one frame has
  still to check, answered by `StructValid` for everything below it, and while the
  validator runs the root is valid exactly when the rests of all frames are
  (`StackIsRecursion`). A call moves what it is to decide from its caller's rest into a
  frame of its own, a return gives it up as true, and a rejection is the first rest
  that is false. At the end no frame is left, hence `VerdictIsRecursive`.
* `LayoutProofs`: from `LayoutOK` alone, that kernels, inits, discovery records and
  page tables of any number of cores are disjoint. Above the first region an
  address is a region number and an offset in exactly one way; parts of different
  kinds have different offsets, and init copies, which x86_64 displaces by a whole
  number of regions, keep their offset and have distinct numbers. Further, that
  both sets of page tables map what they cover to itself, that the numbers of
  `smp_layout.h` satisfy `LayoutOK` (`RealLayout`), and that what `macho_load`
  writes for a linked image lies within `macho_image_size` of its base, no segment
  touching another. With these, `IInv`: where each core is and with which
  displacement it loads (`Control`), and that the kernel of every started core and
  the segments each has copied so far are in memory byte for byte (`ImagesOK`).
  `HandedOffIntact` is not inductive alone: it speaks of cores that have finished,
  and a core in the middle of its load must already be known to have spared them.
  `MInv` adds that a core's tables are still as it built them; from it, that every
  core runs mapped.
* `BootProofs`: what the boot core reads, and what every core is told. For any
  memory map, `xnu_efi_translate_virt` undoes the remapping of a pointer
  (`Translated`), the configuration table is searched correctly (`RsdpFound`), and
  the one pass over the descriptors keeps the first of the largest ranges, by
  induction on the descriptors seen (`IsBest`). `HInv` carries this to init: the
  globals hold what was found by the time another core copies them (`Order`,
  `Consoles`), no load or table build of any core has reached a discovery record
  between init's writing it and its core's reading it (`Records`, from `IInv`), and
  what was handed over is what was found (`Handoffs`, `Told`). From it follow
  `RolesAndServices`, `MachineDescribed`, `OneConsole` and `FreeRangeIsLargest`.
* `FdtTreeProofs`: the walks of `lib/fdt.c` against the tree that nesting defines, for
  blobs of any length. `Level` counts the nodes open at a position; it moves by one
  where a node begins or ends (`LevelSteps`), so that a node has one matching end (`CloseIs`). On
  that rest `skip_node` (`SkipIs`), `fdt_first_child` (`FirstChildIs`),
  `fdt_parent_offset` (`ParentIs`: its stack holds the open nodes and nothing
  else), `fdt_next_sibling` (`NextSiblingIs`), `fdt_getprop` (`GetPropIs`) and
  `compatible_match` (`MatchesIs`). The lookups that go further are loops that get
  nearer their end in every round, so that each is a function (`RoundsExist`), and
  their answers are what nesting says: the nearest declaration around a node
  (`ParentCellsIs`), the windows of the buses that hold an address, one after the other
  up to the root (`TranslateIs`, `UpIs`, `RegIs`), a status (`EnabledIs`), the first child of a name (`NamedIs`) and with it
  a path (`PathLeads`, `PathFinds`), and the reservations up to the terminator
  (`ReservedIs`).
* `FdtProofs`: three invariants carry this through the walks.
  `Listing` says that what has been listed is the children up to the cursor;
  `Searching` that the search's stack is a path from the root and that no match
  lies before the node it is at; `Choosing` that the console `serial_init` has left
  to find is the one the tree asks for, whichever search it is in. The results alone
  say nothing before a walk is over. From them follow `ChildrenInOrder`,
  `SearchFindsFirst` and `ConsoleFollowsTree`; `ValidBlocksInside` follows from the
  header tests, and `LookupsFollowTree`, `RegFollowsWindows` and `RangesComplete` from
  the lookups and from what every blob holds (`Words`). The banks of memory go bank
  by bank: `Covers` says that a list holds the entries of the memory nodes so far,
  each at the place that the sum of the entries before it gives (`OneBank`,
  `BanksCover`, `MemoryIs`).

Induction over data goes through the least counterexample: a nonempty set of
natural numbers has a least element (`LeastExists`), so a statement about every
position holds if no position can be the first, or the last, at which it fails.
The loops of `fdt.c`, and the validator's recursion, are recursive functions for
that reason.

The assumptions are the named `ASSUME`s of the modules. The names of records,
objects and cores are distinct; limits are numbers; callers hand CREATE storage of
their own, as `cap.h` requires; messages and schema tables are well typed, whatever
they say; and the builder is given shapes whose counts fit their fields. For the
boot: the layout is in order (`LayoutAssumption`); init is linked at its documented
address with segments that do not overlap, and on aarch64 ends below the kernel
(`InputsAssumption`); the regions lie in the first gigabyte and the local APIC in
the fourth (`ReachAssumption`); a valid device tree has a size (`TreeAssumption`);
firmware leaves a configuration table, whose pointers on aarch64 are physical and on
x86_64, when there is a memory map, stand, in their low 32 bits, for an address that
one remapped descriptor or none gives them (`FirmwareAssumption`); and the records init
writes name the boot core's entry point (`PublishedAssumption`). For the device
tree: the blob is a sequence of tokens, its header and its reservations hold numbers,
and so do its properties except for the two that are text (`CasesAssumption`); the
cell counts it declares are small enough that no sum of three of them, in bytes, wraps
around 32 bits (`CellsAssumption`, which a count of four, the largest in use, is far
from); the caller's array has a length (`MaxRangesAssumption`); and the three strings
`serial_init` looks for differ (`NamesAssumption`). What is stated of well-formed
trees is so stated in the
properties. `WellFormed` asks for a readable header, whole tokens, one root that
closes at the end, properties before subnodes and distinct property names in a
node; `Shallow` for a depth below `FDT_MAX_DEPTH`, and `FdtDeep` shows why.

Model-checked only: liveness (`LockReleased`, `CallsReturn`, `Terminates`,
`ShallowWalksEnd`, `CopyNeverStuck`), which is beyond the prover. Every safety
property that a passing run checks is also a theorem.

## Not modelled

* In `kernel/boot.S` all but the identity map, and in `arch/boot_aarch64.S` all but
  what happens to `x0` and the size of the device tree: straight-line register
  code.
* `kprintf`, and the device registers of the serial consoles. `serial_init` of
  x86_64 writes fixed ports and keeps no state.
* The ownership and mode annotations, which have no run-time effect.
* Weak memory: the lock's acquire and release are taken to order the accesses
  between them, as the compiler builtins promise; and page table walks read memory
  as it is, with no stale translations, since a core builds its tables before it
  loads `cr3`.
* The firmware's tables are not part of what `RunsMapped` says a core touches: the
  kernel passes their address to init and an additional core never reads them.
* init, GRUB and the firmware, beyond what the kernel reads of them.

## Limits

* `RegFollowsWindows` is stated for bus windows that end below the top of the
  address space. The model's sums wrap as the code's do, so that a window ending exactly at the
  top has an end of zero and translates nothing.
* The same property and `ConsoleFollowsTree` are about devices that are no buses
  themselves, on buses nested to any depth below `FDT_MAX_DEPTH`. The size that
  `fdt_reg_to_cpu_addr` returns with the address is left out: no caller reads it.
* The sums of cell counts in `Fdt` do not wrap: `(ac + sc) * 4` in `lib/fdt.c` is a
  32-bit product, and `CellsAssumption` keeps the counts below where that shows.
* A token of `Fdt` is whole or cut. Some walks of `fdt.c` (243, 340, 376-380) read the
  length word of a property before they test that it is inside the block, which is
  below this grain; the test that follows fails for a cut token either way, so the
  answers are the same. `ValidBlocksInside` is about the blocks, not about what a walk
  reads within them.
* DESTROY declares no result, so `kernel_invoke` reports 1 for one that was refused.
  `ResultMatchesEffect` leaves it out; `ImplementsRegistry` says that it changed nothing.
* Objects are known by their storage, in the registry as in the code: that a stale
  handle reaches the object created later in the same storage is no violation.
* A CREATE over the factory's own record, and images on x86_64 that are larger than
  their slots, are excluded by assumption or in the properties: the code tests
  neither. The notes of the hazards in `PROJECT.json` say where.

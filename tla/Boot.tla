-------------------------------- MODULE Boot --------------------------------
(***************************************************************************)
(* From kernel entry to init on every core: kernel_boot and kernel_boot_ap *)
(* of kernel/kernel.c (x86_64), the four entries of                        *)
(* kernel/kernel_boot_aarch64.c, macho_load of kernel/macho.c, and the     *)
(* memory layout of include/smp_layout.h.  SmpLayout has the layout, Macho *)
(* the images, BootArgs what the firmware left, Paging the page tables.    *)
(*                                                                         *)
(* Core 0 is the BSP.  Every other core is started by init, which is not   *)
(* part of this repository: BringUp does what smp_layout.h and init_abi.h  *)
(* say init does before it starts a core.  Cores load their init images at *)
(* the same time, one load command per step, into one memory.              *)
(*                                                                         *)
(* Memory maps an address to what was written there: a tag and an index,   *)
(* <<"kernel", k>> for byte k of the kernel image, <<"init", k>> for byte  *)
(* k of init's file, and so on.  Addresses are scaled down; the constants  *)
(* keep the order and the proportions of smp_layout.h.                     *)
(***************************************************************************)
EXTENDS SmpLayout, Macho, BootArgs, Paging, Functions

CONSTANTS Aps,             \* the other cores, by core_index
          Inputs,          \* what the loader and the firmware leave behind
          Published,       \* what init writes into a discovery record
          DefaultUart,     \* PL011_DEFAULT_BASE
          Lapic            \* the address of the local APIC

ASSUME ApsAssumption == Aps \subseteq 1 .. MaxAps

\* The regions, and as much above them as init's own addresses reach, lie in
\* the first gigabyte; the local APIC lies in the fourth.
ASSUME ReachAssumption ==
    /\ RegionBase["x86_64"] + MaxAps * RegionSize + InitLoadBase["x86_64"] <= Gigabyte
    /\ Lapic \in 3 * Gigabyte .. 4 * Gigabyte - 1

\* What is built and loaded: an init linked at its documented address, which
\* on ARM ends below the kernel, and a kernel whose header, if it can be read,
\* tells its length.  The boot protocol is there only on ARM.
ASSUME InputsAssumption ==
    \A i \in Inputs :
        /\ i.arch \in Arches /\ i.kernel_len \in Nat
        /\ i.path = "protocol" => i.arch = "aarch64"
        /\ Loadable(i.init) => LinkedAt(i.init, InitLoadBase[i.arch])
        /\ i.arch = "x86_64" => ImageSize(i.kernel) \in {0, i.kernel_len}
        /\ i.arch = "aarch64" =>
              InitLoadBase[i.arch] + ImageSize(i.init) <= KernelLoadBase[i.arch]

\* A device tree that fdt_valid accepts states a size.
ASSUME TreeAssumption ==
    \A i \in Inputs : i.fdt.valid => i.fdt.size # 0 /\ i.fw.fdt_size # 0

\* What firmware leaves: a memory map and a configuration table.  On ARM boot
\* arguments come in x0, pointers are physical, and the table is no longer
\* than efi_find_table believes.  On x86_64 every pointer on the way to the
\* ACPI table stands, in its low 32 bits, for a physical address.
ASSUME FirmwareAssumption ==
    \A i \in Inputs :
        /\ i.args.mmap \in MemoryMap
        /\ i.fw.tables \in ConfigTable
        /\ i.arch = "aarch64" =>
              /\ i.args.addr # 0 => i.x0 # 0
              /\ i.fw.config # 0 /\ Len(i.fw.tables) <= MaxTables
              /\ \A t \in DOMAIN i.fw.tables : i.fw.tables[t].ptr = i.fw.tables[t].phys
        /\ (i.arch = "x86_64" /\ i.args.addr # 0 /\ i.args.vermajor = 2
              /\ i.args.efi_system_table # 0 /\ i.args.efi_mmap # 0) =>
              /\ i.fw.config # 0
              /\ StandsFor(i.args, i.args.efi_system_table, i.fw.sys_phys)
              /\ StandsFor(i.args, i.fw.config % Word, i.fw.tables_phys)
              /\ \A t \in DOMAIN i.fw.tables :
                    /\ i.fw.tables[t].ptr % Word # 0
                    /\ StandsFor(i.args, i.fw.tables[t].ptr % Word, i.fw.tables[t].phys)

\* init_abi.h: the record a core is started with names the BSP's entry point.
ASSUME PublishedAssumption == Published["bsp_kernel_invoke_addr"] # 0

VARIABLES input,     \* the inputs of this boot
          pc,        \* "off", "start", "load", "init" or "halt", by core
          at,        \* the load command a core is at
          slide,     \* the target_base a core gave macho_load
          mem,       \* memory
          written,   \* the addresses a core has written (history)
          cr3,       \* the page tables a core runs under (x86_64)
          machine,   \* g_fdt_blob_phys, g_fdt_blob_size and g_rsdp_phys
          console,   \* g_uart_base and g_uart_is_cadence, by kernel image
          handoff,   \* the init_ap_handoff of a core on the shared path
          info,      \* the boot_info a core handed to init
          entry      \* where it entered init

vars == <<input, pc, at, slide, mem, written, cr3, machine, console, handoff, info, entry>>

\* Bytes that belong to something else, read as a number.
Overwritten == -1

Bsp == 0
Cores == {Bsp} \cup Aps

arch == input.arch
Arm == arch = "aarch64"
Shared == input.path = "protocol"

\* The fields init reads from a discovery record.
Services == {"bsp_kernel_invoke_addr", "mutex_manager_handle", "memory_manager_handle",
             "hardware_mutex_id", "lapic_calibration_count", "cluster_scheduler_handle",
             "serial_resource_handle", "early_rsdp_phys"}

Info == Services \cup
        {"caps", "kernel_invoke", "kernel_load_base", "kernel_boot_ap_addr", "pml4_phys",
         "init_image_addr", "kernel_image_addr", "kernel_image_len", "fdt_blob_phys",
         "ram_size", "init_description_phys", "init_entry_addr", "ap_core_state_phys"}

\* A static boot_info before anything is assigned.
ZeroInfo == [f \in Info |-> 0]

\* The addresses of code and tables of the kernel image a core runs: copies
\* differ from the original, cores of a shared image do not.
ImageOf(c) == IF Shared THEN 1 ELSE c + 1

\* The assigned region of core c.
RegionOf(c) == Region(arch, c)

\* Memory m after the writes w.
Store(w, m) == [a \in DOMAIN w \cup DOMAIN m |-> IF a \in DOMAIN w THEN w[a] ELSE m[a]]

Write(tag, base, n) == [a \in Span(base, n) |-> <<tag, a - base>>]

\* g_fdt_blob_phys as the entry stubs of boot_aarch64.S leave it: _start keeps
\* x0 only when it points at the magic, boot_protocol_start keeps it as it is.
StubFdt == IF Shared \/ (input.x0 # 0 /\ input.x0_magic) THEN input.x0 ELSE 0

\* g_fdt_blob_size: _start reads it after the magic, boot_protocol_start does
\* not read it.
StubFdtSize == IF ~Shared /\ input.x0 # 0 /\ input.x0_magic THEN input.fdt.size ELSE 0

\* fdt_valid on the blob the boot code knows of.
FdtIsValid(m) == m.fdt # 0 /\ m.size # 0 /\ input.fdt.valid

\* serial_init, on aarch64: a Cadence UART the device tree offers, or else a
\* PL011, or else no change.  FdtClient has the searches; here the tree says
\* at which address each of the two is usable, 0 for neither.
SerialInit(con, m) ==
    IF Arm /\ FdtIsValid(m)
    THEN CASE input.fdt.cadence # 0 -> [base |-> input.fdt.cadence, cadence |-> TRUE]
           [] input.fdt.cadence = 0 /\ input.fdt.pl011 # 0
                                    -> [con EXCEPT !.base = input.fdt.pl011]
           [] OTHER                 -> con
    ELSE con

\* Boot allocations are left out: this is the memory the images occupy.
Init ==
    /\ input \in Inputs
    /\ pc = [c \in Cores |-> IF c = Bsp THEN "start" ELSE "off"]
    /\ at = [c \in Cores |-> 1]
    /\ slide = [c \in Cores |-> 0]
    /\ mem = Write("kernel", KernelLoadBase[arch], input.kernel_len)
    /\ written = [c \in Cores |-> {}]
    /\ cr3 = [c \in Cores |-> BootPml4]
    /\ machine = [fdt |-> StubFdt, size |-> StubFdtSize, rsdp |-> 0]
    /\ console = [k \in {ImageOf(c) : c \in Cores} |-> [base |-> DefaultUart, cadence |-> FALSE]]
    /\ handoff = [c \in Cores |-> [addr |-> 0, init_entry |-> 0, boot_info |-> ZeroInfo]]
    /\ info = [c \in Cores |-> ZeroInfo]
    /\ entry = [c \in Cores |-> 0]

-----------------------------------------------------------------------------
\* Steps shared by the entries.

\* halt_forever.
Halt(c) ==
    /\ pc' = [pc EXCEPT ![c] = "halt"]
    /\ UNCHANGED <<at, slide, mem, written, info, entry>>

\* The call of init with the boot_info i.
EnterInit(c, i, addr) ==
    /\ pc' = [pc EXCEPT ![c] = "init"]
    /\ info' = [info EXCEPT ![c] = i]
    /\ entry' = [entry EXCEPT ![c] = addr]
    /\ UNCHANGED <<at, slide, mem, written>>

\* macho_load is called: its tests before the first load command.
CallMachoLoad(c, target_base, writes) ==
    /\ mem' = Store(writes, mem)
    /\ written' = [written EXCEPT ![c] = @ \cup DOMAIN writes]
    /\ pc' = [pc EXCEPT ![c] = IF Loadable(input.init) THEN "load" ELSE "halt"]
    /\ slide' = [slide EXCEPT ![c] = target_base]
    /\ UNCHANGED <<at, info, entry>>

Nothing == [a \in {} |-> <<"none", 0>>]

\* The first pass of macho_load, one command.
LoadCommand(c) ==
    LET cmds == Commands(input.init)
        writes == IF Copied(cmds[at[c]]) THEN Place(cmds[at[c]], slide[c]) ELSE Nothing
    IN  /\ pc[c] = "load" /\ at[c] <= Len(cmds)
        /\ mem' = Store(writes, mem)
        /\ written' = [written EXCEPT ![c] = @ \cup DOMAIN writes]
        /\ at' = [at EXCEPT ![c] = @ + 1]
        /\ UNCHANGED <<input, pc, slide, cr3, machine, console, handoff, info, entry>>

\* The first pass is over.
Loaded(c) == pc[c] = "load" /\ at[c] > Len(Commands(input.init))

-----------------------------------------------------------------------------
\* The BSP.

\* The console a core chooses on its way in, in the data of its own image.
ChooseConsole(c) ==
    console' = [console EXCEPT ![ImageOf(c)] = SerialInit(@, machine)]

\* The start of kernel_boot and kernel_boot_aarch64.  On ARM the console is
\* chosen first; then, as x0 may have been boot arguments, the device tree is
\* looked up.
StartBsp ==
    /\ pc[Bsp] = "start" /\ ~Shared
    /\ ChooseConsole(Bsp)
    /\ machine' = IF Arm
                  THEN ResolveXnuBootParams(input.x0, machine, input.args, input.fw)
                  ELSE machine
    /\ CallMachoLoad(Bsp, 0, Nothing)
    /\ UNCHANGED <<input, cr3, handoff>>

\* ram_size of kernel_boot_aarch64: the boot arguments' when there is no
\* device tree, else what a valid device tree declares.
ArmRamSize ==
    LET told == IF input.x0 # 0 /\ machine.fdt = 0 /\ input.args.vermajor = 2
                THEN input.args.ram_size ELSE 0
    IN  IF told = 0 /\ FdtIsValid(machine) THEN input.fdt.ram ELSE told

\* Starting other cores whatever the size of the images.
ImagesFitAlways == TRUE

\* kernel_boot_aarch64 offers the copied-image entry only when both images
\* fit their slots in a region.
ImagesFit ==
    /\ input.kernel_len <= KernelMax
    /\ ImageSize(input.init) # 0
    /\ ImageSize(input.init) <= InitMax

\* The boot_info of kernel_boot.
BspInfoX86 ==
    [ZeroInfo EXCEPT
        !.caps = ImageOf(Bsp), !.kernel_invoke = ImageOf(Bsp),
        !.kernel_load_base = KernelLoadBase[arch],
        !.kernel_boot_ap_addr = ImageOf(Bsp),
        !.pml4_phys = BootPml4,
        !.init_image_addr = 1,
        !.kernel_image_addr = KernelLoadBase[arch],
        !.kernel_image_len = ImageSize(input.kernel),
        !.ram_size = RamSize(input.args),
        !.early_rsdp_phys = FindRsdp(input.args, input.fw)]

\* The boot_info of kernel_boot_aarch64.
BspInfoArm ==
    [ZeroInfo EXCEPT
        !.caps = ImageOf(Bsp), !.kernel_invoke = ImageOf(Bsp),
        !.kernel_load_base = KernelLoadBase[arch],
        !.init_image_addr = 1,
        !.kernel_boot_ap_addr = IF ImagesFit THEN ImageOf(Bsp) ELSE 0,
        !.kernel_image_addr = IF ImagesFit THEN KernelLoadBase[arch] ELSE 0,
        !.kernel_image_len = IF ImagesFit THEN input.kernel_len ELSE 0,
        !.early_rsdp_phys = machine.rsdp,
        !.fdt_blob_phys = machine.fdt,
        !.ram_size = ArmRamSize]

\* The rest of kernel_boot and kernel_boot_aarch64.
FinishBsp ==
    /\ Loaded(Bsp)
    /\ LET e == Entry(input.init, 0)
       IN  IF e = 0 THEN Halt(Bsp)
           ELSE EnterInit(Bsp, IF Arm THEN BspInfoArm ELSE BspInfoX86, e)
    /\ UNCHANGED <<input, cr3, machine, console, handoff>>

\* kernel_boot_aarch64_boot_protocol: init is already in place.
BootProtocol ==
    /\ pc[Bsp] = "start" /\ Shared
    /\ ChooseConsole(Bsp)
    /\ IF input.init_entry = 0 THEN Halt(Bsp)
       ELSE EnterInit(Bsp,
              [ZeroInfo EXCEPT
                  !.caps = ImageOf(Bsp), !.kernel_invoke = ImageOf(Bsp),
                  !.kernel_load_base = KernelLoadBase[arch],
                  !.kernel_boot_ap_addr = ImageOf(Bsp),
                  !.init_description_phys = input.init_description,
                  !.init_entry_addr = input.init_entry,
                  !.fdt_blob_phys = machine.fdt],
              input.init_entry)
    /\ UNCHANGED <<input, cr3, machine, handoff>>

-----------------------------------------------------------------------------
\* The other cores.

\* External: the BSP's init prepares a core and starts it.  On the legacy
\* paths it copies the kernel image, its data included, into the core's region
\* and writes the discovery record; on the shared path it fills the handoff and
\* passes its address, and what the kernel checks of these may be missing.
BringUp(c) ==
    /\ pc[Bsp] = "init" /\ pc[c] = "off"
    /\ info[Bsp].kernel_boot_ap_addr # 0
    /\ pc' = [pc EXCEPT ![c] = "start"]
    /\ IF Shared
       THEN /\ \E addr, core_state \in {0, c}, init_entry \in {0, info[Bsp].init_entry_addr} :
                  handoff' = [handoff EXCEPT ![c] =
                    [addr |-> addr, init_entry |-> init_entry,
                     boot_info |-> [f \in Info |->
                        IF f \in Services THEN Published[f]
                        ELSE IF f = "ap_core_state_phys" THEN core_state ELSE 0]]]
            /\ UNCHANGED <<mem, console>>
       ELSE /\ info[Bsp].kernel_image_len # 0
            /\ mem' = Store(Write("kernel", RegionOf(c), info[Bsp].kernel_image_len),
                            Store([a \in {RegionOf(c) + DiscoveryOffset} |-> <<"discovery", c>>],
                                  mem))
            /\ console' = [console EXCEPT ![ImageOf(c)] = console[ImageOf(Bsp)]]
            /\ UNCHANGED handoff
    /\ UNCHANGED <<input, at, slide, written, cr3, machine, info, entry>>

\* A slide that forgets where init's own addresses begin.
ApSlideAbsolute(c) == RegionOf(c) + InitOffset

\* The target_base of the two kernel_boot_ap's.
ApSlide(c) ==
    IF Arm THEN RegionOf(c) + InitOffset - InitLoadBase[arch] ELSE RegionOf(c) + InitOffset

\* The page tables core c builds for itself, on x86_64.
PageTables(c) ==
    LET tables == BuildApPageTables(RegionOf(c) + PgtableOffset, TableSize)
    IN  IF Arm THEN Nothing ELSE [a \in DOMAIN tables |-> <<"table", tables[a]>>]

\* The start of kernel_boot_ap and kernel_boot_ap_aarch64: the console, the
\* page tables and the switch to them, the loader.
StartAp(c) ==
    /\ pc[c] = "start" /\ c # Bsp /\ ~Shared
    /\ ChooseConsole(c)
    /\ cr3' = IF Arm THEN cr3 ELSE [cr3 EXCEPT ![c] = RegionOf(c) + PgtableOffset]
    /\ CallMachoLoad(c, ApSlide(c), PageTables(c))
    /\ UNCHANGED <<input, machine, handoff>>

\* What is at core c's CORE_DISCOVERY_OFFSET, field f: the record init wrote,
\* with the core's own state beside what is published to all, or whatever has
\* been written over it.
Discovery(c, f) ==
    CASE mem[RegionOf(c) + DiscoveryOffset] # <<"discovery", c>> -> Overwritten
      [] f = "ap_core_state_phys" -> c
      [] OTHER -> Published[f]

\* Reading two fields from the place of the one before.
ReadServicesShifted(c, f) ==
    CASE f = "mutex_manager_handle" -> Discovery(c, "bsp_kernel_invoke_addr")
      [] f = "memory_manager_handle" -> Discovery(c, "mutex_manager_handle")
      [] OTHER -> Discovery(c, f)

\* The reads of the discovery record, each field at its own offset.
ReadServices(c, f) == Discovery(c, f)

\* The boot_info of the two kernel_boot_ap's: the discovery record, and on
\* ARM the core state in it and the device tree address in the copied data.
ApInfo(c) ==
    [f \in Info |->
        CASE f \in Services -> ReadServices(c, f)
          [] f \in {"caps", "kernel_invoke", "kernel_boot_ap_addr"} -> ImageOf(c)
          [] f = "kernel_load_base" -> KernelLoadBase[arch]
          [] f = "pml4_phys" /\ ~Arm -> RegionOf(c) + PgtableOffset
          [] f = "ap_core_state_phys" /\ Arm -> Discovery(c, f)
          [] f = "fdt_blob_phys" /\ Arm -> machine.fdt
          [] OTHER -> 0]

\* The rest of kernel_boot_ap and kernel_boot_ap_aarch64.
FinishAp(c) ==
    /\ c # Bsp /\ Loaded(c)
    /\ LET e == Entry(input.init, slide[c])
       IN  IF e = 0 THEN Halt(c) ELSE EnterInit(c, ApInfo(c), e)
    /\ UNCHANGED <<input, cr3, machine, console, handoff>>

\* kernel_boot_ap_shared_aarch64.
StartSharedAp(c) ==
    /\ pc[c] = "start" /\ c # Bsp /\ Shared
    /\ ChooseConsole(c)
    /\ IF \/ handoff[c].addr = 0 \/ handoff[c].init_entry = 0
          \/ handoff[c].boot_info.ap_core_state_phys = 0
       THEN Halt(c)
       ELSE EnterInit(c,
              [handoff[c].boot_info EXCEPT !.caps = ImageOf(c), !.kernel_invoke = ImageOf(c)],
              handoff[c].init_entry)
    /\ UNCHANGED <<input, cr3, machine, handoff>>

-----------------------------------------------------------------------------
\* init runs on every core that reached it, and nothing more is booted.
Settled ==
    /\ \A c \in Cores : pc[c] \in {"off", "init", "halt"}
    /\ UNCHANGED vars

Next ==
    \/ StartBsp
    \/ FinishBsp
    \/ BootProtocol
    \/ \E c \in Cores : LoadCommand(c)
    \/ \E c \in Aps : BringUp(c)
    \/ \E c \in Aps : StartAp(c)
    \/ \E c \in Aps : FinishAp(c)
    \/ \E c \in Aps : StartSharedAp(c)
    \/ Settled

Spec == Init /\ [][Next]_vars

-----------------------------------------------------------------------------
\* Properties.

\* Where the kernel image a core runs lies.
KernelOf(c) == IF c = Bsp THEN KernelLoadBase[arch] ELSE RegionOf(c)

\* The images are no larger than the slots of a region.
SlotsHold == input.kernel_len <= KernelMax /\ ImageSize(input.init) \in 1 .. InitMax

\* Once a core has entered init, the kernel it runs and every segment of its
\* init stay byte for byte what was loaded, with the tail of each segment
\* zeroed, and the entry is the byte LC_MAIN names, however the loads of the
\* other cores interleave.  On ARM the size test of kernel_boot_aarch64 is
\* what this rests on; kernel_boot makes none, so on x86_64 it is stated for
\* images that fit.
HandedOffIntact ==
    \A c \in Cores : (pc[c] = "init" /\ ~Shared /\ (Arm \/ SlotsHold)) =>
        /\ \A k \in 0 .. input.kernel_len - 1 : mem[KernelOf(c) + k] = <<"kernel", k>>
        /\ \A cmd \in Range(Commands(input.init)) : Copied(cmd) =>
              \A b \in 0 .. cmd.vmsize - 1 :
                 mem[slide[c] + cmd.vmaddr + b] =
                    IF b < cmd.filesize THEN <<"init", cmd.fileoff + b>> ELSE <<"zero", 0>>
        /\ mem[entry[c]] = <<"init", EntryOff(input.init)>>

\* On ARM, all that a starting core writes lies in the init slot of its own
\* region: never in its stack, its discovery record, another core's region or
\* the BSP's images, for any init the size test admits.
ArmApStaysInSlot ==
    Arm => \A c \in Aps : written[c] \subseteq Span(RegionOf(c) + InitOffset, InitMax)

\* The role signal of init_abi.h: the BSP, and only the BSP, hands init a zero
\* bsp_kernel_invoke_addr.  Every other core has the BSP's services under
\* their own names, from a discovery record that no load has reached (on
\* x86_64, where no size is tested, with images that fit), on ARM its own core
\* state and not another's, and cores with their own kernel copy never share a
\* capability table.
RolesAndServices ==
    \A c \in {d \in Cores : pc[d] = "init"} :
        /\ c = Bsp => info[c].bsp_kernel_invoke_addr = 0
        /\ (c # Bsp /\ (Shared \/ Arm \/ SlotsHold)) =>
              /\ info[c].bsp_kernel_invoke_addr # 0
              /\ \A f \in Services : info[c][f] = Published[f]
              /\ Arm => info[c].ap_core_state_phys = c
        /\ info[c].caps = info[c].kernel_invoke
        /\ \A d \in Cores : (pc[d] = "init" /\ d # c /\ ~Shared) => info[d].caps # info[c].caps

\* init is told where the firmware's own description of the machine is.  On
\* x86_64 that is the ACPI 2.0 table, or the 1.0 table when there is no
\* other, at its physical address although the pointers to it were remapped,
\* and nothing without a memory map to translate them;
\* on ARM the device tree from x0, or else the one in the configuration
\* table, or else the ACPI table, and never two descriptions at once.
MachineDescribed ==
    LET told == info[Bsp]
        tables == input.fw.tables
        v1 == With(tables, "acpi10")
        v2 == With(tables, "acpi20")
        dt == With(tables, "fdt")
        args == input.args.addr # 0 /\ input.args.vermajor = 2 /\ input.args.efi_system_table # 0
        mapped == args /\ input.args.efi_mmap # 0
    IN  (pc[Bsp] = "init" /\ ~Shared) =>
           IF Arm
           THEN /\ told.fdt_blob_phys # 0 => told.early_rsdp_phys = 0
                /\ StubFdt # 0 => told.fdt_blob_phys = input.x0
                /\ (StubFdt = 0 /\ args /\ dt # {} /\ input.fw.fdt_magic) =>
                      told.fdt_blob_phys = tables[Min(dt)].phys
                /\ (StubFdt = 0 /\ args /\ dt = {} /\ v2 # {}) =>
                      told.early_rsdp_phys = tables[Min(v2)].phys
                /\ \A c \in Aps : pc[c] = "init" => info[c].fdt_blob_phys = told.fdt_blob_phys
           ELSE told.early_rsdp_phys =
                   CASE mapped /\ v2 # {}            -> tables[Min(v2)].phys
                     [] mapped /\ v2 = {} /\ v1 # {} -> tables[Max(v1)].phys
                     [] OTHER                        -> 0

\* The range kernel_boot reports as the largest free one is as large as what
\* any free descriptor has left at or above the kernel, is the first of that
\* size, and lies inside its descriptor; "none" is reported only when nothing
\* is left.
FreeRangeIsLargest ==
    LET args == input.args
        base == KernelLoadBase[arch]
        free == {i \in DOMAIN args.mmap : args.mmap[i].type \in Free}
        left(i) == {x \in Span(args.mmap[i].phys, args.mmap[i].size) : x >= base}
        length(i) == IF left(i) = {} THEN 0 ELSE Max(left(i)) - Min(left(i)) + 1
        best == {i \in free : \A j \in free : length(j) <= length(i)}
        found == FindLargestFree(args, base)
    IN  (~Arm /\ args.addr # 0 /\ args.vermajor = 2 /\ args.efi_mmap # 0) =>
           IF \A i \in free : left(i) = {} THEN found.size = 0
           ELSE Span(found.base, found.size) = left(Min(best))

\* The tables a core on x86_64 runs under.
TablesOf(c) ==
    IF cr3[c] = BootPml4 THEN SetupIdentityMap32
    ELSE [a \in {x \in DOMAIN mem : mem[x][1] = "table"} |-> mem[a][2]]

\* What a core touches: its region, the BSP's image with the embedded init,
\* what it has loaded, and the local APIC.
Touched(c) ==
    (IF c = Bsp THEN {} ELSE Span(RegionOf(c), RegionSize))
    \cup Span(KernelLoadBase[arch], input.kernel_len)
    \cup {Lapic}
    \cup UNION {DOMAIN Place(cmd, slide[c]) :
                   cmd \in {x \in Range(Commands(input.init)) : Copied(x)}}

\* On x86_64, under the boot tables and from the moment a core has switched to
\* its own, whatever it touches is mapped to itself; its own tables lie in its
\* region, still as it built them, and are the ones init is told of.
RunsMapped ==
    \A c \in Cores :
        (~Arm /\ SlotsHold /\ pc[c] \in {"start", "load", "init"}) =>
            /\ \A a \in Touched(c) : Walk(TablesOf(c), cr3[c], a) = a
            /\ (c # Bsp /\ pc[c] # "start") =>
                  \A a \in Touched(c) :
                     Walked(TablesOf(c), cr3[c], a) \subseteq Span(RegionOf(c), RegionSize)
            /\ pc[c] = "init" => info[c].pml4_phys = cr3[c]

\* The UART the machine's device tree offers, or the address the kernel was
\* built with.
TreeConsole ==
    LET t == input.fdt
    IN  CASE t.cadence # 0                 -> [base |-> t.cadence, cadence |-> TRUE]
          [] t.cadence = 0 /\ t.pl011 # 0 -> [base |-> t.pl011, cadence |-> FALSE]
          [] OTHER                         -> [base |-> DefaultUart, cadence |-> FALSE]

\* A core with its own kernel copy prints where the device tree it hands to
\* init says, also when the BSP came by that tree after it had chosen its own
\* console; and so does the BSP when the tree arrived in x0, so that then all
\* cores print on one UART.  Without a valid tree they keep the built-in one.
OneConsole ==
    \A c \in Cores : (Arm /\ ~Shared /\ pc[c] = "init" /\ (c # Bsp \/ StubFdt # 0)) =>
        console[ImageOf(c)] = IF info[c].fdt_blob_phys # 0 /\ input.fdt.valid THEN TreeConsole
                              ELSE [base |-> DefaultUart, cadence |-> FALSE]

\* serial_aarch64.c:9-11 says of the built-in console that "a platform's own
\* device tree should win once discovery exists", and boot_aarch64.S:143-145
\* that boot_protocol_start's device tree is "validated the same way, byte for
\* byte" as _start's: a core that hands init a valid tree prints where the
\* tree says.
TreeWins ==
    \A c \in Cores :
        (Arm /\ pc[c] = "init" /\ machine.fdt # 0 /\ input.fdt.valid) =>
            console[ImageOf(c)] = TreeConsole

\* macho.h:23-25 says of an additional core that a nonzero target_base "is
\* what lets an additional core's init copy land in that core's own assigned
\* region instead of colliding with the BSP's".
ApInitInOwnRegion ==
    \A c \in Aps : written[c] \subseteq Span(RegionOf(c), RegionSize)

=============================================================================

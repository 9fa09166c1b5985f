------------------------------- MODULE MCBoot -------------------------------
(***************************************************************************)
(* Boots for model checking Boot.  A region has twelve units: two for the  *)
(* kernel, three for init, one for the stack and one for the discovery     *)
(* record, four for the page tables.  A gigabyte has 128 units, in huge    *)
(* pages of 32.  As in smp_layout.h, init's own addresses on x86_64 begin  *)
(* a whole number of regions above zero.                                   *)
(***************************************************************************)
EXTENDS Boot

MCKernelLoadBase == [x86_64 |-> 4, aarch64 |-> 12]
MCInitLoadBase   == [x86_64 |-> 24, aarch64 |-> 4]
MCBspMailbox     == [x86_64 |-> 8, aarch64 |-> 14]
MCRegionBase     == [x86_64 |-> 36, aarch64 |-> 24]
MCAllocMin       == [x86_64 |-> 28, aarch64 |-> 62]
MCAllocMax       == [x86_64 |-> 36, aarch64 |-> 70]

\* Distinct nonzero values, by field.
MCPublished ==
    [bsp_kernel_invoke_addr |-> 1, mutex_manager_handle |-> 11, memory_manager_handle |-> 12,
     hardware_mutex_id |-> 13, lapic_calibration_count |-> 14, cluster_scheduler_handle |-> 15,
     serial_resource_handle |-> 16, early_rsdp_phys |-> 17]

-----------------------------------------------------------------------------
\* Images.

Seg(vmaddr, vmsize, fileoff, filesize) ==
    [kind |-> "segment", vmaddr |-> vmaddr, vmsize |-> vmsize,
     fileoff |-> fileoff, filesize |-> filesize, entryoff |-> 0]

Main(off) == [Seg(0, 0, 0, 0) EXCEPT !.kind = "main", !.entryoff = off]

Uuid == [Seg(0, 0, 0, 0) EXCEPT !.kind = "other"]

Slice(cmds) == [listed |-> NativeCpu, magic |-> TRUE, cpu |-> NativeCpu, cmds |-> cmds]

Thin(cmds) == [container |-> "thin", slices |-> <<Slice(cmds)>>]

Foreign == [Slice(<<>>) EXCEPT !.listed = "other", !.cpu = "other"]

\* Linked at base: a page zero, text, and data with a zeroed tail.
TextData(base, tail) ==
    <<Seg(0, base, 0, 0), Seg(base, 1, 0, 1), Seg(base + 1, 1 + tail, 1, 1)>>

Bootable(base) ==
    {Thin(TextData(base, 1) \o <<Main(0)>>),
     Thin(<<Main(1), Uuid>> \o TextData(base, 1)),
     [container |-> "fat", slices |-> <<Foreign, Slice(TextData(base, 0) \o <<Main(0)>>)>>],
     Thin(TextData(base, 2) \o <<Main(0)>>)}

Unbootable(base) ==
    {Thin(TextData(base, 1)),
     Thin(TextData(base, 1) \o <<Main(5)>>),
     [container |-> "fat", slices |-> <<Foreign>>],
     [container |-> "fat", slices |-> <<[Foreign EXCEPT !.listed = NativeCpu]>>],
     [container |-> "thin", slices |-> <<Foreign>>],
     [container |-> "thin", slices |-> <<[Slice(<<>>) EXCEPT !.magic = FALSE]>>],
     [container |-> "unknown", slices |-> <<>>]}

\* The kernel's own image, n units long, with an LC_UNIXTHREAD.
KernelImage(n) == Thin(<<Seg(0, 4, 0, 0), Seg(4, n, 0, n), Uuid>>)

-----------------------------------------------------------------------------
\* Firmware.  The remapped range 36..39 stands for 116..119 and lies, as
\* numbers go, inside conventional memory.

High == 2 * Word

Desc(phys, virt, size, type) == [phys |-> phys, virt |-> virt, size |-> size, type |-> type]

Map == <<Desc(0, 0, 80, "conventional"), Desc(116, High + 36, 4, "runtime"),
         Desc(110, 110, 4, "acpi_reclaim")>>

\* Free ranges below, around and above the kernel, as large as one another or
\* not, and none at all.
FreeMaps ==
    {<<Desc(a, a, n, "boot_services_data"), Desc(20, 20, m, t), Desc(40, 40, 5, "loader_data"),
       Desc(60, 60, 3, "conventional")>> :
         a \in {0, 3, 12}, n \in {4, 5, 6}, m \in {3, 4}, t \in {"boot_services_code", "reserved"}}
    \cup {<<>>, <<Desc(0, 0, 4, "conventional")>>, <<Desc(20, 20, 9, "loader_code")>>}

Virtual(phys) == IF phys >= 116 THEN High + phys - 80 ELSE phys

Listed(guid, phys) == [guid |-> guid, phys |-> phys, ptr |-> Virtual(phys)]

TableSets ==
    {<<>>, <<Listed("smbios", 112)>>, <<Listed("acpi10", 111), Listed("acpi20", 113)>>,
     <<Listed("acpi20", 119), Listed("acpi10", 111)>>,
     <<Listed("acpi10", 111), Listed("acpi10", 119)>>, <<Listed("acpi20", 100)>>}

Args(v) == [addr |-> 1, vermajor |-> v, ram_size |-> 9, efi_mmap |-> 2, mmap |-> Map,
            efi_system_table |-> 37]

NoArgs == [Args(1) EXCEPT !.addr = 0]

\* No memory map, and one without descriptors.
NoMap == [Args(2) EXCEPT !.efi_mmap = 0, !.mmap = <<>>]
EmptyMap == [Args(2) EXCEPT !.mmap = <<>>, !.efi_system_table = 117]

Firmware(tables, config) ==
    [sys_phys |-> 117, tables_phys |-> config, fdt_magic |-> TRUE, fdt_size |-> 3,
     tables |-> tables, config |-> Virtual(config)]

\* On ARM every pointer is physical.
Physical(tables) == [i \in DOMAIN tables |-> [tables[i] EXCEPT !.ptr = tables[i].phys]]

ArmTables == {Physical(t) : t \in TableSets}
             \cup {<<Listed("acpi20", 111), Listed("fdt", 112)>>, <<Listed("fdt", 113)>>}

-----------------------------------------------------------------------------
\* Inputs.

\* What a device tree says.
Tree(valid, cadence, pl011) ==
    [size |-> 3, valid |-> valid, ram |-> 7, cadence |-> cadence, pl011 |-> pl011]

NoTree == Tree(FALSE, 0, 0)

Trees == {NoTree, Tree(TRUE, 0, 0), Tree(TRUE, 0, 8), Tree(TRUE, 9, 8)}

X86(init, n, args, fw) ==
    [arch |-> "x86_64", path |-> "legacy", init |-> init, kernel |-> KernelImage(n),
     kernel_len |-> n, args |-> args, fw |-> fw, x0 |-> 0, x0_magic |-> FALSE,
     fdt |-> NoTree, init_entry |-> 0, init_description |-> 0]

X86Fw == Firmware(<<Listed("acpi20", 119)>>, 118)

X86Inputs ==
    LET base == MCInitLoadBase["x86_64"]
        plain == Thin(TextData(base, 1) \o <<Main(0)>>)
    IN  {X86(i, 2, Args(2), X86Fw) : i \in Bootable(base) \cup Unbootable(base)}
        \cup {X86(plain, 2, a, Firmware(t, c)) :
                 a \in {Args(2), Args(1), NoArgs, NoMap}, t \in TableSets, c \in {110, 118}}
        \cup {X86(plain, 2, EmptyMap, Firmware(Physical(t), 110)) : t \in TableSets}
        \cup {[X86(plain, 2, Args(2), X86Fw) EXCEPT !.kernel = [@ EXCEPT !.container = "unknown"]]}
        \cup {X86(plain, 2, [Args(2) EXCEPT !.mmap = m, !.efi_system_table = 0], X86Fw) : m \in FreeMaps}

Arm64(init, n, x0, magic, args, fw) ==
    [X86(init, n, args, fw) EXCEPT
        !.arch = "aarch64", !.x0 = x0, !.x0_magic = magic, !.fdt = Tree(TRUE, 0, 8)]

ArmFw(tables) == Firmware(tables, 110)

Protocol(init_entry, x0) ==
    [Arm64(Thin(<<>>), 2, x0, x0 # 0, NoArgs, ArmFw(<<>>)) EXCEPT
        !.path = "protocol", !.init_entry = init_entry, !.init_description = 3]

ArmInputs ==
    LET base == MCInitLoadBase["aarch64"]
        plain == Thin(TextData(base, 1) \o <<Main(0)>>)
    IN  {Arm64(i, n, 1, TRUE, NoArgs, ArmFw(<<>>)) :
            i \in Bootable(base) \cup Unbootable(base), n \in {2, 3}}
        \cup {[Arm64(plain, 2, 1, FALSE, Args(v), ArmFw(t)) EXCEPT !.fw.fdt_magic = m] :
                 v \in {1, 2}, t \in ArmTables, m \in BOOLEAN}
        \cup {[Arm64(plain, 2, 1, TRUE, NoArgs, ArmFw(<<>>)) EXCEPT !.fdt = t] : t \in Trees}
        \cup {[Arm64(plain, 2, 1, FALSE, Args(2), ArmFw(<<Listed("fdt", 113)>>)) EXCEPT !.fdt = t] :
                 t \in Trees}
        \cup {Protocol(e, f) : e \in {0, 5}, f \in {0, 1}}

MCInputs == X86Inputs \cup ArmInputs

X86Only == X86Inputs

ArmOnly == ArmInputs

=============================================================================

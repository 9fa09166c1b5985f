------------------------------ MODULE BootArgs ------------------------------
(***************************************************************************)
(* What the boot code reads from the firmware and the boot loader: the XNU *)
(* boot arguments with the EFI memory map (kernel/kernel.c) and the EFI    *)
(* configuration table (kernel/kernel.c and kernel/kernel_boot_aarch64.c). *)
(*                                                                         *)
(* args are the boot arguments.  args.efi_mmap is the address of the       *)
(* memory map, 0 without one, and args.mmap its descriptors [phys, virt,   *)
(* size, type], sizes in the unit of addresses.  fw is what lies in        *)
(* firmware memory: the system table is at fw.sys_phys and points, through *)
(* fw.config, at the configuration table at fw.tables_phys, whose entries  *)
(* are fw.tables.                                                          *)
(***************************************************************************)
EXTENDS Integers, Sequences, FiniteSets, FiniteSetsExt

CONSTANTS Word,       \* the number of 32-bit values (2^32)
          MaxTables   \* the most entries efi_find_table believes (256)

ASSUME BootArgsAssumption == Word \in Nat \ {0} /\ MaxTables \in Nat

\* xnu_boot_args_ram_size: 0 is "unknown".
RamSize(args) == IF args.addr = 0 \/ args.vermajor # 2 THEN 0 ELSE args.ram_size

\* Memory maps and configuration tables, as sequences.
MemoryMap == Seq([phys : Nat, virt : Nat, size : Nat, type : STRING])
ConfigTable == Seq([guid : STRING, phys : Nat, ptr : Nat])

\* efi_type_is_free.
Free == {"conventional", "boot_services_code", "boot_services_data"}

\* Raising the start of a range without taking anything off its size.
ClipMoved(d, min_addr) ==
    IF d.phys >= min_addr THEN [base |-> d.phys, size |-> d.size]
    ELSE IF min_addr - d.phys >= d.size THEN [base |-> min_addr, size |-> 0]
    ELSE [base |-> min_addr, size |-> d.size]

\* What is left of a descriptor at or above min_addr.
Clip(d, min_addr) ==
    IF d.phys >= min_addr THEN [base |-> d.phys, size |-> d.size]
    ELSE IF min_addr - d.phys >= d.size THEN [base |-> min_addr, size |-> 0]
    ELSE [base |-> min_addr, size |-> d.size - (min_addr - d.phys)]

\* The better of the best range so far and what is left of a descriptor.
Better(best, d, min_addr) ==
    IF d.type \in Free /\ Clip(d, min_addr).size > best.size THEN Clip(d, min_addr) ELSE best

\* A range of size 0 is "none".
NoRange == [base |-> 0, size |-> 0]

\* The best range after the first n descriptors, by n.
BestAfter(args, min_addr) ==
    LET after[n \in 0 .. Len(args.mmap)] ==
            IF n = 0 THEN NoRange ELSE Better(after[n - 1], args.mmap[n], min_addr)
    IN  after

\* xnu_boot_args_find_largest_free: one pass that keeps the best range so far.
FindLargestFree(args, min_addr) ==
    IF args.addr = 0 \/ args.vermajor # 2 \/ args.efi_mmap = 0 THEN NoRange
    ELSE BestAfter(args, min_addr)[Len(args.mmap)]

\* A descriptor's virtual range holds v, in the low 32 bits.
HoldsVirtual(d, v) == v >= (d.virt % Word) /\ v < (d.virt % Word) + d.size

\* Considering every descriptor, the ones that were not remapped too.
TranslateAny(args, v) ==
    LET hits == {i \in DOMAIN args.mmap : HoldsVirtual(args.mmap[i], v)}
        d == args.mmap[Min(hits)]
    IN  IF args.efi_mmap = 0 THEN 0
        ELSE IF hits = {} THEN v
        ELSE (d.phys + (v - (d.virt % Word))) % Word

\* xnu_efi_translate_virt: through the first remapped descriptor that holds
\* the address, or the address itself; 0 without a memory map.
TranslateVirt(args, v) ==
    LET hits == {i \in DOMAIN args.mmap : /\ args.mmap[i].virt # args.mmap[i].phys
                                          /\ HoldsVirtual(args.mmap[i], v)}
        d == args.mmap[Min(hits)]
    IN  IF args.efi_mmap = 0 THEN 0
        ELSE IF hits = {} THEN v
        ELSE (d.phys + (v - (d.virt % Word))) % Word

\* The low 32 bits v of a pointer stand for the physical address p: p lies in
\* the one remapped range whose virtual image holds v, at the same offset, or
\* p was not remapped and v is p, in no such image.
StandsFor(args, v, p) ==
    LET moved == {i \in DOMAIN args.mmap : args.mmap[i].virt # args.mmap[i].phys}
    IN  /\ v \in 0 .. Word - 1 /\ p \in 1 .. Word - 1
        /\ \/ \E i \in moved :
                 /\ p >= args.mmap[i].phys /\ p < args.mmap[i].phys + args.mmap[i].size
                 /\ v = (args.mmap[i].virt % Word) + (p - args.mmap[i].phys)
                 /\ \A j \in moved : HoldsVirtual(args.mmap[j], v) => j = i
           \/ v = p /\ \A j \in moved : ~HoldsVirtual(args.mmap[j], v)

\* The entries of the configuration table with a given GUID.
With(tables, guid) == {i \in DOMAIN tables : tables[i].guid = guid}

\* xnu_boot_args_find_rsdp: the ACPI 2.0 table if it is listed, else the last
\* ACPI 1.0 one; every pointer on the way is translated, and the system
\* table's signature is checked before it is believed.  A configuration table
\* read anywhere but where it lies has no ACPI entries.
FindRsdp(args, fw) ==
    LET sys == TranslateVirt(args, args.efi_system_table)
        tables == TranslateVirt(args, fw.config % Word)
        listed == IF tables = fw.tables_phys THEN fw.tables ELSE <<>>
        v2 == With(listed, "acpi20")
        v1 == With(listed, "acpi10")
    IN  IF \/ args.addr = 0 \/ args.vermajor # 2 \/ args.efi_system_table = 0
           \/ sys = 0 \/ sys # fw.sys_phys
           \/ fw.config = 0 \/ tables = 0
        THEN 0
        ELSE CASE v2 # {} -> TranslateVirt(args, listed[Min(v2)].ptr % Word)
               [] v2 = {} /\ v1 # {} /\ listed[Max(v1)].ptr % Word # 0
                          -> TranslateVirt(args, listed[Max(v1)].ptr % Word)
               [] OTHER   -> 0

\* efi_find_table: the first entry with the GUID.  Pointers are physical here.
EfiFindTable(args, fw, guid) ==
    IF args.efi_system_table = 0 \/ fw.config = 0 \/ Len(fw.tables) > MaxTables
       \/ With(fw.tables, guid) = {}
    THEN 0
    ELSE fw.tables[Min(With(fw.tables, guid))].ptr

\* Adopting the device tree of the configuration table without its size.
ResolveXnuBootParamsUnsized(x0, m, args, fw) ==
    LET listed == EfiFindTable(args, fw, "fdt")
    IN  CASE m.fdt # 0 \/ x0 = 0 \/ args.vermajor # 2 -> m
          [] OTHER ->
               [m EXCEPT !.fdt  = IF listed # 0 /\ fw.fdt_magic THEN listed ELSE @,
                         !.rsdp = IF listed = 0 THEN EfiFindTable(args, fw, "acpi20") ELSE @]

\* resolve_xnu_boot_params: what becomes of the device tree's address and
\* size and the RSDP's address when x0 may hold boot arguments instead of a
\* device tree.  The RSDP is looked for only when no device tree is listed
\* at all.
ResolveXnuBootParams(x0, m, args, fw) ==
    LET listed == EfiFindTable(args, fw, "fdt")
        adopted == listed # 0 /\ fw.fdt_magic
    IN  CASE m.fdt # 0 \/ x0 = 0 \/ args.vermajor # 2 -> m
          [] OTHER ->
               [m EXCEPT !.fdt  = IF adopted THEN listed ELSE @,
                         !.size = IF adopted THEN fw.fdt_size ELSE @,
                         !.rsdp = IF listed = 0 THEN EfiFindTable(args, fw, "acpi20") ELSE @]

=============================================================================

------------------------------- MODULE Paging -------------------------------
(***************************************************************************)
(* The x86_64 page tables the kernel builds: the boot map of kernel/boot.S *)
(* and the map of an additional core, kernel/kernel.c.  Tables are a       *)
(* function from the address of a table to its entries.  An entry is       *)
(* absent, points at another table, or maps a huge page.                   *)
(***************************************************************************)
EXTENDS Integers

CONSTANTS Entries,    \* entries of a table (512)
          PageSize    \* a huge page (2 MiB)

ASSUME PagingAssumption == Entries \in Nat /\ Entries >= 4 /\ PageSize \in Nat \ {0}

Gigabyte == Entries * PageSize

Absent    == [kind |-> "absent", to |-> 0]
Table(at) == [kind |-> "table", to |-> at]
Huge(at)  == [kind |-> "huge", to |-> at]

\* fill_pd32: a page directory that maps one gigabyte from the given address.
FillPd32(from) == [i \in 0 .. Entries - 1 |-> Huge(from + i * PageSize)]

\* The boot tables, six pages of the kernel's data, here known as 1 to 6.
BootPml4 == 1

\* setup_identity_map32: the PML4, the PDPT, and a directory per gigabyte.
SetupIdentityMap32 ==
    [p \in BootPml4 .. BootPml4 + 5 |->
        CASE p = BootPml4     -> [i \in 0 .. Entries - 1 |->
                                    IF i = 0 THEN Table(BootPml4 + 1) ELSE Absent]
          [] p = BootPml4 + 1 -> [i \in 0 .. Entries - 1 |->
                                    IF i < 4 THEN Table(BootPml4 + 2 + i) ELSE Absent]
          [] OTHER            -> FillPd32((p - BootPml4 - 2) * Gigabyte)]

\* A second directory that starts over from address zero.
BuildApPageTablesLow(pml4, size) ==
    LET pdpt  == pml4 + size
        pd    == pml4 + 2 * size
        pd_hi == pml4 + 3 * size
    IN  [p \in {pml4, pdpt, pd, pd_hi} |->
            CASE p = pml4 -> [i \in 0 .. Entries - 1 |-> IF i = 0 THEN Table(pdpt) ELSE Absent]
              [] p = pdpt -> [i \in 0 .. Entries - 1 |->
                                IF i = 0 THEN Table(pd)
                                ELSE IF i = 3 THEN Table(pd_hi) ELSE Absent]
              [] p = pd    -> FillPd32(0)
              [] p = pd_hi -> FillPd32(0)]

\* build_ap_page_tables: the first and the fourth gigabyte, in four tables of
\* the given size from address pml4 on.
BuildApPageTables(pml4, size) ==
    LET pdpt  == pml4 + size
        pd    == pml4 + 2 * size
        pd_hi == pml4 + 3 * size
    IN  [p \in {pml4, pdpt, pd, pd_hi} |->
            CASE p = pml4 -> [i \in 0 .. Entries - 1 |-> IF i = 0 THEN Table(pdpt) ELSE Absent]
              [] p = pdpt -> [i \in 0 .. Entries - 1 |->
                                IF i = 0 THEN Table(pd)
                                ELSE IF i = 3 THEN Table(pd_hi) ELSE Absent]
              [] p = pd    -> FillPd32(0)
              [] p = pd_hi -> FillPd32(3 * Gigabyte)]

-----------------------------------------------------------------------------
\* External: what the processor makes of the tables.

Fault == -1

\* The entry for index i of the table an entry points at.
Follow(tables, e, i) ==
    IF e.kind = "table" /\ e.to \in DOMAIN tables THEN tables[e.to][i % Entries] ELSE Absent

\* The physical address of va below cr3, or Fault.
Walk(tables, cr3, va) ==
    LET pml4e == Follow(tables, Table(cr3), va \div (Entries * Gigabyte))
        pdpte == Follow(tables, pml4e, va \div Gigabyte)
        pde   == Follow(tables, pdpte, va \div PageSize)
    IN  IF pde.kind = "huge" THEN pde.to + (va % PageSize) ELSE Fault

\* The tables that are read on the way.
Walked(tables, cr3, va) ==
    LET pml4e == Follow(tables, Table(cr3), va \div (Entries * Gigabyte))
        pdpte == Follow(tables, pml4e, va \div Gigabyte)
    IN  {e.to : e \in {x \in {Table(cr3), pml4e, pdpte} : x.kind = "table"}}

=============================================================================

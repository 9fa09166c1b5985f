-------------------------------- MODULE Fdt --------------------------------
(***************************************************************************)
(* The read-only device tree walker, lib/fdt.c.                            *)
(*                                                                         *)
(* The structure block is a sequence of items, one per token together with *)
(* the payload that follows it:                                            *)
(*   tok    the token                                                      *)
(*   name   a node's name, or the string a property's name offset selects; *)
(*          NoString when that offset lies outside the strings block       *)
(*   val    a property's value in 32-bit cells, or for "compatible"        *)
(*          the strings it lists, or for "status" its characters           *)
(*   whole  FALSE when the payload runs past the end of the block          *)
(* A node's offset is the position of its BEGIN_NODE item, so the root is  *)
(* at 1, and 0 stands for the fresh cursor of fdt_next_child.  Every bounds*)
(* test of the C code is a test that a position is still in the block or   *)
(* that an item is whole.                                                  *)
(*                                                                         *)
(* rsvmap is the same blob read as memory reservations: the entry that     *)
(* starts at each offset.                                                  *)
(***************************************************************************)
EXTENDS Integers, Sequences, FiniteSets, FiniteSetsExt, Functions

CONSTANTS MaxDepth,   \* FDT_MAX_DEPTH
          Radix,      \* the number of values of one cell (2^32)
          HeaderSize, \* the bytes of an FDT header (40)
          RsvEntry,   \* the bytes of a reservation (16)
          NoString,   \* str_at found nothing
          Memory      \* names of the form memory or memory@...

VARIABLES header,     \* the fields of the blob's header
          blob,       \* the items of its structure block
          rsvmap      \* the memory reservation at an offset

ASSUME FdtAssumption == {MaxDepth, Radix, RsvEntry} \subseteq Nat \ {0}

\* FDT_ERR_NODE.
Err == -1

\* The values of a 32-bit word.
Word == 0 .. Radix - 1

Tokens == {"BEGIN_NODE", "END_NODE", "PROP", "NOP", "END"}

-----------------------------------------------------------------------------
\* The header.  All of its fields are 32-bit words.

\* Adding the offset to the size would wrap around the width of the fields.
CtxInitBySum(h) ==
    /\ h.magic
    /\ (h.off_struct + h.size_struct) % Radix <= h.totalsize
    /\ (h.off_strings + h.size_strings) % Radix <= h.totalsize

\* ctx_init: the magic number, and both blocks inside totalsize.  The
\* differences cannot be negative: the first test of each line excludes it.
CtxInit(h) ==
    /\ h.magic
    /\ h.off_struct <= h.totalsize
    /\ h.size_struct <= h.totalsize - h.off_struct
    /\ h.off_strings <= h.totalsize
    /\ h.size_strings <= h.totalsize - h.off_strings

\* fdt_valid, for a caller that knows blob_size bytes of the blob.
FdtValid(h, blob_size) ==
    /\ blob_size >= HeaderSize
    /\ h.totalsize <= blob_size
    /\ CtxInit(h)

-----------------------------------------------------------------------------
\* Walking the structure block.

\* ok: the token at i lies inside the structure block.
Inside(i) == CtxInit(header) /\ i \in DOMAIN blob

IsNode(i) == Inside(i) /\ blob[i].tok = "BEGIN_NODE"

\* after_name: the position after a node's name, or Err.
AfterName(n) == IF IsNode(n) /\ blob[n].whole THEN n + 1 ELSE Err

\* The loop of fdt_first_child and fdt_next_sibling: step over the given
\* tokens, and answer the node found next, if a node is what is found.  The
\* name of that node is not looked at.
Seek(i, over) ==
    LET stops == {j \in i .. Len(blob) :
                     \/ blob[j].tok \notin over
                     \/ blob[j].tok = "PROP" /\ ~blob[j].whole}
    IN  IF stops # {} /\ IsNode(Min(stops)) THEN Min(stops) ELSE Err

\* fdt_first_child.
FirstChild(n) ==
    IF AfterName(n) = Err THEN Err ELSE Seek(AfterName(n), {"PROP", "NOP"})

\* The loop of skip_node, at position i with the given depth.
Skip[i \in Nat] ==
    [depth \in Int |->
        IF ~Inside(i) THEN Err
        ELSE CASE blob[i].tok = "BEGIN_NODE" /\ blob[i].whole -> Skip[i + 1][depth + 1]
               [] blob[i].tok = "END_NODE" ->
                    IF depth - 1 <= 0 THEN i + 1 ELSE Skip[i + 1][depth - 1]
               [] blob[i].tok = "PROP" /\ blob[i].whole -> Skip[i + 1][depth]
               [] blob[i].tok = "NOP" -> Skip[i + 1][depth]
               [] OTHER -> Err]

\* skip_node: the position after the END_NODE that closes node n, or Err.
SkipNode(n) == Skip[n][0]

\* A stack of nodes grows at its end.
Top(s) == s[Len(s)]

Pop(s) == SubSeq(s, 1, Len(s) - 1)

\* The loop of fdt_parent_offset, at position i with the stack of open nodes.
\* The C array keeps the first FDT_MAX_DEPTH of them, and a parent beyond it
\* is not found.
Walk(n) ==
    LET walk[i \in Nat] ==
          [open \in Seq(Nat) |->
              IF ~Inside(i) THEN Err
              ELSE CASE blob[i].tok = "BEGIN_NODE" /\ blob[i].whole ->
                          IF i # n THEN walk[i + 1][Append(open, i)]
                          ELSE IF open = <<>> \/ Len(open) - 1 >= MaxDepth THEN Err
                          ELSE Top(open)
                     [] blob[i].tok = "END_NODE" /\ Len(open) > 1 -> walk[i + 1][Pop(open)]
                     [] blob[i].tok = "PROP" /\ blob[i].whole -> walk[i + 1][open]
                     [] blob[i].tok = "NOP" -> walk[i + 1][open]
                     [] OTHER -> Err]
    IN  walk

\* fdt_parent_offset: walk from the root until the target opens.
ParentOffset(n) == Walk(n)[1][<<>>]

\* Going on from the previous sibling's own first token, past its children.
NextSiblingUnskipped(par, prev) ==
    IF ParentOffset(prev) # par THEN Err ELSE Seek(prev + 1, {"PROP", "NOP", "END_NODE"})

\* fdt_next_sibling: the parent is checked, the previous sibling skipped.
NextSibling(par, prev) ==
    IF ParentOffset(prev) # par \/ SkipNode(prev) = Err THEN Err
    ELSE Seek(SkipNode(prev), {"NOP"})

\* fdt_next_child: what the call returns, which is also what it leaves in the
\* caller's cursor.  0 when there is no further child.
NextChild(par, cursor) ==
    LET c == IF cursor = 0 THEN FirstChild(par) ELSE NextSibling(par, cursor)
    IN  IF c = Err THEN 0 ELSE c

\* fdt_getprop: the position of the property, or Err.  A property whose name
\* cannot be read ends the search.
GetProp(n, name) ==
    LET stops == {j \in n + 1 .. Len(blob) :
                     ~ \/ blob[j].tok = "NOP"
                       \/ /\ blob[j].tok = "PROP"
                          /\ blob[j].whole
                          /\ blob[j].name \notin {name, NoString}}
        j == Min(stops)
    IN  IF /\ AfterName(n) # Err
           /\ stops # {}
           /\ blob[j].tok = "PROP" /\ blob[j].whole /\ blob[j].name = name
        THEN j ELSE Err

\* The value of a property that is there.
Value(n, name) == blob[GetProp(n, name)].val

\* Where a lookup leads: to an item of the block, or nowhere.
Spots == DOMAIN blob \cup {Err}

\* The inner loop of fdt_path_offset, at child ch of cur.
Named(cur, name) ==
    LET find[ch \in Spots] ==
          IF ch = Err \/ ~blob[ch].whole THEN Err
          ELSE IF blob[ch].name = name THEN ch
          ELSE find[NextSibling(cur, ch)]
    IN  find

\* The outer loop of fdt_path_offset: at component k of the path, inside cur.
Descend(path) ==
    LET descend[k \in Nat] ==
          [cur \in Spots |->
              IF cur = Err \/ k > Len(path) THEN cur
              ELSE descend[k + 1][Named(cur, path[k])[FirstChild(cur)]]]
    IN  descend

\* fdt_path_offset, for the components of a path that starts with a slash.
PathOffset(path) == Descend(path)[1][IF IsNode(1) THEN 1 ELSE Err]

\* compatible_match at a node: any string of the list, not only the first.
Matches(n, want) ==
    /\ GetProp(n, "compatible") # Err
    /\ want \in Range(Value(n, "compatible"))

\* The end of a string.
NUL == "NUL"

\* fdt_is_enabled: no status, an empty one, "okay" or "ok".
IsEnabled(n) ==
    GetProp(n, "status") # Err =>
        LET st == Value(n, "status")
        IN  \/ st = <<>>
            \/ Len(st) >= 5 /\ SubSeq(st, 1, 4) = <<"o", "k", "a", "y">>
            \/ Len(st) >= 3 /\ SubSeq(st, 1, 2) = <<"o", "k">> /\ (st[3] = NUL \/ Len(st) = 3)

-----------------------------------------------------------------------------
\* Cell counts, register addresses and memory.

\* own_cells: what node n itself declares, or Err.
OwnCells(n, name) ==
    IF GetProp(n, name) = Err \/ Value(n, name) = <<>> THEN Err
    ELSE Value(n, name)[1]

\* Reading the parent's own declaration without looking further up.
ParentCellsNear(n, name) ==
    IF ParentOffset(n) = Err \/ OwnCells(ParentOffset(n), name) = Err THEN 2
    ELSE OwnCells(ParentOffset(n), name)

\* The loop of fdt_parent_cells, at ancestor cur.
NearestCells(name) ==
    LET climb[cur \in Spots] ==
          IF cur = Err THEN 2
          ELSE IF OwnCells(cur, name) # Err THEN OwnCells(cur, name)
          ELSE climb[ParentOffset(cur)]
    IN  climb

\* fdt_parent_cells, one of its two results: the declaration of the nearest
\* proper ancestor that has one, or 2.
ParentCells(n, name) == NearestCells(name)[ParentOffset(n)]

\* rd_cells: one cell, or two for any other width.
RdCells(v, at, cells) ==
    IF cells = 1 THEN v[at] ELSE v[at] * Radix + v[at + 1]

\* The base and the size of entry k (from 0) of a reg value.
RegEntry(v, ac, sc, k) ==
    [base |-> RdCells(v, k * (ac + sc) + 1, ac),
     size |-> IF sc = 0 THEN 0 ELSE RdCells(v, k * (ac + sc) + ac + 1, sc)]

OrTwo(cells) == IF cells \in {0, Err} THEN 2 ELSE cells

\* The windows of a ranges value, read with the three widths.
Windows(v, own_ac, ra, rs) ==
    LET entry == own_ac + ra + rs
    IN  [k \in 1 .. Len(v) \div entry |->
            LET at == (k - 1) * entry + 1 IN
            [child  |-> RdCells(v, at, own_ac),
             parent |-> RdCells(v, at + own_ac, ra),
             size   |-> RdCells(v, at + own_ac + ra, rs)]]

\* One bus of fdt_reg_to_cpu_addr: base seen from the parent of bus cur, or
\* Err when it lies in no window.  Sums are 64-bit, that is two cells wide.
Translate(cur, base) ==
    IF GetProp(cur, "ranges") = Err \/ Value(cur, "ranges") = <<>> THEN base
    ELSE LET w == Windows(Value(cur, "ranges"),
                          OrTwo(OwnCells(cur, "#address-cells")),
                          OrTwo(ParentCells(cur, "#address-cells")),
                          OrTwo(OwnCells(cur, "#size-cells")))
             hits == {k \in DOMAIN w :
                        /\ base >= w[k].child
                        /\ base < (w[k].child + w[k].size) % (Radix * Radix)}
         IN  IF hits = {} THEN Err
             ELSE (w[Min(hits)].parent + (base - w[Min(hits)].child)) % (Radix * Radix)

\* Stopping at the first bus with windows.
UpOneBus ==
    LET up[cur \in Spots] ==
          [base \in Int |->
              IF base = Err \/ ParentOffset(cur) = Err THEN base
              ELSE IF GetProp(cur, "ranges") # Err THEN Translate(cur, base)
              ELSE up[ParentOffset(cur)][base]]
    IN  up

\* The loop of fdt_reg_to_cpu_addr, at node cur with the address so far.
UpBuses ==
    LET up[cur \in Spots] ==
          [base \in Int |->
              IF base = Err \/ ParentOffset(cur) = Err THEN base
              ELSE up[ParentOffset(cur)][Translate(cur, base)]]
    IN  up

\* fdt_reg_to_cpu_addr, which begins with the node's own ranges: the base it
\* answers.  Its size is that of the reg entry, which no caller reads.
RegToCpuAddr(n, index) ==
    LET ac == ParentCells(n, "#address-cells")
        sc == ParentCells(n, "#size-cells")
    IN  IF \/ GetProp(n, "reg") = Err
           \/ ac = 0
           \/ (index + 1) * (ac + sc) > Len(Value(n, "reg"))
        THEN Err
        ELSE UpBuses[n][RegEntry(Value(n, "reg"), ac, sc, index).base]

\* The entries of one memory node, in fdt_memory_ranges.
BankEntries(n) ==
    LET ac == ParentCells(n, "#address-cells")
        sc == ParentCells(n, "#size-cells")
    IN  IF GetProp(n, "reg") = Err \/ ac = 0 THEN <<>>
        ELSE [k \in 1 .. Len(Value(n, "reg")) \div (ac + sc) |->
                RegEntry(Value(n, "reg"), ac, sc, k - 1)]

\* The entries of the out array.
MemRange == [base : Nat, size : Nat]

Upto(s, max) == SubSeq(s, 1, IF Len(s) < max THEN Len(s) ELSE max)

\* The loop of fdt_memory_ranges, at child ch of the root with the entries so
\* far.
Banks ==
    LET bank[ch \in Spots] ==
          [got \in Seq(MemRange) |->
              IF ch = Err THEN got
              ELSE bank[NextSibling(1, ch)]
                       [IF blob[ch].whole /\ blob[ch].name \in Memory
                        THEN got \o BankEntries(ch) ELSE got]]
    IN  bank

\* Giving up at the first child of the root that is not a memory node.
MemoryRangesStop(max) ==
    LET bank[ch \in Spots] ==
          [got \in Seq(MemRange) |->
              IF ch = Err \/ ~blob[ch].whole \/ blob[ch].name \notin Memory THEN got
              ELSE bank[NextSibling(1, ch)][got \o BankEntries(ch)]]
    IN  Upto(bank[IF IsNode(1) THEN FirstChild(1) ELSE Err][<<>>], max)

\* fdt_memory_ranges: every entry of every memory node under the root, in
\* order, as far as the caller's array of max entries reaches.
MemoryRanges(max) ==
    Upto(Banks[IF IsNode(1) THEN FirstChild(1) ELSE Err][<<>>], max)

\* The loop of fdt_reserved_ranges, at offset off with the entries so far: up
\* to the terminator, the end of the blob or the end of the caller's array.
Reservations(max) ==
    LET scan[off \in Word] ==
          [got \in Seq(MemRange) |->
              IF \/ Len(got) >= max
                 \/ off > header.totalsize \/ header.totalsize - off < RsvEntry
                 \/ rsvmap[off] = [base |-> 0, size |-> 0]
              THEN got
              ELSE scan[(off + RsvEntry) % Radix][Append(got, rsvmap[off])]]
    IN  scan

\* fdt_reserved_ranges.
ReservedRanges(max) ==
    IF CtxInit(header) THEN Reservations(max)[header.off_mem_rsvmap][<<>>] ELSE <<>>

=============================================================================

----------------------------- MODULE FdtClient -----------------------------
(***************************************************************************)
(* The two walks of lib/fdt.c that keep state between steps: a caller      *)
(* enumerating a node's children with the cursor of fdt_next_child, and    *)
(* the depth-first search of fdt_node_by_compatible_offset, one iteration  *)
(* of its loops per step; and serial_init of kernel/serial_aarch64.c,      *)
(* which makes up to three searches to choose the console.  The blob is    *)
(* never written.                                                          *)
(*                                                                         *)
(* The second half states what the walks and the lookups answer, in terms  *)
(* of the tree that FdtTree defines.                                       *)
(***************************************************************************)
EXTENDS FdtTree

CONSTANTS Cases,      \* the blobs: their header, their items, their reservations,
                      \* blob_size, and what is called with them
          Wanted,     \* the compatible string a lookup searches for
          Cdns, Zynqmp, Pl011,   \* the compatible strings serial_init knows
          DefaultBase,           \* PL011_DEFAULT_BASE
          MaxRanges   \* entries of the array given to fdt_memory_ranges

VARIABLES size,       \* blob_size, as passed to fdt_valid
          pc,         \* "idle", then "list", "visit", "climb" or "found",
                      \* then "done"
          calls,      \* which of the three calls this blob is given to
          caller,     \* the one made: "list", "lookup" or "serial_init"
          want,       \* the compatible string being searched for
          parent,     \* the node whose children are listed
          cursor,     \* the caller's cursor
          seen,       \* what fdt_next_child has returned so far
          stack,      \* stack[0..depth] of the search
          result,     \* what the search returned
          uart        \* g_uart_base and g_uart_is_cadence

\* serial_init looks for three different strings.
ASSUME NamesAssumption == Cdns # Zynqmp /\ Cdns # Pl011 /\ Zynqmp # Pl011

ASSUME MaxRangesAssumption == MaxRanges \in Nat

\* A blob is a sequence of items, and its header holds unsigned words.  So do
\* the properties, except for the two that hold strings.
ASSUME CasesAssumption ==
    \A c \in Cases :
        /\ c.size \in Nat
        /\ {c.header.totalsize, c.header.off_struct, c.header.size_struct,
            c.header.off_strings, c.header.size_strings,
            c.header.off_mem_rsvmap} \subseteq Word
        /\ Len(c.items) \in Nat /\ DOMAIN c.items = 1 .. Len(c.items)
        /\ \A i \in DOMAIN c.items :
              /\ c.items[i].tok \in Tokens /\ c.items[i].whole \in BOOLEAN
              /\ (c.items[i].tok = "PROP" /\ c.items[i].name \notin {"compatible", "status"}) =>
                    c.items[i].val \in Seq(Word)
              /\ (c.items[i].tok = "PROP" /\ c.items[i].name = "status") =>
                    c.items[i].val \in Seq(STRING)
        /\ c.rsvmap \in [Word -> MemRange]

\* The widths that a blob declares are small: the largest sum of three of them
\* that lib/fdt.c forms, in bytes, fits 32 bits.
ASSUME CellsAssumption ==
    \A c \in Cases : \A i \in DOMAIN c.items :
        (/\ c.items[i].tok = "PROP" /\ c.items[i].name \in {"#address-cells", "#size-cells"}
         /\ c.items[i].val # <<>>) => c.items[i].val[1] <= 357913941

vars == <<header, blob, rsvmap, size, calls, pc, caller, want, parent, cursor, seen, stack, result, uart>>

tree == <<header, blob, rsvmap, size, calls>>

Init ==
    /\ \E c \in Cases : /\ header = c.header /\ blob = c.items /\ rsvmap = c.rsvmap
                        /\ size = c.size /\ calls = c.calls
    /\ pc = "idle" /\ caller = "none" /\ want = Wanted /\ parent = 0 /\ cursor = 0
    /\ seen = <<>> /\ stack = <<>> /\ result = 0
    /\ uart = [base |-> DefaultBase, cadence |-> FALSE]

-----------------------------------------------------------------------------
\* Listing children: cursor := 0, then calls until one returns 0.

StartList(n) ==
    /\ pc = "idle" /\ "list" \in calls
    /\ pc' = "list" /\ caller' = "list" /\ parent' = n /\ cursor' = 0
    /\ UNCHANGED <<tree, want, seen, stack, result, uart>>

CallNextChild ==
    /\ pc = "list"
    /\ cursor' = NextChild(parent, cursor)
    /\ IF cursor' = 0 THEN pc' = "done" /\ seen' = seen
                      ELSE pc' = pc /\ seen' = Append(seen, cursor')
    /\ UNCHANGED <<tree, caller, want, parent, stack, result, uart>>

-----------------------------------------------------------------------------
\* fdt_node_by_compatible_offset.  depth is Len(stack) - 1.

Return(n) ==
    /\ pc' = IF caller' = "lookup" THEN "done" ELSE "found"
    /\ result' = n
    /\ UNCHANGED stack

\* The call, up to the loop.
Search(compatible) ==
    /\ want' = compatible
    /\ \/ IsNode(1) /\ pc' = "visit" /\ stack' = <<1>> /\ UNCHANGED result
       \/ ~IsNode(1) /\ Return(Err)

StartSearch ==
    /\ pc = "idle" /\ "lookup" \in calls
    /\ caller' = "lookup"
    /\ Search(Wanted)
    /\ UNCHANGED <<tree, parent, cursor, seen, uart>>

\* One iteration of the outer loop: test the node, then descend, or give up
\* on the level when there is no room for another, or look for a sibling.
Visit ==
    LET cur == Top(stack)
        ch == FirstChild(cur)
    IN  /\ pc = "visit"
        /\ UNCHANGED <<tree, caller, want, parent, cursor, seen, uart>>
        /\ \/ /\ Matches(cur, want)
              /\ Return(cur)
           \/ /\ ~Matches(cur, want) /\ ch # Err /\ Len(stack) < MaxDepth
              /\ stack' = Append(stack, ch)
              /\ UNCHANGED <<pc, result>>
           \/ /\ ~Matches(cur, want) /\ ch # Err /\ Len(stack) >= MaxDepth
              /\ IF Len(stack) = 1 THEN Return(Err)
                 ELSE stack' = Pop(stack) /\ UNCHANGED <<pc, result>>
           \/ /\ ~Matches(cur, want) /\ ch = Err
              /\ pc' = "climb"
              /\ UNCHANGED <<stack, result>>

\* Looking for a sibling at the current level only.
ClimbOnce ==
    /\ pc = "climb"
    /\ UNCHANGED <<tree, caller, want, parent, cursor, seen, uart>>
    /\ LET top == Len(stack)
           sib == IF top = 1 THEN Err ELSE NextSibling(stack[top - 1], stack[top])
       IN  IF sib # Err
           THEN /\ stack' = [stack EXCEPT ![top] = sib]
                /\ pc' = "visit" /\ UNCHANGED result
           ELSE Return(Err)

\* Climbing back into the outer loop, which tests and descends once more.
ClimbToVisit ==
    /\ pc = "climb"
    /\ UNCHANGED <<tree, caller, want, parent, cursor, seen, uart>>
    /\ LET top == Len(stack)
           sib == IF top = 1 THEN Err ELSE NextSibling(stack[top - 1], stack[top])
       IN  \/ top = 1 /\ Return(Err)
           \/ /\ top > 1 /\ sib # Err
              /\ stack' = [stack EXCEPT ![top] = sib]
              /\ pc' = "visit" /\ UNCHANGED result
           \/ /\ top > 1 /\ sib = Err
              /\ stack' = Pop(stack)
              /\ pc' = "visit" /\ UNCHANGED result

\* One iteration of the inner loop: the next sibling at this level, or climb.
Climb ==
    /\ pc = "climb"
    /\ UNCHANGED <<tree, caller, want, parent, cursor, seen, uart>>
    /\ LET top == Len(stack)
           sib == IF top = 1 THEN Err ELSE NextSibling(stack[top - 1], stack[top])
       IN  \/ top = 1 /\ Return(Err)
           \/ /\ top > 1 /\ sib # Err
              /\ stack' = [stack EXCEPT ![top] = sib]
              /\ pc' = "visit" /\ UNCHANGED result
           \/ /\ top > 1 /\ sib = Err
              /\ stack' = Pop(stack)
              /\ UNCHANGED <<pc, result>>

-----------------------------------------------------------------------------
\* serial_init: nothing happens without a valid blob.
StartSerialInit ==
    /\ pc = "idle" /\ "serial_init" \in calls
    /\ caller' = "serial_init"
    /\ \/ ~FdtValid(header, size) /\ pc' = "done" /\ UNCHANGED <<want, stack, result>>
       \/ FdtValid(header, size) /\ Search(Cdns)
    /\ UNCHANGED <<tree, parent, cursor, seen, uart>>

\* A console on a node whether or not it is enabled.
UsableDisabled(n) == n # Err /\ RegToCpuAddr(n, 0) # Err

\* The three tests serial_init makes of a node it was given.
Usable(n) == n # Err /\ IsEnabled(n) /\ RegToCpuAddr(n, 0) # Err

\* serial_init is given the result of a search.  A Cadence UART is looked for
\* under two names, and a PL011 when that search came to nothing.
Found ==
    /\ pc = "found"
    /\ UNCHANGED <<tree, caller, parent, cursor, seen>>
    /\ \/ /\ want = Cdns /\ result = Err
          /\ Search(Zynqmp)
          /\ UNCHANGED uart
       \/ /\ want # Pl011 /\ Usable(result)
          /\ uart' = [base |-> RegToCpuAddr(result, 0), cadence |-> TRUE]
          /\ pc' = "done" /\ UNCHANGED <<want, stack, result>>
       \/ /\ want = Zynqmp \/ (want = Cdns /\ result # Err)
          /\ ~Usable(result)
          /\ Search(Pl011)
          /\ UNCHANGED uart
       \/ /\ want = Pl011
          /\ uart' = IF Usable(result) THEN [uart EXCEPT !.base = RegToCpuAddr(result, 0)]
                     ELSE uart
          /\ pc' = "done" /\ UNCHANGED <<want, stack, result>>

-----------------------------------------------------------------------------
\* The caller has its answer.
Finished == pc = "done" /\ UNCHANGED vars

Next ==
    \/ \E n \in {i \in DOMAIN blob : blob[i].tok = "BEGIN_NODE"} : StartList(n)
    \/ CallNextChild
    \/ StartSearch
    \/ Visit
    \/ Climb
    \/ StartSerialInit
    \/ Found
    \/ Finished

Spec == Init /\ [][Next]_vars

\* Straight-line code on one core: a walk that has begun keeps stepping.
FairSpec == Spec /\ WF_vars(Next)

-----------------------------------------------------------------------------
\* Properties.

\* fdt_valid answers yes only for a blob whose two blocks lie inside the bytes
\* the caller has, for every combination of 32-bit offsets and sizes: the
\* offset and the size of a block are never added in 32 bits.  (It also
\* refuses every blob of unknown size, which fdt.h:53-55 says it takes; see
\* TreeWins of Boot.)
ValidBlocksInside ==
    FdtValid(header, size) =>
        /\ header.off_struct + header.size_struct <= size
        /\ header.off_strings + header.size_strings <= size

\* A finished enumeration of a well-formed tree has returned exactly the
\* children of the node; on any blob at all an enumeration answers nodes in
\* document order, each once, and never goes backwards, which is what makes
\* it end.
ChildrenInOrder ==
    /\ (pc = "done" /\ parent # 0 /\ WellFormed /\ Shallow) =>
          Range(seen) = TreeChildren(parent)
    /\ \A i, j \in DOMAIN seen : i < j => seen[i] < seen[j]

\* The search of a well-formed tree answers the first node in document order
\* one of whose compatible strings is the wanted one, at any level, and says
\* "not found" only when there is none, also when it is one of several in a
\* row.
SearchFindsFirst ==
    (pc \in {"done", "found"} /\ result # 0 /\ WellFormed /\ Shallow) =>
        LET hits == TreeMatches(want)
        IN  result = IF hits = {} THEN Err ELSE Min(hits)

\* Cell counts come from the nearest enclosing node that declares them.  A
\* path names a node that it spells out, level by level, and the one it was
\* spelled from unless an earlier sibling on the way has the same name.
LookupsFollowTree ==
    (pc = "idle" /\ WellFormed /\ Shallow) =>
        \A n \in Nodes :
            /\ \A name \in {"#address-cells", "#size-cells"} :
                  ParentCells(n, name) = TreeCells(n, name)
            /\ LET m == PathOffset(Spelled(n))
               IN  /\ m # Err => m \in Nodes /\ Spelled(m) = Spelled(n)
                   /\ Foremost(n) => m = n

\* The ranges reported as memory are every bank of every memory node directly
\* under the root, in order, wherever other nodes stand between them; only
\* the caller's array cuts the list short.  The ranges reported as reserved
\* are the entries from the reservation block's offset up to the first empty
\* one, none of which reaches past the blob's own size.
RangesComplete ==
    (pc = "idle" /\ WellFormed /\ Shallow) =>
        LET memory == MemoryRanges(MaxRanges)
            off == header.off_mem_rsvmap
            held == {k \in 1 .. MaxRanges :
                       \A i \in 0 .. k - 1 :
                          /\ off + (i + 1) * RsvEntry <= header.totalsize
                          /\ rsvmap[off + i * RsvEntry] # [base |-> 0, size |-> 0]}
        IN  /\ Len(memory) = Min({TreePlace(Len(blob)), MaxRanges})
            /\ \A n \in TreeBanks : \A k \in DOMAIN TreeEntries(n) :
                  LET at == TreePlace(n) + k
                  IN  at <= MaxRanges => memory[at] = TreeEntries(n)[k]
            /\ ReservedRanges(MaxRanges) = [k \in held |-> rsvmap[off + (k - 1) * RsvEntry]]

\* The address the boot code is given for a register is the one that the
\* windows of all the buses around the node lead to, from the innermost out,
\* or a failure when one of them does not reach it; buses without windows pass
\* it on.  This is about nodes that are not buses themselves, and windows that
\* end below the top of the address space.
RegFollowsWindows ==
    (pc = "idle" /\ WellFormed /\ Shallow) =>
        \A n \in Nodes : OnBuses(n) => RegToCpuAddr(n, 0) = TreeAddress(n)

\* The Cadence UARTs, by their first name or failing that by their second.
Cadences == IF TreeMatches(Cdns) # {} THEN TreeMatches(Cdns) ELSE TreeMatches(Zynqmp)

\* The tree says of every UART where it is, and its status is text.
PlacedUarts ==
    \A n \in Cadences \cup TreeMatches(Pl011) :
        OnBuses(n) /\ \A st \in TreeStatus(n) : IsText(st)

\* No status is one on which fdt.h and fdt.c differ.
PlainStatuses ==
    \A n \in Cadences \cup TreeMatches(Pl011) : \A st \in TreeStatus(n) : ~Overlong(st)

\* The console the tree asks for.
TreeConsole ==
    CASE TreeUsable(Cadences) -> [base |-> TreeAddress(Min(Cadences)), cadence |-> TRUE]
      [] ~TreeUsable(Cadences) /\ TreeUsable(TreeMatches(Pl011)) ->
            [base |-> TreeAddress(Min(TreeMatches(Pl011))), cadence |-> FALSE]
      [] OTHER -> [base |-> DefaultBase, cadence |-> FALSE]

\* serial_init has read a tree that a compiler wrote.
ConsoleChosen ==
    /\ caller = "serial_init" /\ pc = "done"
    /\ FdtValid(header, size) /\ WellFormed /\ Shallow /\ PlacedUarts

\* What serial_init settles on is what the tree says, read as a tree: the
\* first Cadence UART, if it is enabled and the buses around it reach it; else
\* the first PL011 under the same two conditions; else the address the kernel
\* was built with.  In particular a later node of the same kind is never the
\* console, and a PL011 is never driven as a Cadence.
ConsoleFollowsTree == (ConsoleChosen /\ PlainStatuses) => uart = TreeConsole

\* The same of every status.  fdt.h:90-92 says of a node's status that "okay"
\* and "ok" mean enabled, "an absent status means enabled, anything else means
\* disabled".
ConsoleObeysStatus == ConsoleChosen => uart = TreeConsole

\* Every enumeration and every search ends, on well-formed and on damaged
\* blobs, as long as the tree fits the stack of the search.
ShallowWalksEnd == (pc # "idle" /\ Shallow) ~> (pc = "done")

\* Every search ends, whatever the depth of the tree: fdt.c:501-502 says of a
\* level without room to descend that it will "skip this subtree rather than
\* misbehave, and keep scanning siblings at known depths".
SearchesEnd == (pc = "visit") ~> (pc = "done")

=============================================================================

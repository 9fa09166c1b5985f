------------------------------ MODULE FdtTree ------------------------------
(***************************************************************************)
(* The device tree by nesting alone: how many nodes are open at an item,   *)
(* with none of the walks of lib/fdt.c, except that the windows of a bus   *)
(* are read with its accessors.  What the walks and lookups answer is      *)
(* stated in these terms.                                                  *)
(***************************************************************************)
EXTENDS Fdt

Nodes == {i \in DOMAIN blob : blob[i].tok = "BEGIN_NODE"}
Ends  == {i \in DOMAIN blob : blob[i].tok = "END_NODE"}
Props == {i \in DOMAIN blob : blob[i].tok = "PROP"}

\* The sum of f over the items before item i.
SumBefore(f, i) ==
    LET sum[k \in 1 .. Len(blob) + 1] == IF k = 1 THEN 0 ELSE sum[k - 1] + f[k - 1]
    IN  sum[i]

\* How many nodes are open just before item i.
Nesting == [j \in DOMAIN blob |-> IF blob[j].tok = "BEGIN_NODE" THEN 1
                                 ELSE IF blob[j].tok = "END_NODE" THEN -1 ELSE 0]

Level(i) == SumBefore(Nesting, i)

\* The item that closes node n.
Close(n) == Min({k \in Ends : k > n /\ Level(k) = Level(n) + 1})

\* The tree nests no deeper than the search's stack.
Shallow == \A i \in Nodes : Level(i) < MaxDepth

TreeChildren(n) == {i \in Nodes : n < i /\ Level(i) = Level(n) + 1 /\ i < Close(n)}

TreeAncestors(n) == {i \in Nodes : i < n /\ n < Close(i)}

\* The properties that lie directly inside node n.
TreeProps(n) == {i \in Props : n < i /\ Level(i) = Level(n) + 1 /\ i < Close(n)}

\* A blob as a device tree compiler writes it: one root, closed just before
\* the final END token, every payload whole, the properties of a node before
\* its children, so that a node opens between the end of a node and any later
\* property, and no two of them with the same name, so that a node opens
\* between any two properties that share one.
WellFormed ==
    /\ CtxInit(header)
    /\ Len(blob) >= 3 /\ 1 \in Nodes
    /\ \A i \in DOMAIN blob :
          /\ blob[i].whole
          /\ blob[i].tok = "END" <=> i = Len(blob)
          /\ blob[i].tok = "PROP" => blob[i].name # NoString
          /\ Level(i) = 0 <=> i \in {1, Len(blob)}
    /\ \A p \in Props, e \in Ends : e < p => \E n \in Nodes : e < n /\ n < p
    /\ \A p, q \in Props : (p < q /\ blob[p].name = blob[q].name) =>
          \E n \in Nodes : p < n /\ n < q

\* The cell count that reaches node n from the nearest node around it.
TreeCells(n, name) ==
    LET declared == {p \in UNION {TreeProps(a) : a \in TreeAncestors(n)} :
                        blob[p].name = name /\ blob[p].val # <<>>}
        nearest == {p \in declared : \A q \in declared : Level(q) <= Level(p)}
    IN  IF declared = {} THEN 2 ELSE blob[Min(nearest)].val[1]

\* The names from the root down to node n, the root's own left out.
Spelled(n) ==
    [k \in 1 .. Level(n) |->
        blob[CHOOSE a \in TreeAncestors(n) \cup {n} : Level(a) = k].name]

\* Node n and the nodes around it each come before any sibling of their name.
Foremost(n) ==
    \A p \in TreeAncestors(n) :
        \A a \in TreeChildren(p) \cap (TreeAncestors(n) \cup {n}), b \in TreeChildren(p) :
            b < a => blob[b].name # blob[a].name

\* The memory nodes, what each says, and how much those before item i say in
\* all.
TreeBanks == {n \in TreeChildren(1) : blob[n].name \in Memory}

TreeEntries(n) ==
    LET ac == TreeCells(n, "#address-cells")
        sc == TreeCells(n, "#size-cells")
        regs == {p \in TreeProps(n) : blob[p].name = "reg"}
        v == blob[Min(regs)].val
    IN  IF regs = {} \/ ac = 0 THEN <<>>
        ELSE [k \in 1 .. Len(v) \div (ac + sc) |-> RegEntry(v, ac, sc, k - 1)]

Listed == [j \in DOMAIN blob |-> IF j \in TreeBanks THEN Len(TreeEntries(j)) ELSE 0]

TreePlace(i) == SumBefore(Listed, i)

\* The nodes one of whose compatible strings is the wanted one.
TreeMatches(compatible) ==
    {n \in Nodes : \E p \in TreeProps(n) :
        blob[p].name = "compatible" /\ compatible \in Range(blob[p].val)}

\* Where windows w put an address, or Err when it lies in none of them.
Through(w, addr) ==
    LET hits == {k \in DOMAIN w : addr - w[k].child \in 0 .. w[k].size - 1}
    IN  IF hits = {} THEN Err ELSE w[Min(hits)].parent + (addr - w[Min(hits)].child)

\* The node around n that is nearest to it.
TreeParent(n) == Max(TreeAncestors(n))

\* Bus b has windows: its ranges are there, and are not the empty list that
\* maps its addresses to themselves.
HasWindows(b) == GetProp(b, "ranges") # Err /\ Value(b, "ranges") # <<>>

BusWindows(b) ==
    Windows(Value(b, "ranges"), OrTwo(OwnCells(b, "#address-cells")),
            OrTwo(TreeCells(b, "#address-cells")), OrTwo(OwnCells(b, "#size-cells")))

\* An address on bus b, as the bus around b sees it.
Outward(b, addr) == IF HasWindows(b) THEN Through(BusWindows(b), addr) ELSE addr

\* An address on bus b, as the root sees it: out through one bus at a time.
AtRoot ==
    LET at[b \in Nodes] ==
          [addr \in Int |-> IF b = 1 \/ addr = Err THEN addr
                            ELSE at[TreeParent(b)][Outward(b, addr)]]
    IN  at

\* Where the buses around node n put the node's first register.
TreeAddress(n) ==
    AtRoot[TreeParent(n)][RdCells(Value(n, "reg"), 1, TreeCells(n, "#address-cells"))]

\* Windows w end below the top of the address space on either side.
BelowTop(w) ==
    \A k \in DOMAIN w : /\ w[k].child + w[k].size < Radix * Radix
                        /\ w[k].parent + w[k].size <= Radix * Radix

\* A bus with windows declares the widths that they are written in.
PlainBus(b) ==
    HasWindows(b) => /\ {OwnCells(b, "#address-cells"), OwnCells(b, "#size-cells")}
                           \cap {0, Err} = {}
                     /\ TreeCells(b, "#address-cells") # 0
                     /\ BelowTop(BusWindows(b))

\* Node n is a device with a register, at any depth below buses that are
\* plain.
OnBuses(n) ==
    LET ac == TreeCells(n, "#address-cells")
    IN  /\ n # 1 /\ GetProp(n, "reg") # Err /\ GetProp(n, "ranges") = Err
        /\ ac # 0 /\ Len(Value(n, "reg")) >= ac + TreeCells(n, "#size-cells")
        /\ \A b \in TreeAncestors(n) \ {1} : PlainBus(b)

\* The status of node n.
TreeStatus(n) == {blob[p].val : p \in {q \in TreeProps(n) : blob[q].name = "status"}}

\* Characters up to a NUL.
IsText(st) == st # <<>> /\ \A i \in DOMAIN st : st[i] = NUL <=> i = Len(st)

\* The two texts that mean enabled.
Okay == {<<"o", "k", "a", "y", NUL>>, <<"o", "k", NUL>>}

\* A longer text that begins with "okay".
Overlong(st) == Len(st) > 5 /\ SubSeq(st, 1, 4) = <<"o", "k", "a", "y">>

\* The first of the nodes has no status or says okay, and its buses reach it.
TreeUsable(ns) ==
    /\ ns # {} /\ TreeStatus(Min(ns)) \subseteq Okay
    /\ TreeAddress(Min(ns)) # Err

=============================================================================

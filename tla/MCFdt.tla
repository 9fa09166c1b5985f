------------------------------- MODULE MCFdt -------------------------------
(***************************************************************************)
(* Blobs for model checking FdtClient.                                     *)
(*   Damaged   every short sequence of items after the root's first token, *)
(*             the last of them possibly cut by the end of the block       *)
(*   Trees     every shape of up to MaxNodes nodes, every choice of        *)
(*             compatible lists on its nodes, with and without NOPs        *)
(*   Buses     one shape with two memory nodes around a bus with a device, *)
(*             over the cell counts, the bus windows and the reg values    *)
(*   Nests     a UART on a bus on a bus, with windows of many forms or none *)
(*   Uarts     two UARTs on one bus, of every kind, enabled or not, inside  *)
(*             the bus window or outside                                   *)
(*   Reserves  memory reservations, from every offset                      *)
(*   Headers   one small tree under headers of two-bit fields, every offset *)
(*             and size of either block                                    *)
(***************************************************************************)
EXTENDS FdtClient, SequencesExt

CONSTANTS MaxNodes,    \* nodes of the generated trees
          MaxItems     \* items of a damaged blob after the root's token

B(nm)    == [tok |-> "BEGIN_NODE", name |-> nm, val |-> <<>>, whole |-> TRUE]
P(nm, v) == [tok |-> "PROP", name |-> nm, val |-> v, whole |-> TRUE]
E        == [tok |-> "END_NODE", name |-> "", val |-> <<>>, whole |-> TRUE]
N        == [tok |-> "NOP", name |-> "", val |-> <<>>, whole |-> TRUE]
Z        == [tok |-> "END", name |-> "", val |-> <<>>, whole |-> TRUE]

Cut(it) == [it EXCEPT !.whole = FALSE]

Sound == [magic |-> TRUE, totalsize |-> 3, off_struct |-> 1, size_struct |-> 1,
          off_strings |-> 2, size_strings |-> 1, off_mem_rsvmap |-> 1]

NoReserve == [off \in 0 .. Radix - 1 |-> [base |-> 0, size |-> 0]]

Case(items, made) ==
    [header |-> Sound, items |-> items, rsvmap |-> NoReserve, size |-> 3, calls |-> made]

Walks == {"list", "lookup"}

-----------------------------------------------------------------------------
Other == Wanted + 1

DamagedItems == {B("a"), E, N, Z, P("compatible", <<Other, Wanted>>), P("bad", <<1>>)}

Damaged ==
    LET bodies == UNION {[1 .. k -> DamagedItems] : k \in 0 .. MaxItems}
        lasts  == {<<>>, <<Cut(B("a"))>>, <<Cut(P("reg", <<1>>))>>}
    IN  {Case(<<B("")>> \o s \o l, Walks \cup {"serial_init"}) : s \in bodies, l \in lasts}

-----------------------------------------------------------------------------
\* Balanced words of k nodes with one root: TRUE opens a node, FALSE closes.
Opened(w, i) == Cardinality({j \in 1 .. i : w[j]})

Shapes(k) ==
    {w \in [1 .. 2 * k -> BOOLEAN] :
        \A i \in 1 .. 2 * k : LET open == 2 * Opened(w, i) - i
                              IN  open >= 0 /\ (open = 0 <=> i = 2 * k)}

Labels == {<<>>, <<P("compatible", <<Other>>)>>, <<N, P("compatible", <<Other, Wanted>>)>>}

Names == <<"", "a", "a", "b">>

TreeItems(w, lab, pad) ==
    FlattenSeq([i \in DOMAIN w |->
                  IF w[i] THEN <<B(Names[Opened(w, i)])>> \o lab[Opened(w, i)]
                  ELSE <<E>> \o (IF i < Len(w) THEN pad ELSE <<>>)]) \o <<Z>>

Trees ==
    UNION {{Case(TreeItems(w, lab, pad), Walks) :
               w \in Shapes(k), lab \in [1 .. k -> Labels], pad \in {<<>>, <<N>>}} :
           k \in 1 .. MaxNodes}

-----------------------------------------------------------------------------
\* x in the given number of cells.
Cells(x, n) == IF n = 1 THEN <<x % Radix>> ELSE <<x \div Radix, x % Radix>>

Decl(name, n) == IF n = Err THEN <<>> ELSE <<P(name, <<n>>)>>

Or(n, dflt) == IF n = Err THEN dflt ELSE n

Reg(x, ac, sc) == Cells(x, ac) \o (IF sc = 0 THEN <<>> ELSE Cells(2, sc))

WindowLists == {<<>>, <<[child |-> 1, parent |-> 9, size |-> 2]>>,
               <<[child |-> 0, parent |-> 2, size |-> 2], [child |-> 1, parent |-> 8, size |-> 3]>>,
               <<[child |-> 14, parent |-> 0, size |-> 2]>>}

BusItems(ra, rs, ba, bs, wins, x, banks) ==
    LET oa == OrTwo(ba)
        os == OrTwo(bs)
        up == OrTwo(Or(ra, 2))
        win(k) == Cells(wins[k].child, oa) \o Cells(wins[k].parent, up) \o Cells(wins[k].size, os)
        bank(b) == FlattenSeq([k \in 1 .. b |-> Reg(k, Or(ra, 2), Or(rs, 2))])
    IN  <<B("")>> \o Decl("#address-cells", ra) \o Decl("#size-cells", rs)
        \o <<B("memory@0"), P("reg", bank(banks[1])), E>>
        \o <<B("soc")>> \o Decl("#address-cells", ba) \o Decl("#size-cells", bs)
        \o <<P("ranges", FlattenSeq([k \in DOMAIN wins |-> win(k)]))>>
        \o <<B("uart"), P("reg", Reg(x, Or(ba, Or(ra, 2)), Or(bs, Or(rs, 2)))), E, E>>
        \o <<B("memory@1"), P("reg", bank(banks[2])), E, E, Z>>

Buses ==
    {Case(BusItems(ra, rs, ba, bs, wins, x, <<x, 4 - 2 * x>>), {"list"}) :
        ra \in {Err, 1, 2}, rs \in {Err, 0, 1}, ba \in {Err, 1, 2}, bs \in {Err, 1},
        wins \in WindowLists, x \in {1, 2}}

-----------------------------------------------------------------------------
Field == 0 .. Radix - 1

Headers ==
    {[header |-> h, items |-> <<B(""), E, Z>>, rsvmap |-> NoReserve, size |-> s,
      calls |-> {"lookup", "serial_init"}] :
        s \in Field,
        h \in {[Sound EXCEPT !.totalsize = t, !.off_struct = a, !.size_struct = b] :
                  t \in Field, a \in Field, b \in Field}
             \cup {[Sound EXCEPT !.totalsize = t, !.off_strings = a, !.size_strings = b] :
                  t \in Field, a \in Field, b \in Field}
             \cup {[Sound EXCEPT !.magic = FALSE]}}

-----------------------------------------------------------------------------
\* Two UARTs on a bus with the window 1..3 at 8.
Statuses == {<<>>, <<P("status", <<>>)>>, <<P("status", <<"o", "k", "a", "y", NUL>>)>>,
             <<P("status", <<"o", "k", NUL>>)>>,
             <<P("status", <<"d", "i", "s", NUL>>)>>,
             <<P("status", <<"o", "k", "a", "y", "s", NUL>>)>>}

Uart(compatible, status, x) ==
    <<B("uart"), P("compatible", <<compatible>>)>> \o status \o <<P("reg", <<x, 1>>), E>>

Soc(devices) ==
    <<B(""), P("#address-cells", <<2>>), P("#size-cells", <<1>>),
      B("soc"), P("#address-cells", <<1>>), P("#size-cells", <<1>>),
      P("ranges", <<1, 2, 0, 3>>)>> \o devices \o <<E, E, Z>>

Uarts ==
    LET kinds == {Cdns, Zynqmp, Pl011}
        one == {Uart(c, s, 1) : c \in kinds, s \in Statuses} \cup {Uart(c, <<>>, 0) : c \in kinds}
        two == {Uart(c, <<>>, 3) : c \in kinds}
    IN  {Case(Soc(a \o b), {"serial_init"}) : a \in one, b \in two}

-----------------------------------------------------------------------------
\* A UART on a bus on a bus: ranges that are missing, or empty, or windows
\* that reach the UART, or do not.
Nests ==
    LET bus(name, ranges) ==
            <<B(name), P("#address-cells", <<1>>), P("#size-cells", <<1>>)>> \o ranges
        outers == {<<>>} \cup {<<P("ranges", w)>> :
                                  w \in {<<>>, <<1, 1, 0, 2>>, <<0, 2, 0, 2, 2, 1, 0, 1>>}}
        inners == {<<>>} \cup {<<P("ranges", w)>> :
                                  w \in {<<>>, <<0, 1, 2>>, <<1, 0, 1, 0, 2, 1>>}}
    IN  {Case(<<B(""), P("#address-cells", <<2>>), P("#size-cells", <<1>>)>>
                 \o bus("soc", outer) \o bus("hub", inner) \o Uart(Cdns, <<>>, x) \o <<E, E, E, Z>>,
              {"serial_init"}) :
            outer \in outers, inner \in inners, x \in 0 .. 2}

-----------------------------------------------------------------------------
Reserves ==
    {[header |-> [Sound EXCEPT !.off_mem_rsvmap = off], items |-> <<B(""), B("a"), E, E, Z>>,
      rsvmap |-> map, size |-> 3, calls |-> {"list"}] :
        off \in Field,
        map \in [0 .. Radix - 1 -> {[base |-> 0, size |-> 0], [base |-> 1, size |-> 0],
                                   [base |-> 0, size |-> 1]}]}

\* A root above a chain of MaxDepth nodes, the last a level too deep.
DeepCases ==
    {Case([i \in 1 .. MaxDepth + 1 |-> B("a")] \o [i \in 1 .. MaxDepth + 1 |-> E] \o <<Z>>, {"lookup"})}

MCCases == Damaged \cup Trees \cup Buses \cup Headers \cup Uarts \cup Nests \cup Reserves \cup DeepCases

=============================================================================

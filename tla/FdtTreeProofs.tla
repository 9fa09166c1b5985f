--------------------------- MODULE FdtTreeProofs ----------------------------
(***************************************************************************)
(* What the walks of lib/fdt.c answer, for every blob and every depth of   *)
(* the stacks of fdt_parent_offset and of the search, and what follows for *)
(* the cell counts and addresses that reach a node and for paths.          *)
(*                                                                         *)
(* Level, the number of nodes open at a position, moves by one where a     *)
(* node begins or ends, so that every node of a well-formed tree has one   *)
(* end.  From that follows what each function answers of the tree.         *)
(*                                                                         *)
(* Loops over the blob are taken to their end by the least position at     *)
(* which a statement fails (LeastExists); loops that go up the tree, one   *)
(* parent at a time, and along a row of siblings, one sibling at a time.   *)
(***************************************************************************)
EXTENDS FdtTree, TLAPS, WellFoundedInduction

-----------------------------------------------------------------------------
\* Least elements.

\* A set of natural numbers that is not empty has a least element, and it is
\* Min of the set.
LEMMA LeastExists ==
    ASSUME NEW S, \A y \in S : y \in Nat, S # {}
    PROVE  \E x \in S : \A y \in S : x <= y
<1>1. S \subseteq Nat
  OBVIOUS
<1>2. PICK x \in S : \A y \in S : ~ (<<y, x>> \in OpToRel(<, Nat))
  BY <1>1, NatLessThanWellFounded, WFMin, Zenon
<1>3. \A y \in S : ~ (y < x)
  BY <1>2, Zenon DEF OpToRel
<1>4. QED
  BY <1>3

LEMMA MinIs ==
    ASSUME NEW S, \A y \in S : y \in Int, NEW x \in S, \A y \in S : x <= y
    PROVE  Min(S) = x
<1>1. Min(S) \in S /\ \A y \in S : Min(S) <= y
  BY DEF Min
<1>2. QED
  BY <1>1

LEMMA MinLeast ==
    ASSUME NEW S, \A y \in S : y \in Nat, S # {}
    PROVE  Min(S) \in S /\ \A y \in S : Min(S) <= y
<1>1. PICK x \in S : \A y \in S : x <= y
  BY LeastExists, Zenon
<1>2. \A y \in S : y \in Int
  OBVIOUS
<1>3. Min(S) = x
  BY <1>1, <1>2, MinIs, Zenon
<1>4. QED
  BY <1>1, <1>3, Zenon

-----------------------------------------------------------------------------
\* Loops as functions.

\* A loop over the positions of a block, with a value that it carries along,
\* is a function: past the block it stops.
Loop(f, D, stop, val, nxt) ==
    f = [i \in Nat |-> [d \in D |-> IF <<i, d>> \in stop THEN val[<<i, d>>]
                                    ELSE f[i + 1][nxt[<<i, d>>]]]]

LEMMA LoopExists ==
    ASSUME NEW D, NEW N \in Nat, NEW stop, NEW val, NEW nxt,
           \A i \in Nat : \A d \in D : <<i, d>> \notin stop => i <= N /\ nxt[<<i, d>>] \in D
    PROVE  \E f : Loop(f, D, stop, val, nxt)
<1> DEFINE Body(f, i) == [d \in D |-> IF <<i, d>> \in stop THEN val[<<i, d>>]
                                      ELSE f[i + 1][nxt[<<i, d>>]]]
           From(k) == {i \in Nat : i + k > N}
           Solves(f, k) == \A i \in From(k) : f[i] = Body(f, i)
           Without == {k \in Nat : ~ \E f : DOMAIN f = Nat /\ Solves(f, k)}
<1>1. Without = {}
  <2> SUFFICES ASSUME Without # {} PROVE FALSE
    BY Zenon
  <2>1. \A k \in Without : k \in Nat
    BY Zenon
  <2> HIDE DEF Body
  <2>2. PICK k \in Without : \A y \in Without : k <= y
    <3> HIDE DEF Without
    <3>1. QED
      BY <2>1, LeastExists, Zenon
  <2>3. k \in Nat /\ ~ \E f : DOMAIN f = Nat /\ Solves(f, k)
    BY <2>2, Zenon
  <2>4. CASE k = 0
    <3> DEFINE g == [i \in Nat |-> [d \in D |-> val[<<i, d>>]]]
    <3>1. ASSUME NEW i \in From(0) PROVE g[i] = Body(g, i)
      <4>1. i \in Nat /\ ~(i <= N)
        OBVIOUS
      <4>2. \A d \in D : <<i, d>> \in stop
        BY <4>1, Zenon
      <4>3. QED
        BY <4>1, <4>2, Zenon DEF Body
    <3>2. DOMAIN g = Nat
      BY Zenon
    <3> HIDE DEF g, From
    <3>3. QED
      BY <2>3, <2>4, <3>1, <3>2, Zenon
  <2>5. CASE k # 0
    <3>1. k - 1 \in Nat /\ ~(k <= k - 1)
      BY <2>3, <2>5
    <3>2. PICK f : DOMAIN f = Nat /\ Solves(f, k - 1)
      BY <2>2, <3>1, Zenon
    <3> DEFINE g == [i \in Nat |-> IF i \in From(k - 1) THEN f[i] ELSE Body(f, i)]
    <3>3. ASSUME NEW i \in From(k) PROVE g[i] = Body(g, i)
      <4>1. i \in Nat /\ i + 1 \in Nat /\ i + 1 \in From(k - 1)
        BY <2>3
      <4>2. g[i + 1] = f[i + 1]
        BY <4>1, Zenon
      <4>3. Body(g, i) = Body(f, i)
        <5> HIDE DEF g
        <5>1. QED
          BY <4>2, Zenon DEF Body
      <4>4. g[i] = Body(f, i)
        BY <3>2, <4>1, Zenon
      <4>5. QED
        BY <4>3, <4>4, Zenon
    <3>4. DOMAIN g = Nat
      BY Zenon
    <3> HIDE DEF g, From
    <3>5. QED
      BY <2>3, <3>3, <3>4, Zenon
  <2>6. QED
    BY <2>4, <2>5, Zenon
<1>2. PICK f : DOMAIN f = Nat /\ Solves(f, N + 1)
  <2>1. N + 1 \in Nat
    OBVIOUS
  <2> HIDE DEF Solves
  <2>2. QED
    BY <1>1, <2>1, Zenon
<1> DEFINE g == [i \in Nat |-> f[i]]
<1>3. ASSUME NEW i \in Nat PROVE g[i] = Body(g, i)
  <2>1. i \in From(N + 1) /\ i + 1 \in Nat
    OBVIOUS
  <2>2. g[i] = f[i] /\ g[i + 1] = f[i + 1]
    BY <2>1, Zenon
  <2>3. f[i] = Body(f, i)
    BY <1>2, <2>1, Zenon
  <2>4. Body(g, i) = Body(f, i)
    <3> HIDE DEF g
    <3>1. QED
      BY <2>2, Zenon DEF Body
  <2>5. QED
    BY <2>2, <2>3, <2>4, Zenon
<1>4. g = [i \in Nat |-> Body(g, i)]
  <2> HIDE DEF Body
  <2>1. QED
    BY <1>3, Zenon
<1>5. Loop(g, D, stop, val, nxt)
  BY <1>4, Zenon DEF Loop
<1> HIDE DEF g
<1>6. QED
  BY <1>5, Zenon

\* A loop that gets closer to its end in every round is a function.
Rounds(f, D, stop, val, nxt) ==
    f = [x \in D |-> IF x \in stop THEN val[x] ELSE f[nxt[x]]]

LEMMA RoundsExist ==
    ASSUME NEW D, NEW N \in Nat, NEW rank, NEW stop, NEW val, NEW nxt,
           \A x \in D : rank[x] \in 0 .. N,
           \A x \in D : x \notin stop => nxt[x] \in D /\ rank[nxt[x]] < rank[x]
    PROVE  \E f : Rounds(f, D, stop, val, nxt)
<1> DEFINE Body(f, x) == IF x \in stop THEN val[x] ELSE f[nxt[x]]
           Solves(f, k) == \A x \in D : rank[x] < k => f[x] = Body(f, x)
           Without == {k \in Nat : ~ \E f : DOMAIN f = D /\ Solves(f, k)}
<1>0. \A x \in D : rank[x] \in Nat /\ rank[x] < N + 1
  OBVIOUS
<1>1. Without = {}
  <2> SUFFICES ASSUME Without # {} PROVE FALSE
    BY Zenon
  <2>1. \A k \in Without : k \in Nat
    BY Zenon
  <2> HIDE DEF Body
  <2>2. PICK k \in Without : \A y \in Without : k <= y
    <3> HIDE DEF Without
    <3>1. QED
      BY <2>1, LeastExists, Zenon
  <2>3. k \in Nat /\ ~ \E f : DOMAIN f = D /\ Solves(f, k)
    BY <2>2, Zenon
  <2>4. CASE k = 0
    <3> DEFINE g == [x \in D |-> val[x]]
    <3>1. \A x \in D : ~(rank[x] < 0)
      BY <1>0
    <3>2. DOMAIN g = D
      BY Zenon
    <3> HIDE DEF g
    <3>3. QED
      BY <2>3, <2>4, <3>1, <3>2, Zenon
  <2>5. CASE k # 0
    <3>1. k - 1 \in Nat /\ ~(k <= k - 1)
      BY <2>3, <2>5
    <3>2. PICK f : DOMAIN f = D /\ Solves(f, k - 1)
      BY <2>2, <3>1, Zenon
    <3> DEFINE g == [x \in D |-> IF rank[x] < k - 1 THEN f[x] ELSE Body(f, x)]
    <3>3. ASSUME NEW x \in D, rank[x] < k PROVE g[x] = Body(g, x)
      <4>1. CASE x \in stop
        BY <3>2, <4>1, Zenon DEF Body
      <4>2. CASE x \notin stop
        <5>1. nxt[x] \in D /\ rank[nxt[x]] < rank[x]
          BY <4>2, Zenon
        <5>2. rank[nxt[x]] < k - 1
          BY <1>0, <2>3, <3>3, <5>1
        <5>3. g[nxt[x]] = f[nxt[x]]
          BY <5>1, <5>2, Zenon
        <5>4. Body(g, x) = Body(f, x)
          <6> HIDE DEF g
          <6>1. QED
            BY <5>3, Zenon DEF Body
        <5>5. g[x] = Body(f, x)
          BY <3>2, Zenon
        <5>6. QED
          BY <5>4, <5>5, Zenon
      <4>3. QED
        BY <4>1, <4>2, Zenon
    <3>4. DOMAIN g = D
      BY Zenon
    <3> HIDE DEF g
    <3>5. QED
      BY <2>3, <3>3, <3>4, Zenon
  <2>6. QED
    BY <2>4, <2>5, Zenon
<1>2. PICK f : DOMAIN f = D /\ Solves(f, N + 1)
  <2>1. N + 1 \in Nat
    OBVIOUS
  <2> HIDE DEF Solves
  <2>2. QED
    BY <1>1, <2>1, Zenon
<1> DEFINE g == [x \in D |-> f[x]]
<1>3. ASSUME NEW x \in D PROVE g[x] = Body(g, x)
  <2>1. g[x] = f[x] /\ f[x] = Body(f, x)
    BY <1>0, <1>2, Zenon
  <2>2. x \notin stop => g[nxt[x]] = f[nxt[x]]
    BY Zenon
  <2>3. Body(g, x) = Body(f, x)
    <3> HIDE DEF g
    <3>1. QED
      BY <2>2, Zenon DEF Body
  <2>4. QED
    BY <2>1, <2>3, Zenon
<1>4. g = [x \in D |-> Body(g, x)]
  <2> HIDE DEF Body
  <2>1. QED
    BY <1>3, Zenon
<1>5. Rounds(g, D, stop, val, nxt)
  BY <1>4, Zenon DEF Rounds
<1> HIDE DEF g
<1>6. QED
  BY <1>5, Zenon

\* The same for a loop at a place, that carries a value along.
Rounds2(f, A, B, stop, val, to, nxt) ==
    f = [a \in A |-> [b \in B |-> IF <<a, b>> \in stop THEN val[<<a, b>>]
                                  ELSE f[to[<<a, b>>]][nxt[<<a, b>>]]]]

LEMMA Rounds2Exist ==
    ASSUME NEW A, NEW B, NEW N \in Nat, NEW rank, NEW stop, NEW val, NEW to, NEW nxt,
           \A a \in A : \A b \in B : rank[<<a, b>>] \in 0 .. N,
           \A a \in A : \A b \in B : <<a, b>> \notin stop =>
               /\ to[<<a, b>>] \in A /\ nxt[<<a, b>>] \in B
               /\ rank[<<to[<<a, b>>], nxt[<<a, b>>]>>] < rank[<<a, b>>]
    PROVE  \E f : Rounds2(f, A, B, stop, val, to, nxt)
<1> DEFINE D == A \X B
           both == [x \in D |-> <<to[x], nxt[x]>>]
<1>1. ASSUME NEW x \in D PROVE \E a \in A, b \in B : x = <<a, b>>
  BY SMT
<1>2. ASSUME NEW a \in A, NEW b \in B PROVE <<a, b>> \in D
  BY SMT
<1>3. \A x \in D : both[x] = <<to[x], nxt[x]>>
  BY Zenon
<1> HIDE DEF D, both
<1>4. \A x \in D : rank[x] \in 0 .. N
  BY <1>1, Zenon
<1>5. \A x \in D : x \notin stop => both[x] \in D /\ rank[both[x]] < rank[x]
  <2> SUFFICES ASSUME NEW x \in D, x \notin stop
               PROVE  both[x] \in D /\ rank[both[x]] < rank[x]
    BY Zenon
  <2>1. PICK a \in A, b \in B : x = <<a, b>>
    BY <1>1, Zenon
  <2>2. /\ to[x] \in A /\ nxt[x] \in B
        /\ rank[<<to[x], nxt[x]>>] < rank[x]
    BY <2>1, Zenon
  <2>3. QED
    BY <1>2, <1>3, <2>2, Zenon
<1>6. PICK f : Rounds(f, D, stop, val, both)
  BY <1>4, <1>5, RoundsExist, ZenonT(40)
<1>7. ASSUME NEW x \in D PROVE f[x] = IF x \in stop THEN val[x] ELSE f[both[x]]
  BY <1>6, Zenon DEF Rounds
<1> DEFINE g == [a \in A |-> [b \in B |-> f[<<a, b>>]]]
<1>8. ASSUME NEW a \in A, NEW b \in B PROVE g[a][b] = f[<<a, b>>]
  BY Zenon
<1>9. DOMAIN g = A /\ \A a \in A : g[a] = [b \in B |-> f[<<a, b>>]]
  BY Zenon
<1> DEFINE Body(a, b) == IF <<a, b>> \in stop THEN val[<<a, b>>]
                         ELSE g[to[<<a, b>>]][nxt[<<a, b>>]]
<1>10. ASSUME NEW a \in A, NEW b \in B PROVE f[<<a, b>>] = Body(a, b)
  <2> HIDE DEF g
  <2>1. CASE <<a, b>> \in stop
    BY <1>2, <1>7, <2>1, Zenon
  <2>2. CASE <<a, b>> \notin stop
    <3>1. to[<<a, b>>] \in A /\ nxt[<<a, b>>] \in B
      BY <2>2, Zenon
    <3>2. f[<<a, b>>] = f[<<to[<<a, b>>], nxt[<<a, b>>]>>]
      BY <1>2, <1>3, <1>7, <2>2, Zenon
    <3>3. QED
      BY <1>8, <2>2, <3>1, <3>2, Zenon
  <2>3. QED
    BY <2>1, <2>2, Zenon
<1>11. \A a \in A : g[a] = [b \in B |-> Body(a, b)]
  <2> HIDE DEF g, Body
  <2>1. QED
    BY <1>9, <1>10, ZenonT(40)
<1>12. g = [a \in A |-> [b \in B |-> Body(a, b)]]
  <2>1. g = [a \in A |-> g[a]]
    BY Zenon
  <2> HIDE DEF g, Body
  <2>2. QED
    BY <1>9, <1>11, <2>1, Zenon
<1>13. Rounds2(g, A, B, stop, val, to, nxt)
  BY <1>12, Zenon DEF Rounds2
<1> HIDE DEF g
<1>14. QED
  BY <1>13, Zenon

-----------------------------------------------------------------------------
\* Sequences, numbers and pairs.

LEMMA FrontOf ==
    ASSUME NEW S, NEW s \in Seq(S), Len(s) > 0
    PROVE  /\ Pop(s) \in Seq(S) /\ Len(Pop(s)) = Len(s) - 1
           /\ \A k \in 1 .. Len(s) - 1 : Pop(s)[k] = s[k]
<1>1. Len(s) \in Nat /\ DOMAIN s = 1 .. Len(s) /\ \A k \in 1 .. Len(s) : s[k] \in S
  OBVIOUS
<1>2. Pop(s) = [k \in 1 .. Len(s) - 1 |-> s[k]]
  BY <1>1 DEF Pop
<1>3. Len(s) - 1 \in Nat /\ \A k \in 1 .. Len(s) - 1 : s[k] \in S
  BY <1>1
<1> DEFINE f == [k \in 1 .. Len(s) - 1 |-> s[k]]
<1>4. f \in Seq(S) /\ Len(f) = Len(s) - 1 /\ \A k \in 1 .. Len(s) - 1 : f[k] = s[k]
  BY <1>3
<1>5. QED
  BY <1>2, <1>4, Zenon

\* The range of a sequence that has grown by one.
LEMMA RangeAppend ==
    ASSUME NEW s \in Seq(Nat), NEW c \in Nat
    PROVE  /\ Append(s, c) \in Seq(Nat) /\ Len(Append(s, c)) = Len(s) + 1
           /\ Append(s, c)[Len(s) + 1] = c /\ \A i \in 1 .. Len(s) : Append(s, c)[i] = s[i]
           /\ Append(s, c) # <<>> /\ Top(Append(s, c)) = c
           /\ Range(Append(s, c)) = Range(s) \cup {c}
<1> DEFINE a == Append(s, c)
<1>1. /\ a \in Seq(Nat) /\ Len(a) = Len(s) + 1 /\ a[Len(s) + 1] = c
      /\ \A i \in 1 .. Len(s) : a[i] = s[i]
      /\ DOMAIN a = 1 .. Len(s) + 1 /\ DOMAIN s = 1 .. Len(s) /\ Len(s) \in Nat
      /\ a # <<>>
  OBVIOUS
<1> HIDE DEF a
<1>2. \A i : i \in 1 .. Len(s) + 1 <=> i \in 1 .. Len(s) \/ i = Len(s) + 1
  BY <1>1
<1>3. Range(a) = Range(s) \cup {c}
  BY <1>1, <1>2, Zenon DEF Range
<1>4. QED
  BY <1>1, <1>3, Zenon DEF Top, a

\* A sum that stays below the width is not cut by it.
LEMMA NoWrap ==
    ASSUME NEW x \in Nat, NEW m \in Nat, x < m
    PROVE  x % m = x
OBVIOUS

-----------------------------------------------------------------------------
\* Reserved ranges.

\* What every blob holds: words in the header, in the reservations and in the
\* properties other than the two that are text.
Words ==
    /\ {header.totalsize, header.off_struct, header.size_struct,
        header.off_strings, header.size_strings, header.off_mem_rsvmap} \subseteq Word
    /\ \A i \in DOMAIN blob :
          /\ (blob[i].tok = "PROP" /\ blob[i].name \notin {"compatible", "status"}) =>
                blob[i].val \in Seq(Word)
          /\ (blob[i].tok = "PROP" /\ blob[i].name = "status") => blob[i].val \in Seq(STRING)
    /\ rsvmap \in [Word -> MemRange]

\* One round of the loop of fdt_reserved_ranges.
LEMMA ReservationsStep ==
    ASSUME Words, NEW max \in Nat, NEW off \in Word, NEW got \in Seq(MemRange)
    PROVE  Reservations(max)[off][got] =
              IF \/ Len(got) >= max
                 \/ off > header.totalsize \/ header.totalsize - off < RsvEntry
                 \/ rsvmap[off] = [base |-> 0, size |-> 0]
              THEN got
              ELSE Reservations(max)[(off + RsvEntry) % Radix][Append(got, rsvmap[off])]
<1> DEFINE S == Seq(MemRange)
           Over(a, x) == \/ Len(x) >= max
                         \/ a > header.totalsize \/ header.totalsize - a < RsvEntry
                         \/ rsvmap[a] = [base |-> 0, size |-> 0]
           Body(f, a, x) == IF Over(a, x) THEN x
                            ELSE f[(a + RsvEntry) % Radix][Append(x, rsvmap[a])]
           D == Word \X S
           Room(x) == IF Len(x) >= max THEN 0 ELSE max - Len(x)
           stop == {y \in D : Over(y[1], y[2])}
           val == [y \in D |-> y[2]]
           to == [y \in D |-> (y[1] + RsvEntry) % Radix]
           nxt == [y \in D |-> Append(y[2], rsvmap[y[1]])]
           rank == [y \in D |-> Room(y[2])]
<1>1. ASSUME NEW a \in Word, NEW x \in S
      PROVE  /\ <<a, x>> \in stop <=> Over(a, x)
             /\ val[<<a, x>>] = x
             /\ to[<<a, x>>] = (a + RsvEntry) % Radix
             /\ nxt[<<a, x>>] = Append(x, rsvmap[a])
             /\ rank[<<a, x>>] = Room(x)
  <2> HIDE DEF Over, Room, S
  <2>1. <<a, x>> \in D /\ <<a, x>>[1] = a /\ <<a, x>>[2] = x
    BY SMT
  <2> HIDE DEF D
  <2>2. QED
    BY <2>1, Zenon
<1> HIDE DEF stop, val, to, nxt, rank
<1>2. ASSUME NEW x \in S, NEW a \in Word
      PROVE  /\ Room(x) \in 0 .. max
             /\ (a + RsvEntry) % Radix \in Word
             /\ Append(x, rsvmap[a]) \in S
             /\ ~(Len(x) >= max) => Room(Append(x, rsvmap[a])) < Room(x)
  <2>1. rsvmap[a] \in MemRange
    BY Zenon DEF Words
  <2> HIDE DEF MemRange
  <2>2. Append(x, rsvmap[a]) \in S /\ Len(Append(x, rsvmap[a])) = Len(x) + 1 /\ Len(x) \in Nat
    BY <2>1
  <2>3. Room(x) \in 0 .. max
    BY <2>2
  <2>4. ~(Len(x) >= max) => Room(Append(x, rsvmap[a])) < Room(x)
    BY <2>2
  <2>5. (a + RsvEntry) % Radix \in Word
    <3>1. a \in Nat /\ RsvEntry \in Nat /\ Radix \in Nat \ {0}
      BY FdtAssumption DEF Word
    <3>2. a + RsvEntry \in Nat
      BY <3>1
    <3>3. \A y \in Nat : \A r \in Nat \ {0} : y % r \in 0 .. r - 1
      OBVIOUS
    <3>4. QED
      BY <3>1, <3>2, <3>3, Zenon DEF Word
  <2>6. QED
    BY <2>2, <2>3, <2>4, <2>5, Zenon
<1>3. \A a \in Word : \A x \in S : rank[<<a, x>>] \in 0 .. max
  <2> HIDE DEF Room, S
  <2>1. QED
    BY <1>1, <1>2, Zenon
<1>4. ASSUME NEW a \in Word, NEW x \in S, <<a, x>> \notin stop
      PROVE  /\ to[<<a, x>>] \in Word /\ nxt[<<a, x>>] \in S
             /\ rank[<<to[<<a, x>>], nxt[<<a, x>>]>>] < rank[<<a, x>>]
  <2> DEFINE t == (a + RsvEntry) % Radix
             y == Append(x, rsvmap[a])
  <2>1. ~(Len(x) >= max)
    BY <1>1, <1>4, Zenon
  <2> HIDE DEF Over, Room, S
  <2>2. t \in Word /\ y \in S /\ Room(y) < Room(x)
    BY <1>2, <2>1, Zenon
  <2>3. to[<<a, x>>] = t /\ nxt[<<a, x>>] = y /\ rank[<<a, x>>] = Room(x)
    BY <1>1, Zenon
  <2> HIDE DEF t, y
  <2>4. rank[<<t, y>>] = Room(y)
    BY <1>1, <2>2, Zenon
  <2>5. QED
    BY <2>2, <2>3, <2>4, Zenon
<1>5. PICK g : Rounds2(g, Word, S, stop, val, to, nxt)
  <2>1. \A a \in Word : \A x \in S : <<a, x>> \notin stop =>
           /\ to[<<a, x>>] \in Word /\ nxt[<<a, x>>] \in S
           /\ rank[<<to[<<a, x>>], nxt[<<a, x>>]>>] < rank[<<a, x>>]
    BY <1>4, Zenon
  <2> HIDE DEF S
  <2>2. QED
    BY <1>3, <2>1, Rounds2Exist, ZenonT(40)
<1>6. g = [a \in Word |-> [x \in S |-> Body(g, a, x)]]
  <2>1. g = [a \in Word |-> [x \in S |-> IF <<a, x>> \in stop THEN val[<<a, x>>]
                                           ELSE g[to[<<a, x>>]][nxt[<<a, x>>]]]]
    BY <1>5, Zenon DEF Rounds2
  <2> HIDE DEF Over, S
  <2>2. ASSUME NEW a \in Word, NEW x \in S
        PROVE  (IF <<a, x>> \in stop THEN val[<<a, x>>] ELSE g[to[<<a, x>>]][nxt[<<a, x>>]])
                  = Body(g, a, x)
    BY <1>1, Zenon
  <2> HIDE DEF Body
  <2>3. ASSUME NEW a \in Word
        PROVE  [x \in S |-> IF <<a, x>> \in stop THEN val[<<a, x>>]
                              ELSE g[to[<<a, x>>]][nxt[<<a, x>>]]] = [x \in S |-> Body(g, a, x)]
    BY <2>2, Zenon
  <2>4. [a \in Word |-> [x \in S |-> IF <<a, x>> \in stop THEN val[<<a, x>>]
                                       ELSE g[to[<<a, x>>]][nxt[<<a, x>>]]]]
           = [a \in Word |-> [x \in S |-> Body(g, a, x)]]
    BY <2>3, Zenon
  <2>5. QED
    BY <2>1, <2>4, Zenon
<1>7. Reservations(max) = CHOOSE f : f = [a \in Word |-> [x \in S |-> Body(f, a, x)]]
  BY Zenon DEF Reservations
<1> HIDE DEF Body
<1>8. Reservations(max) = [a \in Word |-> [x \in S |-> Body(Reservations(max), a, x)]]
  BY <1>6, <1>7, Zenon
<1>9. Reservations(max)[off] = [x \in S |-> Body(Reservations(max), off, x)]
  BY <1>8, ZenonT(40)
<1>10. Reservations(max)[off][got] = Body(Reservations(max), off, got)
  BY <1>9, Zenon
<1>11. QED
  BY <1>10, Zenon DEF Body

\* The entries that count are the first ones, and their places do not wrap.
LEMMA HeldIs ==
    ASSUME Words, NEW max \in Nat
    PROVE  LET off == header.off_mem_rsvmap
               Sound(i) == /\ off + (i + 1) * RsvEntry <= header.totalsize
                           /\ rsvmap[off + i * RsvEntry] # [base |-> 0, size |-> 0]
           IN  \E h \in 0 .. max :
                  /\ {k \in 1 .. max : \A i \in 0 .. k - 1 : Sound(i)} = 1 .. h
                  /\ \A i \in 0 .. h - 1 : Sound(i)
                  /\ h < max => ~Sound(h)
<1> DEFINE off == header.off_mem_rsvmap
           Sound(i) == /\ off + (i + 1) * RsvEntry <= header.totalsize
                       /\ rsvmap[off + i * RsvEntry] # [base |-> 0, size |-> 0]
           Stops == {j \in 0 .. max : j = max \/ ~Sound(j)}
           held == {k \in 1 .. max : \A i \in 0 .. k - 1 : Sound(i)}
<1> HIDE DEF Sound
<1>1. max \in Stops
  <2>1. max \in 0 .. max
    OBVIOUS
  <2>2. QED
    BY <2>1, Zenon
<1>2. PICK h \in Stops : \A y \in Stops : h <= y
  <2>1. \A y \in Stops : y \in Nat
    OBVIOUS
  <2> HIDE DEF Stops
  <2>2. QED
    BY <1>1, <2>1, LeastExists, Zenon
<1>3. h \in 0 .. max /\ (h = max \/ ~Sound(h)) /\ h \in Nat
  OBVIOUS
<1>4. ASSUME NEW i \in 0 .. h - 1 PROVE Sound(i)
  <2>1. i \in 0 .. max /\ i # max /\ ~(h <= i)
    BY <1>3
  <2>2. QED
    BY <1>2, <2>1, Zenon
<1>5. h < max => ~Sound(h)
  BY <1>3
<1>6. held = 1 .. h
  <2>1. ASSUME NEW k \in held PROVE k \in 1 .. h
    <3>1. k \in 1 .. max /\ \A i \in 0 .. k - 1 : Sound(i)
      BY Zenon
    <3>2. CASE h < k
      <4>1. h \in 0 .. k - 1 /\ h < max
        BY <1>3, <3>1, <3>2
      <4>2. QED
        BY <1>5, <3>1, <4>1, Zenon
    <3>3. CASE ~(h < k)
      BY <1>3, <3>1, <3>3
    <3>4. QED
      BY <3>2, <3>3, Zenon
  <2>2. ASSUME NEW k \in 1 .. h PROVE k \in held
    <3>1. k \in 1 .. max /\ \A i \in 0 .. k - 1 : i \in 0 .. h - 1
      BY <1>3
    <3>2. QED
      BY <1>4, <3>1, Zenon
  <2> HIDE DEF held
  <2>3. QED
    BY <2>1, <2>2, Zenon
<1>7. QED
  BY <1>3, <1>4, <1>5, <1>6, Zenon DEF Sound

\* fdt_reserved_ranges answers them, in order.
LEMMA ReservedIs ==
    ASSUME Words, CtxInit(header), NEW max \in Nat
    PROVE  LET off == header.off_mem_rsvmap
               held == {k \in 1 .. max :
                          \A i \in 0 .. k - 1 :
                             /\ off + (i + 1) * RsvEntry <= header.totalsize
                             /\ rsvmap[off + i * RsvEntry] # [base |-> 0, size |-> 0]}
           IN  ReservedRanges(max) = [k \in held |-> rsvmap[off + (k - 1) * RsvEntry]]
<1> DEFINE off == header.off_mem_rsvmap
           total == header.totalsize
           zero == [base |-> 0, size |-> 0]
           Sound(i) == /\ off + (i + 1) * RsvEntry <= total
                       /\ rsvmap[off + i * RsvEntry] # zero
           held == {k \in 1 .. max : \A i \in 0 .. k - 1 : Sound(i)}
           At(i) == off + i * RsvEntry
           First(j) == [k \in 1 .. j |-> rsvmap[At(k - 1)]]
           F == Reservations(max)
<1>1. PICK h \in 0 .. max : /\ held = 1 .. h
                            /\ \A i \in 0 .. h - 1 : Sound(i)
                            /\ h < max => ~Sound(h)
  BY HeldIs, Zenon
<1>2. h \in Nat /\ h <= max
  BY <1>1
<1>3. off \in Word /\ total \in Word /\ RsvEntry \in Nat \ {0} /\ Radix \in Nat \ {0}
  BY FdtAssumption, Zenon DEF Words
<1>4. off \in Nat /\ total \in Nat /\ total < Radix /\ off < Radix
  BY <1>3 DEF Word
<1>5. ASSUME NEW i \in Nat
      PROVE  /\ At(i) \in Nat /\ off + (i + 1) * RsvEntry = At(i) + RsvEntry
             /\ At(i + 1) = At(i) + RsvEntry
  <2> HIDE DEF off, total
  <2>1. i * RsvEntry \in Nat /\ (i + 1) * RsvEntry = i * RsvEntry + RsvEntry
    BY <1>3
  <2>2. QED
    BY <1>3, <1>4, <2>1
<1>6. At(0) = off
  <2> HIDE DEF off
  <2>1. QED
    BY <1>3, <1>4
<1>7. \A i \in Nat : Sound(i) <=> At(i) + RsvEntry <= total /\ rsvmap[At(i)] # zero
  BY <1>5, Zenon
<1> HIDE DEF At, Sound, off, total, zero
<1>8. ASSUME NEW j \in Nat, j <= h
      PROVE  At(j) \in Word /\ At(j) \in Nat
  <2>1. CASE j = 0
    BY <1>3, <1>4, <1>6, <2>1, Zenon
  <2>2. CASE j # 0
    <3>1. j - 1 \in 0 .. h - 1 /\ j - 1 \in Nat /\ j - 1 + 1 = j
      BY <1>2, <1>8, <2>2
    <3>2. At(j - 1) + RsvEntry <= total /\ At(j) = At(j - 1) + RsvEntry /\ At(j) \in Nat
      BY <1>1, <1>5, <1>7, <1>8, <3>1, Zenon
    <3>3. At(j) \in 0 .. Radix - 1
      BY <1>3, <1>4, <3>2
    <3>4. QED
      BY <3>2, <3>3, Zenon DEF Word
  <2>3. QED
    BY <2>1, <2>2, Zenon
<1>9. ASSUME NEW j \in Nat, j <= h
      PROVE  First(j) \in Seq(MemRange) /\ Len(First(j)) = j
  <2>1. ASSUME NEW k \in 1 .. j PROVE rsvmap[At(k - 1)] \in MemRange
    <3>1. k - 1 \in Nat /\ k - 1 <= h
      BY <1>2, <1>9
    <3>2. QED
      BY <1>8, <3>1, Zenon DEF Words
  <2> DEFINE V(k) == rsvmap[At(k - 1)]
  <2> HIDE DEF MemRange, V
  <2>2. \A k \in 1 .. j : V(k) \in MemRange
    BY <2>1, Zenon DEF V
  <2>3. [k \in 1 .. j |-> V(k)] \in Seq(MemRange) /\ Len([k \in 1 .. j |-> V(k)]) = j
    BY <2>2
  <2>4. QED
    BY <2>3, Zenon DEF V
<1>10. ASSUME NEW j \in Nat, j < h
       PROVE  First(j + 1) = Append(First(j), rsvmap[At(j)])
  <2> DEFINE a == First(j)
             b == First(j + 1)
             x == rsvmap[At(j)]
  <2>1. /\ a \in Seq(MemRange) /\ Len(a) = j /\ b \in Seq(MemRange) /\ Len(b) = j + 1
        /\ x \in MemRange
    <3>1. j <= h /\ j + 1 \in Nat /\ j + 1 <= h
      BY <1>2, <1>10
    <3>2. QED
      BY <1>8, <1>9, <3>1, Zenon DEF Words
  <2>2. \A k \in 1 .. j : k \in 1 .. j + 1
    OBVIOUS
  <2>3. (\A k \in 1 .. j : b[k] = a[k]) /\ b[j + 1] = x
    <3>1. \A k \in 1 .. j : b[k] = a[k]
      BY <2>2, Zenon
    <3>2. \A k \in 1 .. j + 1 : k - 1 = j => b[k] = x
      BY Zenon
    <3> HIDE DEF a, b, x
    <3> DEFINE q == j + 1
    <3>3. q \in 1 .. j + 1 /\ q - 1 = j
      OBVIOUS
    <3> HIDE DEF q
    <3>4. b[q] = x
      BY <3>2, <3>3, Zenon
    <3>5. QED
      BY <3>1, <3>4, Zenon DEF q
  <2> HIDE DEF a, b, x, MemRange
  <2>4. b = Append(a, x)
    BY <2>1, <2>3
  <2>5. QED
    BY <2>4, Zenon DEF a, b, x
<1> DEFINE Wrong == {j \in 0 .. h : F[At(j)][First(j)] # F[off][<<>>]}
<1>11. ASSUME NEW j \in Nat, j <= h
       PROVE  F[At(j)][First(j)] =
                 IF \/ j >= max
                    \/ At(j) > total \/ total - At(j) < RsvEntry
                    \/ rsvmap[At(j)] = zero
                 THEN First(j)
                 ELSE F[(At(j) + RsvEntry) % Radix][Append(First(j), rsvmap[At(j)])]
  <2> HIDE DEF First
  <2>1. At(j) \in Word /\ First(j) \in Seq(MemRange) /\ Len(First(j)) = j
    BY <1>8, <1>9, <1>11, Zenon
  <2> DEFINE a == At(j)
             x == First(j)
  <2> HIDE DEF a, x
  <2>2. F[a][x] = IF \/ Len(x) >= max
                     \/ a > header.totalsize \/ header.totalsize - a < RsvEntry
                     \/ rsvmap[a] = [base |-> 0, size |-> 0]
                  THEN x ELSE F[(a + RsvEntry) % Radix][Append(x, rsvmap[a])]
    BY <2>1, ReservationsStep, Zenon DEF a, x
  <2>3. QED
    BY <2>1, <2>2, Zenon DEF a, x, total, zero
<1> HIDE DEF F
<1>12. Wrong = {}
  <2> SUFFICES ASSUME Wrong # {} PROVE FALSE
    BY Zenon
  <2>1. PICK j \in Wrong : \A y \in Wrong : j <= y
    <3>1. \A y \in Wrong : y \in Nat
      BY <1>2
    <3> HIDE DEF Wrong
    <3>2. QED
      BY <3>1, LeastExists, Zenon
  <2>2. j \in 0 .. h /\ F[At(j)][First(j)] # F[off][<<>>]
    BY <2>1, Zenon
  <2>3. j # 0
    <3>1. First(0) = <<>>
      <4>1. First(0) \in Seq(MemRange) /\ Len(First(0)) = 0
        <5>1. 0 \in Nat /\ 0 <= h
          BY <1>2
        <5>2. QED
          BY <1>9, <5>1, Zenon
      <4> HIDE DEF First
      <4>2. QED
        BY <4>1
    <3>2. QED
      BY <1>6, <2>2, <3>1, Zenon
  <2> DEFINE i == j - 1
  <2>4. i \in Nat /\ i < h /\ i <= h /\ i + 1 = j /\ i \in 0 .. h /\ i \in 0 .. h - 1 /\ ~(i >= max) /\ ~(j <= i)
    BY <1>2, <2>2, <2>3
  <2> HIDE DEF i
  <2>5. F[At(i)][First(i)] = F[off][<<>>]
    <3>1. i \notin Wrong
      BY <2>1, <2>4, Zenon
    <3>2. QED
      BY <2>4, <3>1, Zenon
  <2>6. At(i) + RsvEntry <= total /\ rsvmap[At(i)] # zero /\ At(i) \in Nat /\ At(j) = At(i) + RsvEntry
    BY <1>1, <1>5, <1>7, <2>4, Zenon
  <2>7. ~(At(i) > total) /\ ~(total - At(i) < RsvEntry) /\ (At(i) + RsvEntry) % Radix = At(j)
    <3>1. At(i) + RsvEntry \in Nat /\ At(i) + RsvEntry < Radix
      BY <1>3, <1>4, <2>6
    <3>2. (At(i) + RsvEntry) % Radix = At(i) + RsvEntry
      BY <1>3, <3>1, NoWrap, Zenon
    <3>3. ~(At(i) > total) /\ ~(total - At(i) < RsvEntry)
      BY <1>3, <1>4, <2>6
    <3>4. QED
      BY <2>6, <3>2, <3>3, Zenon
  <2>8. F[At(i)][First(i)] = F[At(j)][Append(First(i), rsvmap[At(i)])]
    BY <1>11, <2>4, <2>6, <2>7, Zenon
  <2>9. First(j) = Append(First(i), rsvmap[At(i)])
    BY <1>10, <2>4, Zenon
  <2>10. QED
    BY <2>2, <2>5, <2>8, <2>9, Zenon
<1>13. F[At(h)][First(h)] = First(h)
  <2>1. h <= h
    BY <1>2
  <2>2. CASE h >= max
    BY <1>2, <1>11, <2>1, <2>2, Zenon
  <2>3. CASE ~(h >= max)
    <3>1. h < max
      BY <1>2, <2>3
    <3>2. ~(At(h) + RsvEntry <= total) \/ rsvmap[At(h)] = zero
      BY <1>1, <1>2, <1>7, <3>1, Zenon
    <3>3. ~(At(h) + RsvEntry <= total) => total - At(h) < RsvEntry
      <4>1. At(h) \in Nat
        BY <1>2, <1>5, Zenon
      <4>2. QED
        BY <1>3, <1>4, <4>1
    <3>4. QED
      BY <1>2, <1>11, <2>1, <3>2, <3>3, Zenon
  <2>4. QED
    BY <2>2, <2>3, Zenon
<1>14. F[off][<<>>] = First(h)
  <2>1. h \in 0 .. h
    BY <1>2
  <2>2. QED
    BY <1>12, <1>13, <2>1, Zenon
<1>15. ReservedRanges(max) = F[off][<<>>]
  BY Zenon DEF ReservedRanges, F, off
<1>16. First(h) = [k \in held |-> rsvmap[At(k - 1)]]
  <2> HIDE DEF held, At
  <2>1. QED
    BY <1>1, Zenon
<1>17. QED
  BY <1>14, <1>15, <1>16, Zenon DEF Sound, At, off, total, zero

-----------------------------------------------------------------------------
\* The loop of skip_node.

\* The block is a sequence of items.
Blob ==
    /\ Len(blob) \in Nat /\ DOMAIN blob = 1 .. Len(blob)
    /\ \A i \in DOMAIN blob : blob[i].tok \in Tokens /\ blob[i].whole \in BOOLEAN

\* What the loop does at an item, by its token.
LEMMA SkipSteps ==
    ASSUME Blob, NEW i \in Nat, NEW d \in Int
    PROVE  /\ ~Inside(i) => Skip[i][d] = Err
           /\ Inside(i) =>
                /\ blob[i].tok = "BEGIN_NODE" /\ blob[i].whole => Skip[i][d] = Skip[i + 1][d + 1]
                /\ blob[i].tok = "END_NODE" =>
                      Skip[i][d] = IF d - 1 <= 0 THEN i + 1 ELSE Skip[i + 1][d - 1]
                /\ blob[i].tok = "PROP" /\ blob[i].whole => Skip[i][d] = Skip[i + 1][d]
                /\ blob[i].tok = "NOP" => Skip[i][d] = Skip[i + 1][d]
                /\ blob[i].tok = "END" \/ (blob[i].tok \in {"BEGIN_NODE", "PROP"} /\ ~blob[i].whole)
                      => Skip[i][d] = Err
<1> DEFINE Body(f, j, e) ==
        IF ~Inside(j) THEN Err
        ELSE CASE blob[j].tok = "BEGIN_NODE" /\ blob[j].whole -> f[j + 1][e + 1]
               [] blob[j].tok = "END_NODE" -> IF e - 1 <= 0 THEN j + 1 ELSE f[j + 1][e - 1]
               [] blob[j].tok = "PROP" /\ blob[j].whole -> f[j + 1][e]
               [] blob[j].tok = "NOP" -> f[j + 1][e]
               [] OTHER -> Err
      Goes(j, e) ==
        /\ Inside(j)
        /\ \/ blob[j].tok \in {"BEGIN_NODE", "PROP"} /\ blob[j].whole
           \/ blob[j].tok = "END_NODE" /\ ~(e - 1 <= 0)
           \/ blob[j].tok = "NOP"
      stop == {x \in Nat \X Int : ~Goes(x[1], x[2])}
      val == [x \in Nat \X Int |-> IF Inside(x[1]) /\ blob[x[1]].tok = "END_NODE" THEN x[1] + 1
                                   ELSE Err]
      nxt == [x \in Nat \X Int |-> IF blob[x[1]].tok = "BEGIN_NODE" THEN x[2] + 1
                                   ELSE IF blob[x[1]].tok = "END_NODE" THEN x[2] - 1 ELSE x[2]]
<1>1. ASSUME NEW j \in Nat, NEW e \in Int
      PROVE  /\ <<j, e>> \in stop <=> ~Goes(j, e)
             /\ val[<<j, e>>] = IF Inside(j) /\ blob[j].tok = "END_NODE" THEN j + 1 ELSE Err
             /\ nxt[<<j, e>>] = IF blob[j].tok = "BEGIN_NODE" THEN e + 1
                                ELSE IF blob[j].tok = "END_NODE" THEN e - 1 ELSE e
  <2> HIDE DEF Goes
  <2>1. QED
    BY SMT
<1>2. ASSUME NEW f, NEW j \in Nat, NEW e \in Int
      PROVE  Body(f, j, e) = IF <<j, e>> \in stop THEN val[<<j, e>>] ELSE f[j + 1][nxt[<<j, e>>]]
  <2> HIDE DEF stop, val, nxt
  <2>1. CASE ~Inside(j)
    BY <1>1, <2>1, Zenon
  <2>2. CASE Inside(j)
    <3>1. blob[j].tok \in Tokens /\ blob[j].whole \in BOOLEAN
      BY <2>2, Zenon DEF Inside, Blob
    <3>2. QED
      BY <1>1, <2>2, <3>1 DEF Tokens
  <2>3. QED
    BY <2>1, <2>2, Zenon
<1>3. ASSUME NEW j \in Nat, NEW e \in Int, <<j, e>> \notin stop
      PROVE  j <= Len(blob) /\ nxt[<<j, e>>] \in Int
  <2>1. j \in DOMAIN blob
    BY <1>1, <1>3, Zenon DEF Inside
  <2>2. j <= Len(blob)
    BY <2>1 DEF Blob
  <2> HIDE DEF stop, nxt
  <2>3. nxt[<<j, e>>] \in {e, e + 1, e - 1}
    BY <1>1, Zenon
  <2>4. e + 1 \in Int /\ e - 1 \in Int
    OBVIOUS
  <2>5. QED
    BY <2>2, <2>3, <2>4, Zenon
<1>4. \E f : Loop(f, Int, stop, val, nxt)
  <2> HIDE DEF stop, val, nxt
  <2>1. Len(blob) \in Nat
    BY Zenon DEF Blob
  <2>2. \A j \in Nat : \A e \in Int :
           <<j, e>> \notin stop => j <= Len(blob) /\ nxt[<<j, e>>] \in Int
    BY <1>3, Zenon
  <2>3. QED
    BY <2>1, <2>2, LoopExists, ZenonT(40)
<1>5. \E f : f = [j \in Nat |-> [e \in Int |-> Body(f, j, e)]]
  <2> HIDE DEF stop, val, nxt, Body
  <2>1. PICK f : f = [j \in Nat |-> [e \in Int |-> IF <<j, e>> \in stop THEN val[<<j, e>>]
                                                   ELSE f[j + 1][nxt[<<j, e>>]]]]
    BY <1>4, Zenon DEF Loop
  <2>2. ASSUME NEW j \in Nat
        PROVE  [e \in Int |-> IF <<j, e>> \in stop THEN val[<<j, e>>] ELSE f[j + 1][nxt[<<j, e>>]]]
                  = [e \in Int |-> Body(f, j, e)]
    BY <1>2, Zenon
  <2>3. [j \in Nat |-> [e \in Int |-> IF <<j, e>> \in stop THEN val[<<j, e>>]
                                     ELSE f[j + 1][nxt[<<j, e>>]]]]
           = [j \in Nat |-> [e \in Int |-> Body(f, j, e)]]
    BY <2>2, Zenon
  <2>4. QED
    BY <2>1, <2>3, Zenon
<1>6. Skip = CHOOSE f : f = [j \in Nat |-> [e \in Int |-> Body(f, j, e)]]
  BY Zenon DEF Skip
<1>7. Skip = [j \in Nat |-> [e \in Int |-> Body(Skip, j, e)]]
  <2> HIDE DEF Body
  <2>1. QED
    BY <1>5, <1>6, Zenon
<1>8. Skip[i][d] = Body(Skip, i, d)
  <2> HIDE DEF Body
  <2>1. Skip[i] = [e \in Int |-> Body(Skip, i, e)]
    BY <1>7, ZenonT(40)
  <2>2. QED
    BY <2>1, Zenon
<1>9. CASE ~Inside(i)
  BY <1>8, <1>9, Zenon
<1>10. CASE Inside(i)
  <2>1. blob[i].tok \in Tokens /\ blob[i].whole \in BOOLEAN
    BY <1>10, Zenon DEF Inside, Blob
  <2>2. QED
    BY <1>8, <1>10, <2>1 DEF Tokens
<1>11. QED
  BY <1>9, <1>10, Zenon

\* The loop of skip_node only goes forward: what it answers is a later
\* position of the block or the one after it.
LEMMA SkipForward ==
    ASSUME Blob, NEW n \in Nat, SkipNode(n) # Err
    PROVE  SkipNode(n) \in n + 1 .. Len(blob) + 1
<1> DEFINE L == Len(blob)
           Bad(i, d) == Skip[i][d] # Err /\ Skip[i][d] \notin i + 1 .. L + 1
           Wrong == {k \in Nat : \E i \in Nat, d \in Int : i + k = L + 1 /\ Bad(i, d)}
<1>0. \A p, q \in Nat : p <= q => /\ p + 1 \in p + 1 .. q + 1
                                   /\ \A x \in p + 1 + 1 .. q + 1 : x \in p + 1 .. q + 1
  BY SMT
<1>1. L \in Nat /\ 0 \in Int
  BY DEF Blob
<1>2. Wrong = {}
  <2> SUFFICES ASSUME Wrong # {} PROVE FALSE
    BY Zenon
  <2>1. \A k \in Wrong : k \in Nat
    BY Zenon
  <2>2. PICK k \in Wrong : \A y \in Wrong : k <= y
    <3> HIDE DEF Wrong
    <3>1. QED
      BY <2>1, LeastExists, Zenon
  <2>3. PICK i \in Nat, d \in Int : i + k = L + 1 /\ Bad(i, d)
    BY <2>2, Zenon
  <2>4. Inside(i)
    BY <2>3, SkipSteps, Zenon
  <2>5. i \in 1 .. L /\ i + 1 \in Nat /\ d + 1 \in Int /\ d - 1 \in Int /\ k - 1 \in Nat
        /\ i + 1 + (k - 1) = L + 1 /\ ~(k <= k - 1)
    BY <1>1, <2>2, <2>3, <2>4 DEF Inside, Blob
  <2>6. \A e \in Int : ~Bad(i + 1, e)
    <3> HIDE DEF Bad
    <3>1. QED
      BY <2>2, <2>5, Zenon
  <2>7. i + 1 \in i + 1 .. L + 1 /\ \A x \in i + 1 + 1 .. L + 1 : x \in i + 1 .. L + 1
    <3>1. i <= L
      BY <1>1, <2>5
    <3>2. QED
      BY <1>0, <1>1, <3>1, Zenon
  <2>8. ~Bad(i, d)
    <3>1. \/ Skip[i][d] = Err
          \/ Skip[i][d] = i + 1
          \/ \E e \in Int : Skip[i][d] = Skip[i + 1][e]
      <4>1. blob[i].tok \in Tokens /\ blob[i].whole \in BOOLEAN
        BY <2>4, Zenon DEF Inside, Blob
      <4>2. CASE blob[i].tok = "END_NODE"
        BY <2>4, <2>5, <4>2, SkipSteps, Zenon
      <4>3. CASE blob[i].tok \in {"BEGIN_NODE", "PROP"} /\ blob[i].whole
        BY <2>4, <2>5, <4>3, SkipSteps, Zenon
      <4>4. CASE blob[i].tok = "NOP"
        BY <2>4, <2>5, <4>4, SkipSteps, Zenon
      <4>5. CASE blob[i].tok = "END" \/ (blob[i].tok \in {"BEGIN_NODE", "PROP"} /\ ~blob[i].whole)
        BY <2>4, <2>5, <4>5, SkipSteps, Zenon
      <4>6. QED
        BY <4>1, <4>2, <4>3, <4>4, <4>5, Zenon DEF Tokens
    <3>2. QED
      BY <2>6, <2>7, <3>1, Zenon
  <2>9. QED
    BY <2>3, <2>8, Zenon
<1>3. Bad(n, 0) => n \in 1 .. L
  <2>1. Bad(n, 0) => Inside(n)
    BY <1>1, SkipSteps, Zenon
  <2>2. QED
    BY <2>1 DEF Inside, Blob
<1>4. ~Bad(n, 0)
  <2> SUFFICES ASSUME Bad(n, 0) PROVE FALSE
    BY Zenon
  <2> HIDE DEF Bad
  <2>1. L + 1 - n \in Nat /\ n + (L + 1 - n) = L + 1
    BY <1>1, <1>3
  <2>2. QED
    BY <1>1, <1>2, <2>1, Zenon
<1>5. QED
  BY <1>4, Zenon DEF SkipNode

-----------------------------------------------------------------------------
\* Nesting.

\* A running sum exists, and grows by one item at a time.
LEMMA SumExists ==
    ASSUME NEW f, NEW n \in Nat
    PROVE  \E s : s = [k \in 1 .. n |-> IF k = 1 THEN 0 ELSE s[k - 1] + f[k - 1]]
<1> DEFINE Sum(s, m) == s = [k \in 1 .. m |-> IF k = 1 THEN 0 ELSE s[k - 1] + f[k - 1]]
           Wrong == {m \in Nat : ~\E s : Sum(s, m)}
<1> SUFFICES ASSUME Wrong # {} PROVE FALSE
  BY ZenonT(40)
<1>1. PICK m \in Wrong : \A y \in Wrong : m <= y
  <2>1. \A y \in Wrong : y \in Nat
    BY Zenon
  <2> HIDE DEF Wrong
  <2>2. QED
    BY <2>1, LeastExists, Zenon
<1>2. m \in Nat /\ \A s : ~Sum(s, m)
  BY Zenon
<1>3. CASE m = 0
  <2> DEFINE s == [k \in 1 .. 0 |-> 0]
  <2>1. 1 .. 0 = {}
    OBVIOUS
  <2>2. Sum(s, 0)
    BY <2>1, Zenon
  <2> HIDE DEF Sum, s
  <2>3. QED
    BY <1>2, <1>3, <2>2, Zenon
<1>4. CASE m # 0
  <2>1. m - 1 \in Nat /\ ~(m <= m - 1)
    BY <1>2, <1>4
  <2>2. PICK s : Sum(s, m - 1)
    <3> HIDE DEF Sum
    <3>1. QED
      BY <1>1, <2>1, Zenon
  <2> DEFINE V(k) == IF k = 1 THEN 0 ELSE s[k - 1] + f[k - 1]
             t == [k \in 1 .. m |-> V(k)]
  <2>3. \A k \in 1 .. m : k # 1 => k - 1 \in 1 .. m /\ k - 1 \in 1 .. m - 1
    BY <1>2
  <2>4. \A k \in 1 .. m - 1 : s[k] = V(k) /\ k \in 1 .. m
    <3>1. \A k \in 1 .. m - 1 : k \in 1 .. m
      BY <1>2
    <3>2. QED
      BY <2>2, <3>1, Zenon
  <2>5. \A k \in 1 .. m : k # 1 => t[k - 1] = s[k - 1]
    <3>1. \A k \in 1 .. m : t[k] = V(k)
      BY Zenon
    <3> HIDE DEF t, V
    <3>2. QED
      BY <2>3, <2>4, <3>1, Zenon
  <2>6. \A k \in 1 .. m : V(k) = IF k = 1 THEN 0 ELSE t[k - 1] + f[k - 1]
    <3> HIDE DEF t
    <3>1. QED
      BY <2>5, Zenon
  <2>7. Sum(t, m)
    <3> DEFINE u == t
    <3>1. \A k \in 1 .. m : V(k) = IF k = 1 THEN 0 ELSE u[k - 1] + f[k - 1]
      BY <2>6, Zenon
    <3>2. u = [k \in 1 .. m |-> V(k)]
      BY Zenon
    <3> HIDE DEF u, t, V
    <3>3. u = [k \in 1 .. m |-> IF k = 1 THEN 0 ELSE u[k - 1] + f[k - 1]]
      BY <3>1, <3>2, Zenon
    <3>4. QED
      BY <3>3, Zenon DEF u
  <2> HIDE DEF Sum, t
  <2>8. QED
    BY <1>2, <2>7, Zenon
<1>5. QED
  BY <1>3, <1>4, Zenon

LEMMA SumSteps ==
    ASSUME Blob, NEW f
    PROVE  /\ SumBefore(f, 1) = 0
           /\ \A i \in DOMAIN blob : SumBefore(f, i + 1) = SumBefore(f, i) + f[i]
<1> DEFINE n == Len(blob) + 1
           Sum(s) == s = [k \in 1 .. n |-> IF k = 1 THEN 0 ELSE s[k - 1] + f[k - 1]]
           sum == CHOOSE s : Sum(s)
<1>1. Len(blob) \in Nat /\ DOMAIN blob = 1 .. Len(blob)
  BY Zenon DEF Blob
<1>2. n \in Nat /\ 1 \in 1 .. n
  BY <1>1
<1>3. Sum(sum)
  <2>1. \E s : Sum(s)
    BY <1>2, SumExists, Zenon
  <2> HIDE DEF Sum
  <2>2. QED
    BY <2>1, Zenon
<1>4. \A i : SumBefore(f, i) = sum[i]
  BY Zenon DEF SumBefore
<1> HIDE DEF sum, n
<1>5. sum[1] = 0 /\ \A i \in 1 .. Len(blob) : sum[i + 1] = sum[i] + f[i]
  <2>1. \A k \in 1 .. n : sum[k] = IF k = 1 THEN 0 ELSE sum[k - 1] + f[k - 1]
    BY <1>3, Zenon
  <2> HIDE DEF Sum
  <2>2. sum[1] = 0
    BY <1>2, <2>1, Zenon
  <2>3. ASSUME NEW i \in 1 .. Len(blob) PROVE sum[i + 1] = sum[i] + f[i]
    <3> DEFINE k == i + 1
    <3>1. k \in 1 .. n /\ k # 1 /\ k - 1 = i
      BY <1>1 DEF n
    <3> HIDE DEF k
    <3>2. sum[k] = sum[k - 1] + f[k - 1]
      BY <2>1, <3>1, Zenon
    <3>3. QED
      BY <3>1, <3>2, Zenon DEF k
  <2>4. QED
    BY <2>2, <2>3, Zenon
<1>6. QED
  BY <1>1, <1>4, <1>5, Zenon

\* Every item opens a level, closes one or leaves it.
LEMMA LevelSteps ==
    ASSUME Blob, NEW i \in DOMAIN blob
    PROVE  /\ i \in Nat /\ Level(i) \in Int
           /\ i \in Nodes => Level(i + 1) = Level(i) + 1
           /\ i \in Ends => Level(i + 1) = Level(i) - 1
           /\ i \notin Nodes \cup Ends => Level(i + 1) = Level(i)
<1> DEFINE Wrong == {j \in DOMAIN blob : Level(j) \notin Int}
<1>1. Len(blob) \in Nat /\ DOMAIN blob = 1 .. Len(blob)
  BY Zenon DEF Blob
<1>2. Level(1) = 0 /\ \A j \in DOMAIN blob : Level(j + 1) = Level(j) + Nesting[j]
  BY SumSteps, Zenon DEF Level
<1>3. \A j \in DOMAIN blob : /\ j \in Nodes => Nesting[j] = 1
                             /\ j \in Ends => Nesting[j] = -1
                             /\ j \notin Nodes \cup Ends => Nesting[j] = 0
  BY DEF Nesting, Nodes, Ends
<1>4. Wrong = {}
  <2> SUFFICES ASSUME Wrong # {} PROVE FALSE
    BY Zenon
  <2>1. PICK j \in Wrong : \A y \in Wrong : j <= y
    <3>1. \A y \in Wrong : y \in Nat
      BY <1>1
    <3> HIDE DEF Wrong
    <3>2. QED
      BY <3>1, LeastExists, Zenon
  <2>2. j \in 1 .. Len(blob) /\ Level(j) \notin Int
    BY <1>1, <2>1, Zenon
  <2>3. j # 1
    BY <1>2, <2>2
  <2>4. j - 1 \in DOMAIN blob /\ j - 1 + 1 = j /\ ~(j <= j - 1)
    BY <1>1, <2>2, <2>3
  <2>5. Level(j - 1) \in Int /\ Level(j) = Level(j - 1) + Nesting[j - 1]
    BY <1>2, <2>1, <2>4, Zenon
  <2>6. Nesting[j - 1] \in Int
    <3>1. Nesting[j - 1] \in {1, -1, 0}
      BY <1>3, <2>4, Zenon
    <3>2. QED
      BY <3>1
  <2>7. QED
    BY <2>2, <2>5, <2>6
<1>5. i \in Nat /\ Level(i) \in Int
  BY <1>1, <1>4
<1>6. Level(i + 1) = Level(i) + Nesting[i]
  BY <1>2, Zenon
<1>7. QED
  BY <1>3, <1>5, <1>6

\* In a well-formed block no level is negative, and the root is open from its
\* first token to the END.
LEMMA Levels ==
    ASSUME Blob, WellFormed
    PROVE  \A i \in DOMAIN blob : Level(i) \in Nat
<1> DEFINE L == Len(blob)
           Bad == {i \in 1 .. L : Level(i) < 0}
<1>1. L \in Nat /\ DOMAIN blob = 1 .. L /\ L >= 3 /\ 1 \in Nodes
  BY Zenon DEF Blob, WellFormed
<1>2. Bad = {}
  <2> SUFFICES ASSUME Bad # {} PROVE FALSE
    BY Zenon
  <2>1. \A k \in Bad : k \in Nat
    BY <1>1
  <2>2. PICK i \in Bad : \A y \in Bad : i <= y
    <3> HIDE DEF Bad
    <3>1. QED
      BY <2>1, LeastExists, Zenon
  <2>3. i \in 1 .. L /\ Level(i) < 0 /\ 1 \in DOMAIN blob
    BY <1>1, <2>2
  <2>4. Level(1) = 0
    BY <2>3, Zenon DEF WellFormed
  <2>5. i # 1
    BY <2>3, <2>4
  <2>6. i - 1 \in 1 .. L /\ i - 1 + 1 = i /\ ~(i <= i - 1) /\ i - 1 # L
    BY <1>1, <2>3, <2>5
  <2>7. i - 1 \notin Bad
    BY <2>2, <2>6, Zenon
  <2>8. Level(i - 1) \in Int /\ Level(i) \in {Level(i - 1), Level(i - 1) + 1, Level(i - 1) - 1}
        /\ (i - 1 \in Nodes => Level(i) = Level(i - 1) + 1)
    BY <1>1, <2>6, LevelSteps, Zenon
  <2>9. Level(i - 1) = 0 /\ i - 1 \notin Nodes
    BY <2>3, <2>6, <2>7, <2>8
  <2>10. i - 1 = 1
    BY <1>1, <2>6, <2>9, Zenon DEF WellFormed
  <2>11. QED
    BY <1>1, <2>9, <2>10, Zenon
<1>3. QED
  <2> SUFFICES ASSUME NEW i \in DOMAIN blob PROVE Level(i) \in Nat
    BY Zenon
  <2>1. Level(i) \in Int
    BY LevelSteps, Zenon
  <2>2. ~(Level(i) < 0)
    BY <1>1, <1>2, Zenon
  <2>3. QED
    BY <2>1, <2>2

\* A node lies before the END, and so does the end of one.
LEMMA Places ==
    ASSUME Blob, WellFormed
    PROVE  /\ Len(blob) \in Nat /\ Len(blob) >= 3 /\ DOMAIN blob = 1 .. Len(blob)
           /\ \A i \in Nodes \cup Ends : i \in Nat /\ i >= 1 /\ i < Len(blob) /\ i \in DOMAIN blob
           /\ \A i \in Nodes : i \notin Ends
           /\ CtxInit(header)
<1>1. Len(blob) \in Nat /\ Len(blob) >= 3 /\ DOMAIN blob = 1 .. Len(blob) /\ CtxInit(header)
  BY Zenon DEF Blob, WellFormed
<1>2. ASSUME NEW i \in Nodes \cup Ends
      PROVE  i \in Nat /\ i >= 1 /\ i < Len(blob) /\ i \in DOMAIN blob
  <2>1. i \in DOMAIN blob /\ blob[i].tok \in {"BEGIN_NODE", "END_NODE"}
    BY Zenon DEF Nodes, Ends
  <2>2. i # Len(blob)
    BY <2>1 DEF WellFormed
  <2>3. QED
    BY <1>1, <2>1, <2>2
<1>3. \A i \in Nodes : i \notin Ends
  BY DEF Nodes, Ends
<1>4. QED
  BY <1>1, <1>2, <1>3, Zenon

\* Everything between a node and the item that closes it is nested in it.
LEMMA CloseIs ==
    ASSUME Blob, WellFormed, NEW n \in Nodes
    PROVE  /\ Close(n) \in Ends /\ n < Close(n)
           /\ Level(Close(n)) = Level(n) + 1
           /\ \A j \in n + 1 .. Close(n) : Level(j) >= Level(n) + 1
           /\ \A j \in Ends : (n < j /\ Level(j) = Level(n) + 1) => Close(n) <= j
<1> DEFINE L == Len(blob)
           Low == {j \in n + 1 .. L : Level(j) <= Level(n)}
<1>1. L \in Nat /\ DOMAIN blob = 1 .. L /\ n \in 1 .. L /\ n < L
  BY Places
<1>2. \A i \in 1 .. L : Level(i) \in Nat
  BY <1>1, Levels, Zenon
<1>3. L \in Low
  <2>1. L \in 1 .. L /\ L \in n + 1 .. L
    BY <1>1
  <2>2. Level(L) = 0
    BY <1>1, <2>1, Zenon DEF WellFormed
  <2>3. QED
    BY <1>1, <1>2, <2>1, <2>2
<1>4. \A y \in Low : y \in Nat
  BY <1>1
<1>5. PICK m \in Low : \A y \in Low : m <= y
  <2> HIDE DEF Low
  <2>1. QED
    BY <1>3, <1>4, LeastExists, Zenon
<1>6. m \in n + 1 .. L /\ Level(m) <= Level(n) /\ m \in 1 .. L
  BY <1>1, <1>5
<1>7. Level(n + 1) = Level(n) + 1
  BY <1>1, LevelSteps, Zenon
<1>8. m # n + 1
  BY <1>1, <1>2, <1>6, <1>7
<1> DEFINE k == m - 1
<1>9. k \in n + 1 .. L /\ k \in 1 .. L /\ k + 1 = m /\ n < k /\ ~(m <= k)
  BY <1>1, <1>6, <1>8
<1>10. \A j \in n + 1 .. k : Level(j) >= Level(n) + 1
  <2> SUFFICES ASSUME NEW j \in n + 1 .. k PROVE Level(j) >= Level(n) + 1
    BY Zenon
  <2>1. j \in n + 1 .. L /\ j \in 1 .. L /\ ~(m <= j)
    BY <1>1, <1>6
  <2>2. ~(Level(j) <= Level(n))
    BY <1>5, <2>1, Zenon
  <2>3. Level(j) \in Nat /\ Level(n) \in Nat
    BY <1>1, <1>2, <2>1, Zenon
  <2> HIDE DEF k, Low
  <2>4. QED
    BY <2>2, <2>3
<1> HIDE DEF k, Low
<1>11. k \in n + 1 .. k
  BY <1>1, <1>9
<1>12. Level(k) >= Level(n) + 1 /\ Level(k) \in Nat /\ Level(n) \in Nat /\ Level(m) \in Nat
  BY <1>1, <1>2, <1>6, <1>9, <1>10, <1>11, Zenon
<1>13. k \in Ends /\ Level(m) = Level(k) - 1
  <2>1. k \notin Ends => Level(m) = Level(k) \/ Level(m) = Level(k) + 1
    BY <1>1, <1>9, LevelSteps, Zenon
  <2>2. k \in Ends => Level(m) = Level(k) - 1
    BY <1>1, <1>9, LevelSteps, Zenon
  <2>3. QED
    BY <1>6, <1>12, <2>1, <2>2
<1>14. Level(k) = Level(n) + 1
  BY <1>6, <1>12, <1>13
<1> DEFINE S == {j \in Ends : j > n /\ Level(j) = Level(n) + 1}
<1>15. ASSUME NEW y \in S PROVE y \in Int /\ k <= y
  <2>1. y \in Ends /\ y > n /\ Level(y) = Level(n) + 1
    BY <1>15, Zenon
  <2>2. y \in Nat /\ y < L /\ y \in 1 .. L
    BY <1>1, <2>1, Places, Zenon
  <2>3. Level(y + 1) = Level(y) - 1
    BY <1>1, <2>1, <2>2, LevelSteps, Zenon
  <2>4. y + 1 \in n + 1 .. L /\ Level(y + 1) <= Level(n)
    BY <1>1, <1>12, <2>1, <2>2, <2>3
  <2>5. m <= y + 1
    BY <1>5, <2>4, Zenon DEF Low
  <2>6. QED
    BY <1>6, <1>9, <2>2, <2>5
<1>16. k \in S
  <2>1. k > n
    BY <1>1, <1>9
  <2>2. QED
    BY <1>13, <1>14, <2>1, Zenon
<1>17. Close(n) = k
  <2>1. Close(n) = Min(S)
    BY Zenon DEF Close
  <2> HIDE DEF S
  <2>2. QED
    BY <1>15, <1>16, <2>1, MinIs, Zenon
<1>18. \A j \in Ends : (n < j /\ Level(j) = Level(n) + 1) => k <= j
  <2> SUFFICES ASSUME NEW j \in Ends, n < j, Level(j) = Level(n) + 1 PROVE k <= j
    BY Zenon
  <2>1. j > n
    BY <1>1, Places
  <2>2. QED
    BY <1>15, <2>1, Zenon
<1>19. QED
  BY <1>9, <1>10, <1>13, <1>14, <1>17, <1>18, Zenon

-----------------------------------------------------------------------------
\* The loops that look for a node.

LEMMA SeekFinds ==
    ASSUME Blob, CtxInit(header), NEW i \in Nat \ {0}, NEW over, NEW s \in i .. Len(blob),
           blob[s].tok \notin over,
           \A j \in i .. s - 1 : blob[j].tok \in over /\ blob[j].whole
    PROVE  Seek(i, over) = IF s \in Nodes THEN s ELSE Err
<1> DEFINE stops == {j \in i .. Len(blob) : \/ blob[j].tok \notin over
                                            \/ blob[j].tok = "PROP" /\ ~blob[j].whole}
<1>1. Len(blob) \in Nat /\ DOMAIN blob = 1 .. Len(blob)
  BY Zenon DEF Blob
<1>2. s \in stops
  BY Zenon
<1>3. ASSUME NEW y \in stops PROVE y \in Int /\ s <= y
  <2>1. y \in i .. Len(blob) /\ y \notin i .. s - 1
    BY <1>3, Zenon
  <2>2. QED
    BY <1>1, <2>1
<1>4. Min(stops) = s
  <2> HIDE DEF stops
  <2>1. QED
    BY <1>2, <1>3, MinIs, Zenon
<1>5. IsNode(s) <=> s \in Nodes
  <2>1. s \in DOMAIN blob
    BY <1>1
  <2>2. QED
    BY <2>1, Zenon DEF IsNode, Inside, Nodes
<1>6. QED
  BY <1>2, <1>4, <1>5, Zenon DEF Seek

LEMMA SeekForward ==
    ASSUME Blob, NEW i \in Nat \ {0}, NEW over, Seek(i, over) # Err
    PROVE  Seek(i, over) \in Nodes /\ i <= Seek(i, over)
<1> DEFINE stops == {j \in i .. Len(blob) : \/ blob[j].tok \notin over
                                            \/ blob[j].tok = "PROP" /\ ~blob[j].whole}
<1>1. stops # {} /\ IsNode(Min(stops)) /\ Seek(i, over) = Min(stops)
  BY Zenon DEF Seek
<1>2. \A y \in stops : y \in Nat /\ i <= y
  BY DEF Blob
<1>3. Min(stops) \in stops
  <2> HIDE DEF stops
  <2>1. QED
    BY <1>1, <1>2, MinLeast, Zenon
<1>4. QED
  BY <1>1, <1>2, <1>3, Zenon DEF IsNode, Inside, Nodes

\* skip_node leaves a node of a well-formed block just behind its end.
LEMMA SkipIs ==
    ASSUME Blob, WellFormed, NEW n \in Nodes
    PROVE  SkipNode(n) = Close(n) + 1
<1> DEFINE c == Close(n)
           Good(i) == Skip[i][Level(i) - Level(n)] = c + 1
           Wrong == {k \in Nat : \E i \in n + 1 .. c : i + k = c /\ ~Good(i)}
<1>1. /\ c \in Ends /\ n < c /\ Level(c) = Level(n) + 1
      /\ \A j \in n + 1 .. c : Level(j) >= Level(n) + 1
  BY CloseIs, Zenon
<1>2. /\ n \in Nat /\ c \in Nat /\ n >= 1 /\ c < Len(blob) /\ Len(blob) \in Nat
      /\ DOMAIN blob = 1 .. Len(blob) /\ CtxInit(header) /\ n \in DOMAIN blob /\ n \notin Ends
  BY <1>1, Places, Zenon
<1>3. ASSUME NEW i \in n .. c
      PROVE  /\ i \in Nat /\ i \in DOMAIN blob /\ Inside(i) /\ blob[i].whole /\ blob[i].tok # "END"
             /\ Level(i) \in Nat
  <2>1. i \in Nat /\ i \in DOMAIN blob /\ i # Len(blob)
    <3>1. \A a, b, l \in Nat : (a >= 1 /\ b < l) =>
             \A x \in a .. b : x \in Nat /\ x \in 1 .. l /\ x # l
      BY SMT
    <3>2. QED
      BY <1>2, <3>1, Zenon
  <2>2. QED
    BY <1>2, <2>1, Levels, Zenon DEF Inside, WellFormed
<1>4. Level(n) \in Nat
  <2>1. n \in n .. c
    BY <1>1, <1>2
  <2>2. QED
    BY <1>3, <2>1, Zenon
<1>5. ASSUME NEW i \in n + 1 .. c, i # c => Good(i + 1) PROVE Good(i)
  <2>0. i \in n .. c
    BY <1>2
  <2>1. /\ i \in Nat /\ i \in DOMAIN blob /\ Inside(i) /\ blob[i].whole
        /\ blob[i].tok \in Tokens /\ blob[i].tok # "END" /\ Level(i) \in Nat
        /\ Level(i) - Level(n) \in Int
    <3>1. /\ i \in Nat /\ i \in DOMAIN blob /\ Inside(i) /\ blob[i].whole
          /\ blob[i].tok # "END" /\ Level(i) \in Nat
      BY <1>3, <2>0, Zenon
    <3>2. Level(i) - Level(n) \in Int
      BY <1>4, <3>1
    <3>3. QED
      BY <3>1, <3>2, Zenon DEF Blob
  <2>2. CASE i = c
    <3>1. blob[i].tok = "END_NODE"
      BY <1>1, <2>2, Zenon DEF Ends
    <3>2. Level(i) - Level(n) - 1 <= 0
      BY <1>1, <1>4, <2>2
    <3>3. QED
      BY <2>1, <2>2, <3>1, <3>2, SkipSteps, Zenon
  <2>3. CASE i # c
    <3>1. Good(i + 1) /\ i + 1 \in n + 1 .. c /\ i + 1 \in n .. c
      BY <1>2, <1>5, <2>3
    <3>2. Level(i + 1) \in Nat /\ Level(i + 1) >= Level(n) + 1
      BY <1>1, <1>3, <3>1, Zenon
    <3>3. CASE blob[i].tok = "BEGIN_NODE"
      <4>1. Level(i + 1) = Level(i) + 1
        BY <2>1, <3>3, LevelSteps, Zenon DEF Nodes
      <4>2. Level(i + 1) - Level(n) = Level(i) - Level(n) + 1
        BY <1>4, <2>1, <4>1
      <4>3. QED
        <5>1. Skip[i][Level(i) - Level(n)] = Skip[i + 1][Level(i) - Level(n) + 1]
          BY <2>1, <3>3, SkipSteps, Zenon
        <5>2. QED
          BY <3>1, <4>2, <5>1, Zenon
    <3>4. CASE blob[i].tok = "END_NODE"
      <4>1. Level(i + 1) = Level(i) - 1
        BY <2>1, <3>4, LevelSteps, Zenon DEF Ends
      <4>2. Level(i + 1) - Level(n) = Level(i) - Level(n) - 1 /\ ~(Level(i) - Level(n) - 1 <= 0)
        BY <1>4, <2>1, <3>2, <4>1
      <4>3. QED
        <5>1. Skip[i][Level(i) - Level(n)] = Skip[i + 1][Level(i) - Level(n) - 1]
          BY <2>1, <3>4, <4>2, SkipSteps, Zenon
        <5>2. QED
          BY <3>1, <4>2, <5>1, Zenon
    <3>5. CASE blob[i].tok \in {"PROP", "NOP"}
      <4>1. Level(i + 1) = Level(i)
        <5>1. i \notin Nodes \cup Ends
          BY <3>5 DEF Nodes, Ends
        <5>2. QED
          BY <2>1, <5>1, LevelSteps, Zenon
      <4>2. QED
        <5>1. Skip[i][Level(i) - Level(n)] = Skip[i + 1][Level(i) - Level(n)]
          BY <2>1, <3>5, SkipSteps, Zenon
        <5>2. QED
          BY <3>1, <4>1, <5>1, Zenon
    <3>6. QED
      BY <2>1, <3>3, <3>4, <3>5, Zenon DEF Tokens
  <2>4. QED
    BY <2>2, <2>3, Zenon
<1> HIDE DEF Good
<1>6. Wrong = {}
  <2> SUFFICES ASSUME Wrong # {} PROVE FALSE
    BY Zenon
  <2>1. \A k \in Wrong : k \in Nat
    BY Zenon
  <2>2. PICK k \in Wrong : \A y \in Wrong : k <= y
    <3> HIDE DEF Wrong
    <3>1. QED
      BY <2>1, LeastExists, Zenon
  <2>3. PICK i \in n + 1 .. c : i + k = c /\ ~Good(i)
    BY <2>2, Zenon
  <2>4. i # c /\ ~Good(i + 1)
    BY <1>5, <2>3, Zenon
  <2>5. k \in Nat
    BY <2>1, Zenon
  <2> HIDE DEF Wrong, c
  <2>6. k - 1 \in Nat /\ i + 1 \in n + 1 .. c /\ i + 1 + (k - 1) = c /\ ~(k <= k - 1)
    BY <1>2, <2>3, <2>4, <2>5
  <2>7. QED
    BY <2>2, <2>4, <2>6, Zenon DEF Wrong
<1>7. Good(n + 1)
  <2>1. n + 1 \in n + 1 .. c /\ c - (n + 1) \in Nat /\ n + 1 + (c - (n + 1)) = c
    BY <1>1, <1>2
  <2>2. QED
    BY <1>6, <2>1, Zenon
<1>8. Skip[n][0] = Skip[n + 1][0 + 1]
  <2>1. n \in n .. c /\ 0 \in Int
    BY <1>1, <1>2
  <2>2. QED
    BY <1>2, <1>3, <2>1, SkipSteps, Zenon DEF Nodes
<1>9. Level(n + 1) - Level(n) = 0 + 1
  <2>1. Level(n + 1) = Level(n) + 1
    BY <1>2, LevelSteps, Zenon
  <2>2. QED
    BY <1>4, <2>1
<1>10. QED
  BY <1>7, <1>8, <1>9, Zenon DEF Good, SkipNode

\* A search from directly inside a node, over properties and NOPs, or over
\* NOPs just behind the end of a node, answers the node's next child.
LEMMA SeekIn ==
    ASSUME Blob, WellFormed, NEW n \in Nodes, NEW i \in n + 1 .. Close(n),
           Level(i) = Level(n) + 1,
           NEW over, over = {"PROP", "NOP"} \/ (over = {"NOP"} /\ i - 1 \in Ends)
    PROVE  LET later == {c \in TreeChildren(n) : i <= c}
           IN  IF later = {} THEN Seek(i, over) = Err
               ELSE Seek(i, over) \in later /\ \A c \in later : Seek(i, over) <= c
<1> DEFINE L == Len(blob)
           e == Close(n)
           stops == {j \in i .. L : blob[j].tok \notin over}
           later == {c \in TreeChildren(n) : i <= c}
<1>1. /\ e \in Ends /\ n < e /\ Level(e) = Level(n) + 1
      /\ \A j \in Ends : (n < j /\ Level(j) = Level(n) + 1) => e <= j
  BY CloseIs, Zenon
<1>2. /\ n \in Nat /\ e \in Nat /\ n >= 1 /\ e < L /\ L \in Nat /\ CtxInit(header)
      /\ DOMAIN blob = 1 .. L
  BY <1>1, Places, Zenon
<1> HIDE DEF e
<1>3. i \in Nat /\ i \in Nat \ {0} /\ n < i /\ i <= e
  <2>1. i \in n + 1 .. e
    BY Zenon DEF e
  <2>2. QED
    BY <1>2, <2>1
<1>4. e \in stops
  <2>1. e \in i .. L
    BY <1>2, <1>3
  <2>2. blob[e].tok = "END_NODE"
    BY <1>1, Zenon DEF Ends
  <2>3. QED
    BY <2>1, <2>2
<1>5. \A y \in stops : y \in Nat
  BY <1>2, <1>3
<1>6. PICK s \in stops : \A y \in stops : s <= y
  <2> HIDE DEF stops
  <2>1. QED
    BY <1>4, <1>5, LeastExists, Zenon
<1>7. s \in Nat /\ s \in i .. L /\ blob[s].tok \notin over /\ s <= e
  BY <1>4, <1>5, <1>6, Zenon
<1>8. ASSUME NEW j \in i .. s - 1
      PROVE  /\ j \in Nat /\ j \in DOMAIN blob /\ blob[j].tok \in over /\ blob[j].whole
             /\ blob[j].tok \in {"PROP", "NOP"}
  <2>1. j \in Nat /\ j \in i .. L /\ j \in 1 .. L /\ ~(s <= j)
    BY <1>2, <1>3, <1>7
  <2>2. blob[j].tok \in over
    BY <1>6, <2>1, Zenon
  <2>3. QED
    BY <1>2, <2>1, <2>2, Zenon DEF WellFormed
<1>9. Level(s) = Level(n) + 1
  <2> DEFINE Off == {j \in i .. s : Level(j) # Level(n) + 1}
  <2> SUFFICES ASSUME Off # {} PROVE FALSE
    <3>1. s \in i .. s
      BY <1>3, <1>7
    <3>2. QED
      BY <3>1, Zenon
  <2>1. \A y \in Off : y \in Nat
    BY <1>3, <1>7
  <2>2. PICK j \in Off : \A y \in Off : j <= y
    <3> HIDE DEF Off
    <3>1. QED
      BY <2>1, LeastExists, Zenon
  <2>3. j \in i .. s /\ Level(j) # Level(n) + 1 /\ j # i
    BY <2>2, Zenon
  <2>4. j - 1 \in i .. s /\ j - 1 \in i .. s - 1 /\ j - 1 + 1 = j /\ ~(j <= j - 1)
    BY <1>3, <1>7, <2>3
  <2>5. Level(j - 1) = Level(n) + 1
    BY <2>2, <2>4, Zenon
  <2>6. j - 1 \in DOMAIN blob /\ j - 1 \notin Nodes \cup Ends
    <3>1. j - 1 \in DOMAIN blob /\ blob[j - 1].tok \in {"PROP", "NOP"}
      BY <1>8, <2>4, Zenon
    <3>2. QED
      BY <3>1 DEF Nodes, Ends
  <2>7. Level(j) = Level(j - 1)
    BY <2>4, <2>6, LevelSteps, Zenon
  <2>8. QED
    BY <2>3, <2>5, <2>7, Zenon
<1>10. s \in DOMAIN blob /\ s # L
  <2>1. \A l, c \in Nat, j \in Nat \ {0} :
           \A x \in j .. l : (x <= c /\ c < l) => x \in 1 .. l /\ x # l
    OBVIOUS
  <2>2. QED
    BY <1>2, <1>3, <1>7, <2>1, Zenon
<1>11. blob[s].tok # "PROP"
  <2> SUFFICES ASSUME blob[s].tok = "PROP" PROVE FALSE
    BY Zenon
  <2>1. over = {"NOP"} /\ i - 1 \in Ends
    BY <1>7, Zenon
  <2>2. i - 1 < s
    BY <1>3, <1>7
  <2>3. s \in Props
    BY <1>10, Zenon DEF Props
  <2>4. PICK m \in Nodes : i - 1 < m /\ m < s
    BY <2>1, <2>2, <2>3, Zenon DEF WellFormed
  <2>5. m \in Nat
    BY Places, Zenon
  <2>6. m \in i .. s - 1
    BY <1>3, <1>7, <2>4, <2>5
  <2>7. blob[m].tok \in {"PROP", "NOP"}
    BY <1>8, <2>6, Zenon
  <2>8. QED
    BY <2>7 DEF Nodes
<1>12. s \in Nodes \/ s \in Ends
  <2>1. blob[s].tok \in Tokens /\ blob[s].tok # "END" /\ blob[s].tok # "NOP"
    BY <1>7, <1>10, Zenon DEF Blob, WellFormed
  <2>2. QED
    BY <1>10, <1>11, <2>1, Zenon DEF Tokens, Nodes, Ends
<1>13. ASSUME NEW c \in later PROVE c \in Nat /\ s <= c /\ c < e
  <2>1. c \in Nodes /\ i <= c /\ c < e
    BY <1>13, Zenon DEF TreeChildren, e
  <2>2. c \in Nat
    BY <2>1, Places, Zenon
  <2>3. c \notin i .. s - 1
    <3> SUFFICES ASSUME c \in i .. s - 1 PROVE FALSE
      BY Zenon
    <3>1. blob[c].tok \in {"PROP", "NOP"}
      BY <1>8, Zenon
    <3>2. QED
      BY <2>1, <3>1 DEF Nodes
  <2> HIDE DEF later, stops
  <2>4. QED
    BY <1>3, <1>7, <2>1, <2>2, <2>3
<1>14. Seek(i, over) = IF s \in Nodes THEN s ELSE Err
  BY <1>2, <1>3, <1>7, <1>8, SeekFinds, Zenon
<1>15. CASE s \in Ends
  <2>1. s \notin Nodes
    BY <1>15 DEF Nodes, Ends
  <2>2. e <= s
    <3>1. n < s
      BY <1>2, <1>3, <1>7
    <3>2. QED
      BY <1>1, <1>9, <1>15, <3>1, Zenon
  <2>3. later = {}
    <3> SUFFICES ASSUME NEW c \in later PROVE FALSE
      BY Zenon
    <3>1. c \in Nat /\ s <= c /\ c < e
      BY <1>13, Zenon
    <3> HIDE DEF later, stops
    <3>2. QED
      BY <1>2, <1>7, <2>2, <3>1
  <2>4. QED
    BY <1>14, <2>1, <2>3, Zenon
<1>16. CASE s \in Nodes
  <2>1. s \in later
    <3>1. s # e
      BY <1>1, <1>16 DEF Nodes, Ends
    <3>2. n < s /\ s < e /\ i <= s
      BY <1>2, <1>3, <1>7, <3>1
    <3>3. QED
      BY <1>9, <1>16, <3>2, Zenon DEF TreeChildren, e
  <2>2. QED
    BY <1>13, <1>14, <1>16, <2>1, Zenon
<1>17. QED
  BY <1>12, <1>15, <1>16, Zenon

\* fdt_first_child answers a node's first child.
LEMMA FirstChildIs ==
    ASSUME Blob, WellFormed, NEW n \in Nodes
    PROVE  /\ TreeChildren(n) = {} => FirstChild(n) = Err
           /\ TreeChildren(n) # {} => /\ FirstChild(n) \in TreeChildren(n)
                                      /\ \A c \in TreeChildren(n) : FirstChild(n) <= c
<1> DEFINE later == {c \in TreeChildren(n) : n + 1 <= c}
<1>1. n \in Nat /\ Close(n) \in Nat /\ n < Close(n) /\ n \in DOMAIN blob /\ CtxInit(header)
  BY CloseIs, Places, Zenon
<1>2. AfterName(n) = n + 1
  BY <1>1, Zenon DEF AfterName, IsNode, Inside, Nodes, WellFormed
<1>3. n + 1 \in n + 1 .. Close(n) /\ n + 1 # Err
  BY <1>1 DEF Err
<1>4. Level(n + 1) = Level(n) + 1
  BY <1>1, LevelSteps, Zenon
<1>5. later = TreeChildren(n)
  <2>1. ASSUME NEW c \in TreeChildren(n) PROVE n + 1 <= c
    <3>1. c \in Nodes /\ n < c
      BY <2>1, Zenon DEF TreeChildren
    <3>2. c \in Nat
      BY <3>1, Places, Zenon
    <3>3. QED
      BY <1>1, <3>1, <3>2
  <2>2. QED
    BY <2>1, Zenon
<1>6. FirstChild(n) = Seek(n + 1, {"PROP", "NOP"})
  BY <1>2, <1>3, Zenon DEF FirstChild
<1>7. IF later = {} THEN Seek(n + 1, {"PROP", "NOP"}) = Err
      ELSE /\ Seek(n + 1, {"PROP", "NOP"}) \in later
           /\ \A c \in later : Seek(n + 1, {"PROP", "NOP"}) <= c
  BY <1>3, <1>4, SeekIn, Zenon
<1>8. QED
  BY <1>5, <1>6, <1>7, Zenon

-----------------------------------------------------------------------------
\* The loop of fdt_parent_offset.

\* One round of the loop.
LEMMA WalkIs ==
    ASSUME Blob, NEW n, NEW i \in Nat, NEW open \in Seq(Nat)
    PROVE  Walk(n)[i][open] =
              IF ~Inside(i) THEN Err
              ELSE CASE blob[i].tok = "BEGIN_NODE" /\ blob[i].whole ->
                          IF i # n THEN Walk(n)[i + 1][Append(open, i)]
                          ELSE IF open = <<>> \/ Len(open) - 1 >= MaxDepth THEN Err
                          ELSE Top(open)
                     [] blob[i].tok = "END_NODE" /\ Len(open) > 1 -> Walk(n)[i + 1][Pop(open)]
                     [] blob[i].tok = "PROP" /\ blob[i].whole -> Walk(n)[i + 1][open]
                     [] blob[i].tok = "NOP" -> Walk(n)[i + 1][open]
                     [] OTHER -> Err
<1> DEFINE D == Seq(Nat)
      Body(f, j, o) ==
        IF ~Inside(j) THEN Err
        ELSE CASE blob[j].tok = "BEGIN_NODE" /\ blob[j].whole ->
                    IF j # n THEN f[j + 1][Append(o, j)]
                    ELSE IF o = <<>> \/ Len(o) - 1 >= MaxDepth THEN Err
                    ELSE Top(o)
               [] blob[j].tok = "END_NODE" /\ Len(o) > 1 -> f[j + 1][Pop(o)]
               [] blob[j].tok = "PROP" /\ blob[j].whole -> f[j + 1][o]
               [] blob[j].tok = "NOP" -> f[j + 1][o]
               [] OTHER -> Err
      Goes(j, o) ==
        /\ Inside(j)
        /\ \/ blob[j].tok = "BEGIN_NODE" /\ blob[j].whole /\ j # n
           \/ blob[j].tok = "PROP" /\ blob[j].whole
           \/ blob[j].tok = "END_NODE" /\ Len(o) > 1
           \/ blob[j].tok = "NOP"
      Ends2(j, o) ==
        IF /\ Inside(j) /\ blob[j].tok = "BEGIN_NODE" /\ blob[j].whole
           /\ ~(o = <<>> \/ Len(o) - 1 >= MaxDepth)
        THEN Top(o) ELSE Err
      Carries(j, o) ==
        IF blob[j].tok = "BEGIN_NODE" THEN Append(o, j)
        ELSE IF blob[j].tok = "END_NODE" THEN Pop(o) ELSE o
      stop == {x \in Nat \X D : ~Goes(x[1], x[2])}
      val == [x \in Nat \X D |-> Ends2(x[1], x[2])]
      nxt == [x \in Nat \X D |-> Carries(x[1], x[2])]
<1>1. ASSUME NEW j \in Nat, NEW o \in D
      PROVE  /\ <<j, o>> \in stop <=> ~Goes(j, o)
             /\ val[<<j, o>>] = Ends2(j, o)
             /\ nxt[<<j, o>>] = Carries(j, o)
  <2> HIDE DEF Goes, Ends2, Carries, D
  <2>1. QED
    BY SMT
<1>2. ASSUME NEW f, NEW j \in Nat, NEW o \in D
      PROVE  Body(f, j, o) = IF <<j, o>> \in stop THEN val[<<j, o>>] ELSE f[j + 1][nxt[<<j, o>>]]
  <2> HIDE DEF stop, val, nxt
  <2>1. CASE ~Inside(j)
    BY <1>1, <2>1, Zenon
  <2>2. CASE Inside(j)
    <3>1. blob[j].tok \in Tokens /\ blob[j].whole \in BOOLEAN
      BY <2>2, Zenon DEF Inside, Blob
    <3>2. CASE blob[j].tok = "BEGIN_NODE"
      BY <1>1, <2>2, <3>2
    <3>3. CASE blob[j].tok = "END_NODE"
      BY <1>1, <2>2, <3>3
    <3>4. CASE blob[j].tok = "PROP"
      BY <1>1, <2>2, <3>4
    <3>5. CASE blob[j].tok \in {"NOP", "END"}
      BY <1>1, <2>2, <3>5
    <3>6. QED
      BY <3>1, <3>2, <3>3, <3>4, <3>5, Zenon DEF Tokens
  <2>3. QED
    BY <2>1, <2>2, Zenon
<1>3. \A j \in Nat : \A o \in D :
         <<j, o>> \notin stop => j <= Len(blob) /\ nxt[<<j, o>>] \in D
  <2> SUFFICES ASSUME NEW j \in Nat, NEW o \in D, <<j, o>> \notin stop
               PROVE  j <= Len(blob) /\ nxt[<<j, o>>] \in D
    BY Zenon
  <2>1. Goes(j, o)
    BY <1>1, Zenon
  <2>2. j <= Len(blob)
    <3>1. j \in DOMAIN blob
      BY <2>1, Zenon DEF Inside
    <3>2. QED
      BY <3>1 DEF Blob
  <2>3. Append(o, j) \in D
    OBVIOUS
  <2>4. blob[j].tok = "END_NODE" => Pop(o) \in D
    <3> SUFFICES ASSUME blob[j].tok = "END_NODE" PROVE Pop(o) \in D
      BY Zenon
    <3>1. Len(o) > 1 /\ Len(o) \in Nat
      BY <2>1
    <3>2. Len(o) > 0
      BY <3>1
    <3>3. QED
      BY <3>2, FrontOf, Zenon
  <2>5. Carries(j, o) \in D
    BY <2>3, <2>4, Zenon
  <2>6. QED
    BY <1>1, <2>2, <2>5, Zenon
<1>4. PICK g : Loop(g, D, stop, val, nxt)
  <2> HIDE DEF stop, val, nxt, D
  <2>1. Len(blob) \in Nat
    BY Zenon DEF Blob
  <2>2. QED
    BY <1>3, <2>1, LoopExists, ZenonT(40)
<1>5. \E f : f = [j \in Nat |-> [o \in D |-> Body(f, j, o)]]
  <2> HIDE DEF stop, val, nxt, Body, D
  <2>1. g = [j \in Nat |-> [o \in D |-> IF <<j, o>> \in stop THEN val[<<j, o>>]
                                        ELSE g[j + 1][nxt[<<j, o>>]]]]
    BY <1>4, Zenon DEF Loop
  <2>2. ASSUME NEW j \in Nat
        PROVE  [o \in D |-> IF <<j, o>> \in stop THEN val[<<j, o>>] ELSE g[j + 1][nxt[<<j, o>>]]]
                  = [o \in D |-> Body(g, j, o)]
    BY <1>2, Zenon
  <2>3. [j \in Nat |-> [o \in D |-> IF <<j, o>> \in stop THEN val[<<j, o>>]
                                    ELSE g[j + 1][nxt[<<j, o>>]]]]
           = [j \in Nat |-> [o \in D |-> Body(g, j, o)]]
    BY <2>2, Zenon
  <2>4. QED
    BY <2>1, <2>3, Zenon
<1>6. Walk(n) = CHOOSE f : f = [j \in Nat |-> [o \in D |-> Body(f, j, o)]]
  BY Zenon DEF Walk
<1>7. Walk(n) = [j \in Nat |-> [o \in D |-> Body(Walk(n), j, o)]]
  <2> HIDE DEF Body, D
  <2>1. QED
    BY <1>5, <1>6, Zenon
<1>8. Walk(n)[i][open] = Body(Walk(n), i, open)
  <2>1. Walk(n)[i] = [o \in D |-> Body(Walk(n), i, o)]
    <3> HIDE DEF Body, D
    <3>1. QED
      BY <1>7, ZenonT(40)
  <2> HIDE DEF Body
  <2>2. QED
    BY <2>1, Zenon
<1>9. QED
  BY <1>8, Zenon

\* What the loop does at an item, by its token.
LEMMA WalkSteps ==
    ASSUME Blob, NEW n, NEW i \in Nat, NEW open \in Seq(Nat), Inside(i), blob[i].whole
    PROVE  /\ blob[i].tok = "BEGIN_NODE" =>
                 Walk(n)[i][open] = IF i # n THEN Walk(n)[i + 1][Append(open, i)]
                                    ELSE IF open = <<>> \/ Len(open) - 1 >= MaxDepth THEN Err
                                    ELSE Top(open)
           /\ blob[i].tok = "END_NODE" /\ Len(open) > 1 =>
                 Walk(n)[i][open] = Walk(n)[i + 1][Pop(open)]
           /\ blob[i].tok \in {"PROP", "NOP"} => Walk(n)[i][open] = Walk(n)[i + 1][open]
<1>9. CASE blob[i].tok = "BEGIN_NODE"
  BY WalkIs, <1>9
<1>10. CASE blob[i].tok = "END_NODE"
  BY WalkIs, <1>10
<1>11. CASE blob[i].tok \in {"PROP", "NOP"}
  BY WalkIs, <1>11
<1>12. CASE blob[i].tok = "END"
  BY <1>12
<1>13. QED
  <2>1. blob[i].tok \in Tokens
    BY Zenon DEF Inside, Blob
  <2>2. QED
    BY <2>1, <1>9, <1>10, <1>11, <1>12, Zenon DEF Tokens

-----------------------------------------------------------------------------
\* Parents and siblings.

\* A child closes before its parent, and lies on the level below it.
LEMMA ChildInside ==
    ASSUME Blob, WellFormed, NEW p \in Nodes, NEW c \in TreeChildren(p)
    PROVE  /\ c \in Nodes /\ p < c /\ Close(c) < Close(p) /\ Level(c) = Level(p) + 1
           /\ Level(Close(c) + 1) = Level(p) + 1
           /\ c \in Nat /\ p \in Nat /\ Close(c) \in Nat /\ Close(p) \in Nat /\ c < Close(c)
           /\ Close(c) \in Ends /\ Level(p) \in Nat
<1>1. c \in Nodes /\ p < c /\ c < Close(p) /\ Level(c) = Level(p) + 1
  BY Zenon DEF TreeChildren
<1>2. /\ Close(c) \in Ends /\ c < Close(c) /\ Level(Close(c)) = Level(c) + 1
      /\ \A j \in c + 1 .. Close(c) : Level(j) >= Level(c) + 1
      /\ Close(p) \in Ends /\ Level(Close(p)) = Level(p) + 1
  BY <1>1, CloseIs, Zenon
<1>3. /\ p \in Nat /\ c \in Nat /\ Close(c) \in Nat /\ Close(p) \in Nat
      /\ p \in DOMAIN blob /\ Close(c) \in DOMAIN blob
  BY <1>1, <1>2, Places, Zenon
<1>4. Level(p) \in Nat
  BY <1>3, Levels, Zenon
<1>5. Close(c) < Close(p)
  <2> SUFFICES ASSUME ~(Close(c) < Close(p)) PROVE FALSE
    BY Zenon
  <2>1. Close(p) \in c + 1 .. Close(c)
    BY <1>1, <1>3
  <2>2. Level(Close(p)) >= Level(c) + 1
    BY <1>2, <2>1, Zenon
  <2>3. QED
    BY <1>1, <1>2, <1>4, <2>2
<1>6. Level(Close(c) + 1) = Level(Close(c)) - 1
  BY <1>2, <1>3, LevelSteps, Zenon
<1>7. Level(Close(c) + 1) = Level(p) + 1
  BY <1>1, <1>2, <1>4, <1>6
<1>8. QED
  BY <1>1, <1>2, <1>3, <1>4, <1>5, <1>7, Zenon

\* At most one node of each level is open at an item.
LEMMA OneOpen ==
    ASSUME Blob, WellFormed, NEW p \in Nodes, NEW q \in Nodes, NEW i \in Nat,
           p < i, i <= Close(p), q < i, i <= Close(q), Level(p) = Level(q)
    PROVE  p = q
<1>1. \A x \in Nodes : x \in Nat /\ Close(x) \in Nat /\ Level(x) \in Nat
  BY CloseIs, Places, Levels, Zenon
<1>2. ASSUME NEW x \in Nodes, NEW y \in Nodes, i <= Close(x), y < i, Level(x) = Level(y)
      PROVE  ~(x < y)
  <2> SUFFICES ASSUME x < y PROVE FALSE
    BY Zenon
  <2>1. x \in Nat /\ y \in Nat /\ Close(x) \in Nat /\ Level(x) \in Nat
    BY <1>1, Zenon
  <2>2. y \in x + 1 .. Close(x)
    BY <1>2, <2>1
  <2>3. Level(y) >= Level(x) + 1
    BY <2>2, CloseIs, Zenon
  <2>4. QED
    BY <1>2, <2>1, <2>3
<1>3. ~(p < q) /\ ~(q < p)
  BY <1>2, Zenon
<1>4. QED
  BY <1>1, <1>3

\* The stack of nodes that are open at item i, outermost first.
IsOpen(open, i) ==
    /\ open \in Seq(Nat) /\ Len(open) = Level(i)
    /\ \A k \in 1 .. Len(open) :
          /\ open[k] \in Nodes /\ open[k] < i /\ i <= Close(open[k])
          /\ Level(open[k]) = k - 1

\* An item that closes no node at level d or above leaves those nodes open.
LEMMA StaysOpen ==
    ASSUME Blob, WellFormed, NEW i \in DOMAIN blob, NEW n \in Nodes, n < i, i <= Close(n),
           i \in Ends => Level(i) # Level(n) + 1
    PROVE  n < i + 1 /\ i + 1 <= Close(n)
<1>1. n \in Nat /\ Close(n) \in Nat /\ i \in Nat
  BY CloseIs, Places, LevelSteps, Zenon
<1>2. i # Close(n)
  BY CloseIs, Zenon
<1>3. QED
  BY <1>1, <1>2

\* The stack is kept by the steps of the loop.
LEMMA OpenSteps ==
    ASSUME Blob, WellFormed, NEW i \in DOMAIN blob, i + 1 < Len(blob),
           NEW open, IsOpen(open, i)
    PROVE  /\ i \in Nodes => IsOpen(Append(open, i), i + 1)
           /\ i \in Ends => Len(open) > 1 /\ IsOpen(Pop(open), i + 1)
           /\ i \notin Nodes \cup Ends => IsOpen(open, i + 1)
<1>1. /\ open \in Seq(Nat) /\ Len(open) = Level(i)
      /\ \A k \in 1 .. Len(open) :
            /\ open[k] \in Nodes /\ open[k] < i /\ i <= Close(open[k])
            /\ Level(open[k]) = k - 1
  BY Zenon DEF IsOpen
<1>2. i \in Nat /\ Len(open) \in Nat /\ Level(i) \in Nat /\ i >= 1
  <2>1. i \in 1 .. Len(blob) /\ Len(blob) \in Nat /\ Level(i) \in Nat
    BY Levels, Places, Zenon
  <2>2. QED
    BY <1>1, <2>1
<1>3. CASE i \in Nodes
  <2> DEFINE o == Append(open, i)
  <2>1. /\ o \in Seq(Nat) /\ Len(o) = Len(open) + 1 /\ o[Len(open) + 1] = i
        /\ \A k \in 1 .. Len(open) : o[k] = open[k]
    BY <1>1, <1>2
  <2>2. Level(i + 1) = Level(i) + 1
    BY <1>3, LevelSteps, Zenon
  <2>3. i < i + 1 /\ i + 1 <= Close(i)
    <3>1. Close(i) \in Nat /\ i < Close(i)
      BY <1>3, CloseIs, Places, Zenon
    <3>2. QED
      BY <1>2, <3>1
  <2>4. i \notin Ends
    BY <1>3, Places, Zenon
  <2> HIDE DEF o
  <2>5. ASSUME NEW k \in 1 .. Len(o)
        PROVE  o[k] \in Nodes /\ o[k] < i + 1 /\ i + 1 <= Close(o[k]) /\ Level(o[k]) = k - 1
    <3>1. CASE k = Len(open) + 1
      <4>1. Level(i) = k - 1
        BY <1>1, <1>2, <3>1
      <4>2. QED
        BY <1>3, <2>1, <2>3, <3>1, <4>1, Zenon
    <3>2. CASE k # Len(open) + 1
      <4>1. k \in 1 .. Len(open)
        BY <1>2, <2>1, <3>2
      <4>2. QED
        BY <1>1, <2>1, <2>4, <4>1, StaysOpen, Zenon
    <3>3. QED
      BY <3>1, <3>2, Zenon
  <2>6. IsOpen(o, i + 1)
    BY <1>1, <2>1, <2>2, <2>5, Zenon DEF IsOpen
  <2>7. QED
    BY <1>3, <2>4, <2>6, Zenon DEF o
<1>4. CASE i \in Ends
  <2>1. Level(i + 1) = Level(i) - 1
    BY <1>4, LevelSteps, Zenon
  <2>2. Level(i + 1) \in Nat \ {0}
    <3>1. i + 1 \in DOMAIN blob /\ i + 1 # 1 /\ i + 1 # Len(blob)
      <4>1. DOMAIN blob = 1 .. Len(blob) /\ Len(blob) \in Nat
        BY Places, Zenon
      <4>2. QED
        BY <1>2, <4>1
    <3>2. Level(i + 1) # 0 /\ Level(i + 1) \in Nat
      BY <3>1, Levels, Zenon DEF WellFormed
    <3>3. QED
      BY <3>2
  <2>3. Len(open) > 1 /\ Len(open) > 0 /\ Len(open) - 1 = Level(i + 1)
    BY <1>1, <1>2, <2>1, <2>2
  <2> DEFINE o == Pop(open)
  <2>4. /\ o \in Seq(Nat) /\ Len(o) = Len(open) - 1
        /\ \A k \in 1 .. Len(open) - 1 : o[k] = open[k]
    BY <1>1, <2>3, FrontOf, Zenon
  <2> HIDE DEF o
  <2>5. ASSUME NEW k \in 1 .. Len(o)
        PROVE  o[k] \in Nodes /\ o[k] < i + 1 /\ i + 1 <= Close(o[k]) /\ Level(o[k]) = k - 1
    <3>1. k \in 1 .. Len(open) - 1 /\ k \in 1 .. Len(open) /\ Len(open) # k - 1 + 1
      BY <1>2, <2>4
    <3>2. o[k] = open[k] /\ open[k] \in Nodes /\ open[k] < i /\ i <= Close(open[k]) /\ Level(open[k]) = k - 1
      BY <1>1, <2>4, <3>1, Zenon
    <3>3. Level(i) # Level(open[k]) + 1
      BY <1>1, <3>1, <3>2, Zenon
    <3>4. QED
      BY <3>2, <3>3, StaysOpen, Zenon
  <2>6. IsOpen(o, i + 1)
    BY <2>3, <2>4, <2>5, Zenon DEF IsOpen
  <2>7. i \notin Nodes
    BY <1>4, Places, Zenon
  <2>8. QED
    BY <1>4, <2>3, <2>6, <2>7, Zenon DEF o
<1>5. CASE i \notin Nodes \cup Ends
  <2>1. Level(i + 1) = Level(i) /\ i \notin Ends /\ i \notin Nodes
    BY <1>5, LevelSteps, Zenon
  <2>2. \A k \in 1 .. Len(open) : open[k] < i + 1 /\ i + 1 <= Close(open[k])
    BY <1>1, <2>1, StaysOpen, Zenon
  <2>3. IsOpen(open, i + 1)
    BY <1>1, <2>1, <2>2, Zenon DEF IsOpen
  <2>4. QED
    BY <2>1, <2>3, Zenon
<1>6. QED
  BY <1>3, <1>4, <1>5, Zenon

\* fdt_parent_offset answers the parent of a child, in a tree no deeper than
\* its array.
LEMMA ParentIs ==
    ASSUME Blob, WellFormed, Shallow, NEW p \in Nodes, NEW n \in TreeChildren(p)
    PROVE  ParentOffset(n) = p
<1> DEFINE Good(i) == \A open : IsOpen(open, i) => Walk(n)[i][open] = p
           Wrong == {k \in Nat : \E i \in 1 .. n : i + k = n /\ ~Good(i)}
<1> HIDE DEF Good, Wrong
<1>1. /\ n \in Nodes /\ p < n /\ n \in Nat /\ p \in Nat /\ Level(n) = Level(p) + 1
      /\ Level(p) \in Nat /\ n <= Close(p)
  <2>1. /\ n \in Nodes /\ p < n /\ n \in Nat /\ p \in Nat /\ Level(n) = Level(p) + 1
        /\ Level(p) \in Nat
    BY ChildInside, Zenon
  <2>2. Close(p) \in Nat /\ n < Close(p)
    BY CloseIs, Places, Zenon DEF TreeChildren
  <2>3. QED
    BY <2>1, <2>2
<1>2. Len(blob) \in Nat /\ DOMAIN blob = 1 .. Len(blob) /\ n < Len(blob) /\ CtxInit(header) /\ n >= 1
  BY <1>1, Places, Zenon
<1>3. ASSUME NEW i \in 1 .. n
      PROVE  /\ i \in Nat /\ i \in DOMAIN blob /\ Inside(i) /\ blob[i].whole
             /\ blob[i].tok \in Tokens /\ blob[i].tok # "END"
  <2>0. \A a, m \in Nat : a < m => \A x \in 1 .. a : x \in Nat /\ x \in 1 .. m /\ x # m
    BY SMT
  <2>1. i \in Nat /\ i \in 1 .. Len(blob) /\ i # Len(blob)
    BY <1>1, <1>2, <2>0, Zenon
  <2>2. QED
    BY <1>2, <2>1, Zenon DEF Inside, WellFormed, Blob
<1>4. Good(n)
  <2> SUFFICES ASSUME NEW open, IsOpen(open, n) PROVE Walk(n)[n][open] = p
    BY Zenon DEF Good
  <2>1. open \in Seq(Nat) /\ Len(open) = Level(n)
    BY Zenon DEF IsOpen
  <2>2. /\ Len(open) \in 1 .. Len(open) /\ open # <<>> /\ Len(open) - 1 = Level(p)
    BY <1>1, <2>1
  <2>3. ~(Len(open) - 1 >= MaxDepth)
    <3>1. Level(p) < MaxDepth /\ MaxDepth \in Nat
      BY FdtAssumption, Zenon DEF Shallow
    <3>2. QED
      BY <1>1, <2>2, <3>1
  <2> DEFINE q == open[Len(open)]
  <2>4. q \in Nodes /\ q < n /\ n <= Close(q) /\ Level(q) = Len(open) - 1
    BY <2>2, Zenon DEF IsOpen
  <2>5. q = p
    BY <1>1, <2>2, <2>4, OneOpen, Zenon
  <2>6. Walk(n)[n][open] = Top(open)
    <3>1. n \in 1 .. n
      BY <1>1, <1>2
    <3>2. blob[n].tok = "BEGIN_NODE"
      BY <1>1, Zenon DEF Nodes
    <3>3. Inside(n) /\ blob[n].whole
      BY <1>3, <3>1, Zenon
    <3>4. Walk(n)[n][open] = IF n # n THEN Walk(n)[n + 1][Append(open, n)]
                             ELSE IF open = <<>> \/ Len(open) - 1 >= MaxDepth THEN Err
                             ELSE Top(open)
      BY <1>1, <2>1, <3>2, <3>3, WalkSteps, ZenonT(40)
    <3>5. QED
      BY <2>2, <2>3, <3>4, Zenon
  <2>7. QED
    BY <2>5, <2>6, Zenon DEF Top
<1>5. ASSUME NEW i \in 1 .. n, i # n, Good(i + 1) PROVE Good(i)
  <2> SUFFICES ASSUME NEW open, IsOpen(open, i) PROVE Walk(n)[i][open] = p
    BY Zenon DEF Good
  <2>1. open \in Seq(Nat)
    BY Zenon DEF IsOpen
  <2>2. i + 1 < Len(blob)
    BY <1>1, <1>2, <1>5
  <2>3. /\ i \in Nodes => IsOpen(Append(open, i), i + 1)
        /\ i \in Ends => Len(open) > 1 /\ IsOpen(Pop(open), i + 1)
        /\ i \notin Nodes \cup Ends => IsOpen(open, i + 1)
    BY <1>3, <2>2, OpenSteps, Zenon
  <2>4. /\ i \in Nat /\ i \in DOMAIN blob /\ Inside(i) /\ blob[i].whole
        /\ blob[i].tok \in Tokens /\ blob[i].tok # "END"
    BY <1>3, Zenon
  <2>5. CASE blob[i].tok = "BEGIN_NODE"
    <3>1. Walk(n)[i][open] = Walk(n)[i + 1][Append(open, i)]
      BY <1>5, <2>1, <2>4, <2>5, WalkSteps, Zenon
    <3>2. QED
      BY <1>5, <2>3, <2>4, <2>5, <3>1, Zenon DEF Nodes, Good
  <2>6. CASE blob[i].tok = "END_NODE"
    <3>1. i \in Ends
      BY <2>4, <2>6, Zenon DEF Ends
    <3>2. Walk(n)[i][open] = Walk(n)[i + 1][Pop(open)]
      BY <2>1, <2>3, <2>4, <2>6, <3>1, WalkSteps, Zenon
    <3>3. QED
      BY <1>5, <2>3, <3>1, <3>2, Zenon DEF Good
  <2>7. CASE blob[i].tok \in {"PROP", "NOP"}
    <3>1. i \notin Nodes \cup Ends
      BY <2>7 DEF Nodes, Ends
    <3>2. Walk(n)[i][open] = Walk(n)[i + 1][open]
      BY <2>1, <2>4, <2>7, WalkSteps, Zenon
    <3>3. QED
      BY <1>5, <2>3, <3>1, <3>2, Zenon DEF Good
  <2>8. QED
    BY <2>4, <2>5, <2>6, <2>7, Zenon DEF Tokens
<1>6. Wrong = {}
  <2> SUFFICES ASSUME Wrong # {} PROVE FALSE
    BY Zenon
  <2>1. \A k \in Wrong : k \in Nat
    BY Zenon DEF Wrong
  <2>2. PICK k \in Wrong : \A y \in Wrong : k <= y
    BY <2>1, LeastExists, Zenon
  <2>3. PICK i \in 1 .. n : i + k = n /\ ~Good(i)
    BY <2>2, Zenon DEF Wrong
  <2>4. i # n /\ ~Good(i + 1)
    BY <1>4, <1>5, <2>3, Zenon
  <2>5. k \in Nat
    BY <2>1, Zenon
  <2>6. k - 1 \in Nat /\ i + 1 \in 1 .. n /\ i + 1 + (k - 1) = n /\ ~(k <= k - 1)
    BY <1>1, <2>3, <2>4, <2>5
  <2>7. QED
    BY <2>2, <2>4, <2>6, Zenon DEF Wrong
<1>7. Good(1)
  <2>1. 1 \in 1 .. n /\ n - 1 \in Nat /\ 1 + (n - 1) = n
    BY <1>1, <1>2
  <2>2. QED
    BY <1>6, <2>1, Zenon DEF Wrong
<1>8. IsOpen(<<>>, 1)
  <2>1. Level(1) = 0
    <3>1. 1 \in DOMAIN blob
      BY <1>1, <1>2
    <3>2. QED
      BY <3>1, Zenon DEF WellFormed
  <2>2. <<>> \in Seq(Nat) /\ Len(<<>>) = 0 /\ 1 .. 0 = {}
    OBVIOUS
  <2>3. QED
    BY <2>1, <2>2 DEF IsOpen
<1>9. QED
  BY <1>7, <1>8, Zenon DEF Good, ParentOffset

\* fdt_next_sibling answers the next child of the same parent.
LEMMA NextSiblingIs ==
    ASSUME Blob, WellFormed, Shallow, NEW p \in Nodes, NEW n \in TreeChildren(p)
    PROVE  LET later == {c \in TreeChildren(p) : n < c}
           IN  IF later = {} THEN NextSibling(p, n) = Err
               ELSE NextSibling(p, n) \in later /\ \A c \in later : NextSibling(p, n) <= c
<1> DEFINE i == Close(n) + 1
           later == {c \in TreeChildren(p) : n < c}
           behind == {c \in TreeChildren(p) : i <= c}
<1>1. /\ n \in Nodes /\ p < n /\ Close(n) < Close(p) /\ Level(n) = Level(p) + 1
      /\ Level(i) = Level(p) + 1 /\ n < Close(n)
      /\ n \in Nat /\ p \in Nat /\ Close(n) \in Nat /\ Close(p) \in Nat /\ Close(n) \in Ends
      /\ Level(p) \in Nat
  BY ChildInside, Zenon
<1>2. ParentOffset(n) = p /\ SkipNode(n) = i
  BY <1>1, ParentIs, SkipIs, Zenon
<1>3. i # Err /\ i \in p + 1 .. Close(p) /\ i - 1 = Close(n)
  BY <1>1 DEF Err
<1>4. NextSibling(p, n) = Seek(i, {"NOP"})
  BY <1>2, <1>3, Zenon DEF NextSibling
<1>5. ASSUME NEW c \in TreeChildren(p) PROVE n < c <=> i <= c
  <2>1. c \in Nat /\ c \in Nodes /\ Level(c) = Level(p) + 1
    BY ChildInside, Zenon
  <2>2. c \notin n + 1 .. Close(n)
    <3> SUFFICES ASSUME c \in n + 1 .. Close(n) PROVE FALSE
      BY Zenon
    <3>1. Level(c) >= Level(n) + 1
      BY <1>1, CloseIs, Zenon
    <3>2. QED
      BY <1>1, <2>1, <3>1
  <2>3. QED
    BY <1>1, <2>1, <2>2
<1>6. behind = later
  BY <1>5, Zenon
<1>7. IF behind = {} THEN Seek(i, {"NOP"}) = Err
      ELSE Seek(i, {"NOP"}) \in behind /\ \A c \in behind : Seek(i, {"NOP"}) <= c
  <2> HIDE DEF i
  <2>1. i - 1 \in Ends
    BY <1>1, <1>3, Zenon
  <2>2. QED
    BY <1>1, <1>3, <2>1, SeekIn, Zenon
<1>8. QED
  BY <1>4, <1>6, <1>7, Zenon

-----------------------------------------------------------------------------
\* Calls of fdt_next_child, and the order of what they return.

\* On any blob fdt_next_child answers a node behind the cursor, or 0.
LEMMA NextForward ==
    ASSUME Blob, NEW p \in Nodes, NEW at \in Nat, NextChild(p, at) # 0
    PROVE  NextChild(p, at) \in Nodes /\ NextChild(p, at) \in Nat /\ at < NextChild(p, at)
<1>0. \A n \in Nodes : n \in Nat
  BY DEF Nodes, Blob
<1>1. CASE at = 0
  <2>1. FirstChild(p) # Err /\ NextChild(p, at) = FirstChild(p)
    BY <1>1, Zenon DEF NextChild
  <2>2. AfterName(p) = p + 1 /\ FirstChild(p) = Seek(p + 1, {"PROP", "NOP"})
    BY <2>1, Zenon DEF FirstChild, AfterName
  <2>3. p + 1 \in Nat \ {0} /\ p \in Nat
    BY <1>0
  <2>4. FirstChild(p) \in Nodes /\ p + 1 <= FirstChild(p)
    BY <2>1, <2>2, <2>3, SeekForward, Zenon
  <2>5. FirstChild(p) \in Nat
    BY <1>0, <2>4, Zenon
  <2>6. at < FirstChild(p)
    BY <1>1, <2>3, <2>4, <2>5
  <2>7. QED
    BY <2>1, <2>4, <2>5, <2>6, Zenon
<1>2. CASE at # 0
  <2>1. NextSibling(p, at) # Err /\ NextChild(p, at) = NextSibling(p, at)
    BY <1>2, Zenon DEF NextChild
  <2>2. SkipNode(at) # Err /\ NextSibling(p, at) = Seek(SkipNode(at), {"NOP"})
    BY <2>1, Zenon DEF NextSibling
  <2>3. SkipNode(at) \in at + 1 .. Len(blob) + 1 /\ Len(blob) \in Nat
    BY <2>2, SkipForward, Zenon DEF Blob
  <2>4. SkipNode(at) \in Nat \ {0} /\ at < SkipNode(at)
    BY <2>3
  <2>5. NextSibling(p, at) \in Nodes /\ SkipNode(at) <= NextSibling(p, at)
    BY <2>1, <2>2, <2>4, SeekForward, Zenon
  <2>6. NextSibling(p, at) \in Nat
    BY <1>0, <2>5, Zenon
  <2>7. at < NextSibling(p, at)
    BY <2>4, <2>5, <2>6
  <2>8. QED
    BY <2>1, <2>5, <2>6, <2>7, Zenon
<1>3. QED
  BY <1>1, <1>2, Zenon

\* In a well-formed tree it answers the next child, as long as there is one.
LEMMA NextChildIs ==
    ASSUME Blob, WellFormed, Shallow, NEW p \in Nodes, NEW at,
           at = 0 \/ at \in TreeChildren(p)
    PROVE  LET later == {c \in TreeChildren(p) : at < c}
           IN  IF later = {} THEN NextChild(p, at) = 0
               ELSE NextChild(p, at) \in later /\ \A c \in later : NextChild(p, at) <= c
<1> DEFINE later == {c \in TreeChildren(p) : at < c}
<1>1. \A c \in TreeChildren(p) : c \in Nat /\ 0 < c /\ c # Err /\ c # 0
  <2>1. ASSUME NEW c \in TreeChildren(p) PROVE c \in Nat /\ c >= 1
    BY Places, Zenon DEF TreeChildren
  <2>2. QED
    BY <2>1 DEF Err
<1>2. CASE at = 0
  <2>1. later = TreeChildren(p)
    BY <1>1, <1>2, Zenon
  <2>2. NextChild(p, at) = IF FirstChild(p) = Err THEN 0 ELSE FirstChild(p)
    BY <1>2, Zenon DEF NextChild
  <2>3. CASE TreeChildren(p) = {}
    BY <2>1, <2>2, <2>3, FirstChildIs, Zenon
  <2>4. CASE TreeChildren(p) # {}
    <3>1. FirstChild(p) \in TreeChildren(p) /\ \A c \in TreeChildren(p) : FirstChild(p) <= c
      BY <2>4, FirstChildIs, Zenon
    <3>2. QED
      BY <1>1, <2>1, <2>2, <2>4, <3>1, Zenon
  <2>5. QED
    BY <2>3, <2>4, Zenon
<1>3. CASE at \in TreeChildren(p)
  <2>1. NextChild(p, at) = IF NextSibling(p, at) = Err THEN 0 ELSE NextSibling(p, at)
    BY <1>1, <1>3, Zenon DEF NextChild
  <2>2. IF later = {} THEN NextSibling(p, at) = Err
        ELSE NextSibling(p, at) \in later /\ \A c \in later : NextSibling(p, at) <= c
    BY <1>3, NextSiblingIs, Zenon
  <2>3. QED
    BY <1>1, <2>1, <2>2, Zenon
<1>4. QED
  BY <1>2, <1>3, Zenon

LEMMA NoneSeen ==
    /\ <<>> \in Seq(Nat) /\ Range(<<>>) = {}
    /\ \A i, j \in 1 .. Len(<<>>) : i < j => <<>>[i] < <<>>[j]
<1>1. <<>> \in Seq(Nat) /\ DOMAIN <<>> = {} /\ 1 .. Len(<<>>) = {}
  OBVIOUS
<1>2. QED
  BY <1>1, Zenon DEF Range

-----------------------------------------------------------------------------
\* Properties, and the way down to a node.

\* Over items that open and close nothing the level stays what it is.
LEMMA LevelKept ==
    ASSUME Blob, NEW i \in Nat \ {0}, NEW s \in i .. Len(blob),
           \A j \in i .. s - 1 : j \notin Nodes \cup Ends
    PROVE  Level(s) = Level(i)
<1> DEFINE Off == {j \in i .. s : Level(j) # Level(i)}
<1>0. Len(blob) \in Nat /\ DOMAIN blob = 1 .. Len(blob) /\ s \in Nat
  BY DEF Blob
<1>1. \A a, b, m \in Nat : a # 0 =>
         \A x \in a .. b : x \in Nat /\ (x # a => /\ x - 1 \in a .. b /\ x - 1 \in a .. b - 1
                                                  /\ x - 1 + 1 = x /\ ~(x <= x - 1)
                                                  /\ (b <= m => x - 1 \in 1 .. m))
  BY SMT
<1>2. s \in i .. s /\ s <= Len(blob) /\ i # 0 /\ i \in Nat
  BY <1>0
<1> SUFFICES ASSUME Off # {} PROVE FALSE
  BY <1>2, Zenon
<1>3. \A y \in Off : y \in Nat
  BY <1>0, <1>1, <1>2, Zenon
<1>4. PICK j \in Off : \A y \in Off : j <= y
  <2> HIDE DEF Off
  <2>1. QED
    BY <1>3, LeastExists, Zenon
<1>5. j \in i .. s /\ Level(j) # Level(i) /\ j # i
  BY <1>4, Zenon
<1>6. /\ j - 1 \in i .. s /\ j - 1 \in i .. s - 1 /\ j - 1 + 1 = j /\ ~(j <= j - 1)
      /\ j - 1 \in DOMAIN blob
  BY <1>0, <1>1, <1>2, <1>5, Zenon
<1>7. Level(j - 1) = Level(i)
  BY <1>4, <1>6, Zenon
<1>8. Level(j) = Level(j - 1)
  BY <1>6, LevelSteps, Zenon
<1>9. QED
  BY <1>5, <1>7, <1>8, Zenon

\* From a place directly inside node n on, the first node before n closes is
\* a child of n.
LEMMA ChildAfter ==
    ASSUME Blob, WellFormed, NEW n \in Nodes, NEW i \in n + 1 .. Close(n),
           Level(i) = Level(n) + 1, NEW m \in Nodes, i <= m, m < Close(n)
    PROVE  \E c \in TreeChildren(n) : i <= c /\ c <= m
<1> DEFINE ahead == {j \in Nodes : i <= j}
<1>1. /\ n \in Nat /\ Close(n) \in Nat /\ n >= 1 /\ m \in Nat /\ Level(n) \in Nat
      /\ Close(n) < Len(blob) /\ Len(blob) \in Nat /\ DOMAIN blob = 1 .. Len(blob)
  BY CloseIs, Places, Levels, Zenon
<1>2. i \in Nat /\ n < i
  BY <1>1
<1>3. PICK c \in ahead : \A y \in ahead : c <= y
  <2>1. m \in ahead /\ \A y \in ahead : y \in Nat
    BY Places, Zenon
  <2> HIDE DEF ahead
  <2>2. QED
    BY <2>1, LeastExists, Zenon
<1>4. c \in Nodes /\ i <= c /\ c <= m /\ c \in Nat
  BY <1>3, Places, Zenon
<1> DEFINE high == {j \in i .. c : Level(j) > Level(n) + 1}
<1>5. high = {}
  <2> SUFFICES ASSUME high # {} PROVE FALSE
    BY Zenon
  <2>1. \A y \in high : y \in Nat
    BY <1>2, <1>4
  <2>2. PICK j \in high : \A y \in high : j <= y
    <3> HIDE DEF high
    <3>1. QED
      BY <2>1, LeastExists, Zenon
  <2>3. j \in i .. c /\ Level(j) > Level(n) + 1
    BY <2>2, Zenon
  <2>4. j # i
    BY <1>1, <2>3
  <2> HIDE DEF high, ahead
  <2>5. /\ j - 1 \in i .. c /\ j - 1 + 1 = j /\ ~(j <= j - 1) /\ j - 1 \in DOMAIN blob
        /\ i <= j - 1 /\ ~(c <= j - 1)
    BY <1>1, <1>2, <1>4, <2>3, <2>4
  <2>6. ~(Level(j - 1) > Level(n) + 1)
    BY <2>2, <2>5, Zenon DEF high
  <2>7. j - 1 \notin Nodes
    BY <1>3, <2>5, Zenon DEF ahead
  <2>8. Level(j - 1) \in Nat /\ (Level(j) = Level(j - 1) - 1 \/ Level(j) = Level(j - 1))
    BY <2>5, <2>7, Levels, LevelSteps, Zenon
  <2>9. QED
    BY <1>1, <2>3, <2>6, <2>8
<1>6. Level(c) = Level(n) + 1
  <2>1. c \in n + 1 .. Close(n) /\ c \in i .. c
    BY <1>1, <1>2, <1>4
  <2>2. Level(c) >= Level(n) + 1 /\ ~(Level(c) > Level(n) + 1)
    BY <1>5, <2>1, CloseIs, Zenon
  <2>3. Level(c) \in Nat
    BY <1>4, Places, Levels, Zenon
  <2>4. QED
    BY <1>1, <2>2, <2>3
<1>7. n < c /\ c < Close(n)
  BY <1>1, <1>2, <1>4
<1>8. c \in TreeChildren(n)
  BY <1>4, <1>6, <1>7, Zenon DEF TreeChildren
<1>9. QED
  BY <1>4, <1>8, Zenon

\* No property of a node lies behind a node opened inside it.
LEMMA PropsFirst ==
    ASSUME Blob, WellFormed, NEW n \in Nodes, NEW p \in TreeProps(n), NEW c \in Nodes, n < c
    PROVE  p < c
<1>1. p \in Props /\ n < p /\ p < Close(n) /\ Level(p) = Level(n) + 1 /\ p \in DOMAIN blob
  BY Zenon DEF TreeProps, Props
<1>2. /\ c \in Nat /\ n \in Nat /\ Close(c) \in Nat /\ Close(n) \in Nat /\ c < Close(c)
      /\ Close(c) \in Ends /\ Level(n) \in Nat /\ Level(c) \in Nat
  BY Places, CloseIs, Levels, Zenon
<1>3. p \in Nat
  BY <1>1, LevelSteps, Zenon
<1> SUFFICES ASSUME ~(p < c) PROVE FALSE
  BY Zenon
<1>4. p # c /\ p \notin Ends /\ p \notin Nodes
  BY <1>1, <1>2 DEF Props, Ends, Nodes
<1>5. Close(c) < p
  <2> SUFFICES ASSUME ~(Close(c) < p) PROVE FALSE
    BY Zenon
  <2>1. p \in c + 1 .. Close(c)
    BY <1>2, <1>3, <1>4
  <2>2. Level(p) >= Level(c) + 1
    BY <1>2, <2>1, CloseIs, Zenon
  <2>3. c \in n + 1 .. Close(n)
    BY <1>1, <1>2, <1>3, <1>4
  <2>4. Level(c) >= Level(n) + 1
    BY <2>3, CloseIs, Zenon
  <2>5. QED
    BY <1>1, <1>2, <2>2, <2>4
<1> DEFINE back == {k \in Nat : \E e \in Ends : n < e /\ e + k = p}
<1>6. p - Close(c) \in back
  <2>1. p - Close(c) \in Nat /\ Close(c) + (p - Close(c)) = p /\ n < Close(c)
    BY <1>2, <1>3, <1>5
  <2>2. QED
    BY <1>2, <2>1, Zenon
<1>7. PICK k \in back : \A y \in back : k <= y
  <2>1. \A y \in back : y \in Nat
    BY Zenon
  <2> HIDE DEF back
  <2>2. QED
    BY <1>6, <2>1, LeastExists, Zenon
<1>8. PICK e \in Ends : n < e /\ e + k = p
  BY <1>7, Zenon
<1>9. k \in Nat /\ e \in Nat
  BY <1>7, <1>8, Places, Zenon
<1>10. e < p
  <2>1. e # p
    BY <1>4, <1>8, Zenon
  <2>2. QED
    BY <1>3, <1>8, <1>9, <2>1
<1>11. PICK m \in Nodes : e < m /\ m < p
  BY <1>1, <1>8, <1>10, Zenon DEF WellFormed
<1>12. m \in Nat /\ Close(m) \in Nat /\ Close(m) \in Ends /\ m < Close(m) /\ Level(m) \in Nat
  BY Places, CloseIs, Levels, Zenon
<1>13. ~(Close(m) < p)
  <2> SUFFICES ASSUME Close(m) < p PROVE FALSE
    BY Zenon
  <2> HIDE DEF back
  <2>1. /\ p - Close(m) \in Nat /\ Close(m) + (p - Close(m)) = p /\ n < Close(m)
        /\ ~(k <= p - Close(m))
    BY <1>2, <1>3, <1>8, <1>9, <1>11, <1>12
  <2>2. p - Close(m) \in back
    BY <1>12, <2>1, Zenon DEF back
  <2>3. QED
    BY <1>7, <2>1, <2>2, Zenon
<1>14. Level(p) >= Level(m) + 1
  <2>1. p \in m + 1 .. Close(m)
    BY <1>3, <1>11, <1>12, <1>13
  <2>2. QED
    BY <2>1, CloseIs, Zenon
<1>15. Level(m) >= Level(n) + 1
  <2>1. m \in n + 1 .. Close(n)
    BY <1>1, <1>2, <1>3, <1>8, <1>9, <1>11, <1>12
  <2>2. QED
    BY <2>1, CloseIs, Zenon
<1>16. QED
  BY <1>1, <1>2, <1>12, <1>14, <1>15

\* A node has at most one property of a name.
LEMMA OneOfAName ==
    ASSUME Blob, WellFormed, NEW n \in Nodes, NEW p \in TreeProps(n), NEW q \in TreeProps(n),
           blob[p].name = blob[q].name
    PROVE  p = q
<1>1. /\ p \in Props /\ n < p /\ p \in DOMAIN blob
      /\ q \in Props /\ n < q /\ q \in DOMAIN blob
  BY Zenon DEF TreeProps, Props
<1>2. p \in Nat /\ q \in Nat /\ n \in Nat
  BY <1>1, LevelSteps, Places, Zenon
<1>3. ASSUME NEW a \in TreeProps(n), NEW b \in TreeProps(n), n < a, a \in Nat, b \in Nat,
             a \in Props, b \in Props, blob[a].name = blob[b].name, a < b
      PROVE  FALSE
  <2>1. PICK m \in Nodes : a < m /\ m < b
    BY <1>3, Zenon DEF WellFormed
  <2>2. m \in Nat
    BY Places, Zenon
  <2>3. n < m /\ ~(b < m)
    BY <1>2, <1>3, <2>1, <2>2
  <2>4. QED
    BY <2>3, PropsFirst, Zenon
<1>4. ~(p < q) /\ ~(q < p)
  BY <1>1, <1>2, <1>3, Zenon
<1>5. QED
  BY <1>2, <1>4

\* fdt_getprop answers the property of the node that has the name, if there is
\* one.
LEMMA GetPropIs ==
    ASSUME Blob, WellFormed, NEW n \in Nodes, NEW name
    PROVE  /\ \A p \in TreeProps(n) : blob[p].name = name => GetProp(n, name) = p /\ p # Err
           /\ (\A p \in TreeProps(n) : blob[p].name # name) => GetProp(n, name) = Err
<1> DEFINE L == Len(blob)
           e == Close(n)
           stops == {j \in n + 1 .. L :
                        ~ \/ blob[j].tok = "NOP"
                          \/ /\ blob[j].tok = "PROP"
                             /\ blob[j].whole
                             /\ blob[j].name \notin {name, NoString}}
<1>1. /\ e \in Ends /\ n < e /\ Level(e) = Level(n) + 1
      /\ \A j \in Ends : (n < j /\ Level(j) = Level(n) + 1) => e <= j
  BY CloseIs, Zenon
<1>2. /\ n \in Nat /\ e \in Nat /\ n >= 1 /\ e < L /\ L \in Nat /\ CtxInit(header)
      /\ DOMAIN blob = 1 .. L /\ n \in DOMAIN blob
  BY <1>1, Places, Zenon
<1> HIDE DEF e, L
<1>3. /\ e \in n + 1 .. L /\ n + 1 # Err /\ n + 1 \in Nat \ {0}
      /\ \A y \in n + 1 .. L : y \in Nat /\ y \in 1 .. L /\ y # Err
  BY <1>1, <1>2 DEF Err
<1>4. AfterName(n) # Err
  BY <1>2, <1>3, Zenon DEF AfterName, IsNode, Inside, Nodes, WellFormed
<1>5. e \in stops /\ \A y \in stops : y \in Nat
  <2>1. blob[e].tok = "END_NODE"
    BY <1>1, Zenon DEF Ends
  <2>2. QED
    BY <1>3, <2>1, Zenon
<1> DEFINE s == Min(stops)
<1>6. s \in stops /\ \A y \in stops : s <= y
  <2> HIDE DEF stops
  <2>1. QED
    BY <1>5, MinLeast, Zenon
<1>7. GetProp(n, name) =
         IF blob[s].tok = "PROP" /\ blob[s].whole /\ blob[s].name = name THEN s ELSE Err
  <2>1. stops # {}
    BY <1>5, Zenon
  <2>2. QED
    BY <1>4, <2>1, Zenon DEF GetProp, L
<1> HIDE DEF s
<1>8. s \in n + 1 .. L /\ s <= e /\ s \in DOMAIN blob /\ s \in Nat /\ s # Err /\ n < s /\ s # L
  <2>1. s \in n + 1 .. L /\ s <= e /\ s \in DOMAIN blob /\ s \in Nat /\ s # Err
    BY <1>2, <1>3, <1>5, <1>6, Zenon
  <2> HIDE DEF stops
  <2>2. QED
    BY <1>2, <2>1
<1>9. ASSUME NEW j \in n + 1 .. s - 1
      PROVE  /\ j \notin Nodes \cup Ends
             /\ blob[j].tok = "PROP" => blob[j].name # name
  <2>1. j \in n + 1 .. L /\ ~(s <= j)
    <3> HIDE DEF stops
    <3>1. QED
      BY <1>2, <1>8
  <2>2. j \notin stops
    BY <1>6, <2>1, Zenon
  <2>3. blob[j].tok = "NOP" \/ (blob[j].tok = "PROP" /\ blob[j].name # name)
    BY <2>1, <2>2, Zenon
  <2> HIDE DEF stops
  <2>4. QED
    BY <2>3 DEF Nodes, Ends
<1>10. Level(s) = Level(n) + 1
  <2>1. Level(n + 1) = Level(n) + 1
    BY <1>2, LevelSteps, Zenon
  <2>2. Level(s) = Level(n + 1)
    BY <1>3, <1>8, <1>9, LevelKept, Zenon DEF L
  <2>3. QED
    BY <2>1, <2>2, Zenon
<1>11. /\ blob[s].whole /\ blob[s].tok \in Tokens /\ blob[s].tok # "END"
       /\ blob[s].tok = "PROP" => blob[s].name # NoString
  BY <1>8, Zenon DEF WellFormed, Blob, L
<1>12. blob[s].tok # "NOP" /\ ~(blob[s].tok = "PROP" /\ blob[s].whole /\ blob[s].name \notin {name, NoString})
  BY <1>6, Zenon
<1>13. blob[s].tok = "PROP" => blob[s].name = name
  BY <1>11, <1>12, Zenon
<1> HIDE DEF stops
<1>14. ASSUME NEW p \in TreeProps(n), blob[p].name = name PROVE p \in Nat /\ s <= p /\ p < e /\ blob[p].tok = "PROP"
  <2>1. p \in Props /\ n < p /\ p < e /\ p \in DOMAIN blob /\ blob[p].tok = "PROP"
    BY <1>14, Zenon DEF TreeProps, Props, e
  <2>2. p \in Nat
    BY <2>1, LevelSteps, Zenon
  <2>3. p \notin n + 1 .. s - 1
    BY <1>9, <1>14, <2>1, Zenon
  <2>4. QED
    BY <1>2, <1>8, <2>1, <2>2, <2>3
<1>15. CASE blob[s].tok = "PROP"
  <2>1. GetProp(n, name) = s
    BY <1>7, <1>11, <1>13, <1>15, Zenon
  <2>2. s # e
    BY <1>1, <1>15 DEF Ends
  <2>3. s < e
    BY <1>2, <1>8, <2>2
  <2>4. s \in TreeProps(n) /\ blob[s].name = name
    BY <1>8, <1>10, <1>13, <1>15, <2>3, Zenon DEF TreeProps, Props, e
  <2>5. \A p \in TreeProps(n) : blob[p].name = name => p = s
    BY <2>4, OneOfAName, Zenon
  <2>6. QED
    BY <1>8, <2>1, <2>4, <2>5, Zenon
<1>16. CASE blob[s].tok # "PROP"
  <2>1. GetProp(n, name) = Err
    BY <1>7, <1>16, Zenon
  <2>2. s \in Nodes \/ s \in Ends
    BY <1>8, <1>11, <1>12, <1>16, Zenon DEF Tokens, Nodes, Ends
  <2>3. ASSUME NEW p \in TreeProps(n), blob[p].name = name PROVE FALSE
    <3>1. p \in Nat /\ s <= p /\ p < e /\ blob[p].tok = "PROP"
      BY <1>14, <2>3, Zenon
    <3>2. CASE s \in Ends
      <4>1. e <= s
        BY <1>1, <1>8, <1>10, <3>2, Zenon
      <4>2. QED
        BY <1>2, <1>8, <3>1, <4>1
    <3>3. CASE s \in Nodes
      <4>1. s # e
        BY <1>1, <3>3 DEF Nodes, Ends
      <4>2. s < e
        BY <1>2, <1>8, <4>1
      <4>3. s \in TreeChildren(n)
        BY <1>8, <1>10, <3>3, <4>2, Zenon DEF TreeChildren, e
      <4>4. p < s
        BY <1>8, <3>3, PropsFirst, Zenon
      <4>5. QED
        BY <1>8, <3>1, <4>4
    <3>4. QED
      BY <2>2, <3>2, <3>3, Zenon
  <2>4. QED
    BY <2>1, <2>3, Zenon
<1>17. QED
  BY <1>15, <1>16, Zenon

\* compatible_match is what TreeMatches says.
LEMMA MatchesIs ==
    ASSUME Blob, WellFormed, NEW n \in Nodes, NEW w
    PROVE  Matches(n, w) <=> n \in TreeMatches(w)
<1>1. CASE \E p \in TreeProps(n) : blob[p].name = "compatible"
  <2>1. PICK p \in TreeProps(n) : blob[p].name = "compatible"
    BY <1>1, Zenon
  <2>2. GetProp(n, "compatible") = p /\ p # Err
    BY <2>1, GetPropIs, Zenon
  <2>3. Matches(n, w) <=> w \in Range(blob[p].val)
    BY <2>2, Zenon DEF Matches, Value
  <2>4. \A q \in TreeProps(n) : blob[q].name = "compatible" => q = p
    BY <2>1, OneOfAName, Zenon
  <2>5. QED
    BY <2>1, <2>3, <2>4, Zenon DEF TreeMatches
<1>2. CASE \A p \in TreeProps(n) : blob[p].name # "compatible"
  <2>1. GetProp(n, "compatible") = Err
    BY <1>2, GetPropIs, Zenon
  <2>2. ~Matches(n, w)
    BY <2>1, Zenon DEF Matches
  <2>3. QED
    BY <1>2, <2>2, Zenon DEF TreeMatches
<1>3. QED
  BY <1>1, <1>2, Zenon

\* A path from the root down the tree.
Path(s) ==
    /\ s \in Seq(Nat) /\ Len(s) >= 1 /\ s[1] = 1
    /\ \A k \in 1 .. Len(s) : s[k] \in Nodes /\ Level(s[k]) = k - 1
    /\ \A k \in 1 .. Len(s) - 1 : s[k + 1] \in TreeChildren(s[k])

\* The end of a path.
LEMMA PathEnd ==
    ASSUME Blob, WellFormed, NEW s, Path(s)
    PROVE  /\ s \in Seq(Nat) /\ Len(s) \in Nat \ {0}
           /\ Top(s) \in Nodes /\ Top(s) \in Nat /\ Level(Top(s)) = Len(s) - 1
           /\ Top(s) = s[Len(s)]
           /\ Len(s) > 1 => /\ s[Len(s) - 1] \in Nodes /\ s[Len(s)] \in TreeChildren(s[Len(s) - 1])
           /\ Len(s) = 1 => Top(s) = 1
<1>1. s \in Seq(Nat) /\ Len(s) >= 1
  BY Zenon DEF Path
<1>2. Len(s) \in Nat \ {0} /\ Len(s) \in 1 .. Len(s)
  BY <1>1
<1>3. Len(s) > 1 => /\ Len(s) - 1 \in 1 .. Len(s) /\ Len(s) - 1 \in 1 .. Len(s) - 1
                    /\ Len(s) - 1 + 1 = Len(s)
  BY <1>2
<1>4. s[Len(s)] \in Nodes /\ Level(s[Len(s)]) = Len(s) - 1
  BY <1>2, Zenon DEF Path
<1>5. Len(s) > 1 => /\ s[Len(s) - 1] \in Nodes /\ s[Len(s)] \in TreeChildren(s[Len(s) - 1])
  BY <1>3, Zenon DEF Path
<1>6. Len(s) = 1 => s[Len(s)] = 1
  BY Zenon DEF Path
<1>7. s[Len(s)] \in Nat
  BY <1>4, Places, Zenon
<1>8. QED
  BY <1>1, <1>2, <1>4, <1>5, <1>6, <1>7, Zenon DEF Top

LEMMA PathPush ==
    ASSUME Blob, WellFormed, NEW s, Path(s), NEW c \in TreeChildren(Top(s))
    PROVE  Path(Append(s, c)) /\ Top(Append(s, c)) = c
<1> DEFINE a == Append(s, c)
<1>1. /\ s \in Seq(Nat) /\ Len(s) \in Nat \ {0} /\ Top(s) = s[Len(s)] /\ Top(s) \in Nodes
      /\ Level(Top(s)) = Len(s) - 1
  BY PathEnd, Zenon
<1>2. c \in Nodes /\ c \in Nat /\ Level(c) = Level(Top(s)) + 1
  BY <1>1, ChildInside, Zenon
<1>3. /\ a \in Seq(Nat) /\ Len(a) = Len(s) + 1 /\ a[Len(s) + 1] = c
      /\ \A i \in 1 .. Len(s) : a[i] = s[i]
      /\ Top(a) = c
  BY <1>1, <1>2, RangeAppend, Zenon
<1> HIDE DEF a
<1>4. Len(a) >= 1 /\ 1 \in 1 .. Len(s)
  BY <1>1, <1>3
<1>5. ASSUME NEW k \in 1 .. Len(a) PROVE a[k] \in Nodes /\ Level(a[k]) = k - 1
  <2>1. CASE k = Len(s) + 1
    <3>1. Level(c) = k - 1
      BY <1>1, <1>2, <2>1
    <3>2. QED
      BY <1>2, <1>3, <2>1, <3>1, Zenon
  <2>2. CASE k # Len(s) + 1
    <3>1. k \in 1 .. Len(s)
      BY <1>1, <1>3, <2>2
    <3>2. QED
      BY <1>3, <3>1, Zenon DEF Path
  <2>3. QED
    BY <2>1, <2>2, Zenon
<1>6. ASSUME NEW k \in 1 .. Len(a) - 1 PROVE a[k + 1] \in TreeChildren(a[k])
  <2>0. k \in 1 .. Len(s)
    BY <1>1, <1>3
  <2>1. CASE k = Len(s)
    BY <1>1, <1>3, <2>0, <2>1, Zenon
  <2>2. CASE k # Len(s)
    <3>1. k \in 1 .. Len(s) - 1 /\ k + 1 \in 1 .. Len(s)
      BY <1>1, <2>0, <2>2
    <3>2. QED
      BY <1>3, <2>0, <3>1, Zenon DEF Path
  <2>3. QED
    BY <2>1, <2>2, Zenon
<1>7. a[1] = 1
  BY <1>3, <1>4, Zenon DEF Path
<1>8. Path(a) /\ Top(a) = c
  BY <1>3, <1>4, <1>5, <1>6, <1>7, Zenon DEF Path
<1>9. QED
  BY <1>8, Zenon DEF a

LEMMA PathPop ==
    ASSUME Blob, WellFormed, NEW s, Path(s), Len(s) > 1
    PROVE  Path(Pop(s)) /\ Top(Pop(s)) = s[Len(s) - 1]
<1> DEFINE a == Pop(s)
<1>1. s \in Seq(Nat) /\ Len(s) \in Nat \ {0}
  BY PathEnd, Zenon
<1>2. Len(s) > 0
  BY <1>1
<1>3. a \in Seq(Nat) /\ Len(a) = Len(s) - 1 /\ \A k \in 1 .. Len(s) - 1 : a[k] = s[k]
  BY <1>1, <1>2, FrontOf, Zenon
<1> HIDE DEF a
<1>4. /\ Len(a) >= 1 /\ 1 \in 1 .. Len(s) - 1 /\ Len(a) \in 1 .. Len(s) - 1
      /\ \A k \in 1 .. Len(a) : k \in 1 .. Len(s) /\ k \in 1 .. Len(s) - 1
      /\ \A k \in 1 .. Len(a) - 1 : /\ k \in 1 .. Len(s) - 1 /\ k + 1 \in 1 .. Len(s) - 1
  BY <1>1, <1>3
<1>5. Path(a)
  BY <1>3, <1>4, Zenon DEF Path
<1>6. Top(a) = s[Len(s) - 1]
  BY <1>3, <1>4, Zenon DEF Top
<1>7. QED
  BY <1>5, <1>6, Zenon DEF a

LEMMA PathAside ==
    ASSUME Blob, WellFormed, NEW s, Path(s), Len(s) > 1, NEW c \in TreeChildren(s[Len(s) - 1])
    PROVE  /\ Path([s EXCEPT ![Len(s)] = c])
           /\ Top([s EXCEPT ![Len(s)] = c]) = c
<1> DEFINE a == [s EXCEPT ![Len(s)] = c]
           n == Len(s)
           p == s[Len(s) - 1]
<1>1. s \in Seq(Nat) /\ n \in Nat \ {0} /\ p \in Nodes
  BY PathEnd, Zenon
<1>2. c \in Nodes /\ c \in Nat /\ Level(c) = Level(p) + 1
  BY <1>1, ChildInside, Zenon
<1>3. /\ a \in Seq(Nat) /\ Len(a) = n /\ a[n] = c
      /\ \A k \in 1 .. n : k # n => a[k] = s[k]
  BY <1>1, <1>2
<1>4. Level(p) = n - 1 - 1 /\ Level(p) \in Nat
  <2>1. n - 1 \in 1 .. n
    BY <1>1
  <2>2. QED
    BY <1>1, <2>1, Places, Levels, Zenon DEF Path
<1> HIDE DEF a
<1>5. ASSUME NEW k \in 1 .. Len(a) PROVE a[k] \in Nodes /\ Level(a[k]) = k - 1
  <2>1. CASE k = n
    <3>1. Level(c) = n - 1
      BY <1>1, <1>2, <1>4
    <3>2. QED
      BY <1>2, <1>3, <2>1, <3>1, Zenon
  <2>2. CASE k # n
    BY <1>3, <2>2, Zenon DEF Path
  <2>3. QED
    BY <2>1, <2>2, Zenon
<1>6. ASSUME NEW k \in 1 .. Len(a) - 1 PROVE a[k + 1] \in TreeChildren(a[k])
  <2>0. Len(a) = n /\ n \in Nat
    BY <1>1, <1>3, Zenon
  <2> HIDE DEF n
  <2>1. k \in 1 .. n /\ k # n /\ k \in 1 .. n - 1 /\ k + 1 \in 1 .. n /\ (k + 1 = n => k = n - 1)
    BY <2>0
  <2> USE DEF n
  <2>2. CASE k + 1 = n
    BY <1>3, <2>1, <2>2, Zenon
  <2>3. CASE k + 1 # n
    BY <1>3, <2>1, <2>3, Zenon DEF Path
  <2>4. QED
    BY <2>2, <2>3, Zenon
<1>7. a[1] = 1 /\ Len(a) >= 1
  <2>1. \A x \in Nat : x > 1 => 1 \in 1 .. x /\ 1 # x /\ x >= 1
    BY SMT
  <2>2. QED
    BY <1>1, <1>3, <2>1, Zenon DEF Path
<1>8. Path(a) /\ Top(a) = c
  BY <1>3, <1>5, <1>6, <1>7, Zenon DEF Path, Top
<1>9. QED
  BY <1>8, Zenon DEF a

\* The root closes behind every node.
LEMMA RootCloses ==
    ASSUME Blob, WellFormed, NEW m \in Nodes
    PROVE  1 \in Nodes /\ ~(Close(1) < m)
<1>1. 1 \in Nodes
  BY Zenon DEF WellFormed
<1>2. /\ Close(1) \in Ends /\ Level(Close(1)) = Level(1) + 1
      /\ 1 \in DOMAIN blob
  BY <1>1, CloseIs, Places, Zenon
<1>3. /\ Close(1) \in DOMAIN blob /\ Close(1) \in Nat /\ Close(1) < Len(blob) /\ Close(1) >= 1
      /\ m \in Nat /\ m < Len(blob) /\ Len(blob) \in Nat /\ DOMAIN blob = 1 .. Len(blob)
  BY <1>2, Places, Zenon
<1>4. Level(1) = 0
  BY <1>2, Zenon DEF WellFormed
<1>5. Level(Close(1) + 1) = 0
  <2>1. Level(Close(1) + 1) = Level(Close(1)) - 1
    BY <1>2, <1>3, LevelSteps, Zenon
  <2>2. QED
    BY <1>2, <1>4, <2>1
<1>6. Close(1) + 1 \in DOMAIN blob /\ Close(1) + 1 # 1
  BY <1>3
<1>7. Close(1) + 1 = Len(blob)
  BY <1>5, <1>6, Zenon DEF WellFormed
<1>8. QED
  BY <1>1, <1>3, <1>7

-----------------------------------------------------------------------------
\* Up the tree.

\* On any blob, what fdt_parent_offset answers lies before the node.
LEMMA ParentBefore ==
    ASSUME Blob, NEW n \in Int, ParentOffset(n) # Err
    PROVE  ParentOffset(n) \in DOMAIN blob /\ ParentOffset(n) < n
<1> DEFINE L == Len(blob)
           Before(i) == {p \in DOMAIN blob : p < i}
           Good(i) == \A open \in Seq(Nat) :
                         (\A k \in 1 .. Len(open) : open[k] \in Before(i)) =>
                             Walk(n)[i][open] \in Before(n) \cup {Err}
           Wrong == {k \in Nat : \E i \in Nat : i + k = L + 1 /\ ~Good(i)}
<1>1. L \in Nat /\ DOMAIN blob = 1 .. L
  BY Zenon DEF Blob
<1>2. ASSUME NEW i \in Nat, NEW x \in Before(i) PROVE x \in Before(i + 1)
  BY <1>1
<1>3. ASSUME NEW i \in Nat, i \in DOMAIN blob, Good(i + 1) PROVE Good(i)
  <2> SUFFICES ASSUME NEW open \in Seq(Nat), \A k \in 1 .. Len(open) : open[k] \in Before(i)
               PROVE  Walk(n)[i][open] \in Before(n) \cup {Err}
    BY Zenon
  <2>1. Len(open) \in Nat
    OBVIOUS
  <2>2. \A k \in 1 .. Len(open) : open[k] \in Before(i + 1)
    BY <1>2, Zenon
  <2>3. Walk(n)[i + 1][open] \in Before(n) \cup {Err}
    BY <1>3, <2>2, Zenon
  <2>4. Walk(n)[i + 1][Append(open, i)] \in Before(n) \cup {Err}
    <3>1. /\ Append(open, i) \in Seq(Nat) /\ Len(Append(open, i)) = Len(open) + 1
          /\ \A k \in 1 .. Len(open) : Append(open, i)[k] = open[k]
          /\ Append(open, i)[Len(open) + 1] = i
      OBVIOUS
    <3>2. i \in Before(i + 1)
      BY <1>3
    <3>3. \A k \in 1 .. Len(open) + 1 : k \in 1 .. Len(open) \/ k = Len(open) + 1
      BY <2>1
    <3> HIDE DEF Before
    <3>4. \A k \in 1 .. Len(Append(open, i)) : Append(open, i)[k] \in Before(i + 1)
      BY <2>2, <3>1, <3>2, <3>3, Zenon
    <3>5. QED
      BY <1>3, <3>1, <3>4, Zenon
  <2>5. Len(open) > 1 => Walk(n)[i + 1][Pop(open)] \in Before(n) \cup {Err}
    <3> SUFFICES ASSUME Len(open) > 1 PROVE Walk(n)[i + 1][Pop(open)] \in Before(n) \cup {Err}
      BY Zenon
    <3>1. Len(open) > 0 /\ \A k \in 1 .. Len(open) - 1 : k \in 1 .. Len(open)
      BY <2>1
    <3>2. /\ Pop(open) \in Seq(Nat) /\ Len(Pop(open)) = Len(open) - 1
          /\ \A k \in 1 .. Len(open) - 1 : Pop(open)[k] = open[k]
      BY <3>1, FrontOf, Zenon
    <3> HIDE DEF Before
    <3>3. \A k \in 1 .. Len(Pop(open)) : Pop(open)[k] \in Before(i + 1)
      BY <2>2, <3>1, <3>2, Zenon
    <3>4. QED
      BY <1>3, <3>2, <3>3, Zenon
  <2>6. (i = n /\ open # <<>>) => Top(open) \in Before(n)
    <3> SUFFICES ASSUME i = n, open # <<>> PROVE Top(open) \in Before(n)
      BY Zenon
    <3>1. Len(open) \in 1 .. Len(open)
      BY <2>1
    <3>2. QED
      BY <3>1, Zenon DEF Top
  <2>7. blob[i].tok \in Tokens /\ blob[i].whole \in BOOLEAN
    BY <1>3, Zenon DEF Blob
  <2> DEFINE w == Walk(n)[i][open]
             wa == Walk(n)[i + 1][Append(open, i)]
             wp == Walk(n)[i + 1][Pop(open)]
             ws == Walk(n)[i + 1][open]
  <2>8. w = IF ~Inside(i) THEN Err
            ELSE CASE blob[i].tok = "BEGIN_NODE" /\ blob[i].whole ->
                        IF i # n THEN wa
                        ELSE IF open = <<>> \/ Len(open) - 1 >= MaxDepth THEN Err
                        ELSE Top(open)
                   [] blob[i].tok = "END_NODE" /\ Len(open) > 1 -> wp
                   [] blob[i].tok = "PROP" /\ blob[i].whole -> ws
                   [] blob[i].tok = "NOP" -> ws
                   [] OTHER -> Err
    BY WalkIs, Zenon
  <2> HIDE DEF w, wa, wp, ws, Before
  <2>9. w \in {Err, wa, ws} \/ (i = n /\ open # <<>> /\ w = Top(open)) \/ (Len(open) > 1 /\ w = wp)
    BY <2>7, <2>8 DEF Tokens
  <2>10. w \in Before(n) \cup {Err}
    BY <2>3, <2>4, <2>5, <2>6, <2>9, Zenon DEF wa, wp, ws
  <2>11. QED
    BY <2>10, Zenon DEF w
<1>4. Wrong = {}
  <2> SUFFICES ASSUME Wrong # {} PROVE FALSE
    BY Zenon
  <2> HIDE DEF Good
  <2>1. PICK k \in Wrong : \A y \in Wrong : k <= y
    <3>1. \A y \in Wrong : y \in Nat
      BY Zenon
    <3> HIDE DEF Wrong
    <3>2. QED
      BY <3>1, LeastExists, Zenon
  <2>2. PICK i \in Nat : i + k = L + 1 /\ ~Good(i)
    BY <2>1, Zenon
  <2>3. k \in Nat
    BY <2>1, Zenon
  <2>4. i \in DOMAIN blob
    <3> SUFFICES ASSUME i \notin DOMAIN blob PROVE Good(i)
      BY <2>2, Zenon
    <3>1. ~Inside(i)
      BY Zenon DEF Inside
    <3>2. \A open \in Seq(Nat) : Walk(n)[i][open] = Err
      BY <3>1, WalkIs, Zenon
    <3>3. QED
      BY <3>2, Zenon DEF Good
  <2>5. i + 1 \in Nat /\ k - 1 \in Nat /\ (i + 1) + (k - 1) = L + 1 /\ ~(k <= k - 1)
    BY <1>1, <2>2, <2>3, <2>4
  <2>6. Good(i + 1)
    BY <2>1, <2>5, Zenon
  <2>7. QED
    BY <1>3, <2>2, <2>4, <2>6, Zenon
<1>5. L \in Nat /\ 1 + L = L + 1
  BY <1>1
<1>6. Good(1)
  <2> HIDE DEF Good
  <2>1. QED
    BY <1>4, <1>5, Zenon
<1>7. <<>> \in Seq(Nat) /\ 1 .. Len(<<>>) = {}
  OBVIOUS
<1>8. Walk(n)[1][<<>>] \in Before(n) \cup {Err}
  BY <1>6, <1>7, Zenon
<1>9. QED
  BY <1>8, Zenon DEF ParentOffset

\* The root has no parent.
LEMMA RootIsTop ==
    ASSUME Blob, WellFormed
    PROVE  ParentOffset(1) = Err /\ TreeAncestors(1) = {} /\ 1 \in Nodes /\ Level(1) = 0
<1>1. 1 \in Nodes /\ 1 \in DOMAIN blob /\ blob[1].whole /\ CtxInit(header) /\ Level(1) = 0
  BY Places, Zenon DEF WellFormed
<1>2. blob[1].tok = "BEGIN_NODE" /\ Inside(1)
  BY <1>1, Zenon DEF Nodes, Inside
<1>3. <<>> \in Seq(Nat) /\ 1 \in Nat
  OBVIOUS
<1>4. Walk(1)[1][<<>>] = Err
  BY <1>1, <1>2, <1>3, WalkSteps, Zenon
<1>5. \A i \in Nodes : ~(i < 1)
  BY Places
<1>6. TreeAncestors(1) = {}
  BY <1>5, Zenon DEF TreeAncestors
<1>7. QED
  BY <1>1, <1>4, <1>6, Zenon DEF ParentOffset

\* Every other node is the child of one.
LEMMA HasParent ==
    ASSUME Blob, WellFormed, NEW n \in Nodes, n # 1
    PROVE  \E p \in Nodes : n \in TreeChildren(p)
<1> DEFINE Back == {k \in Nat : n - k \in 1 .. n - 1 /\ Level(n - k) < Level(n)}
<1>1. /\ n \in Nat /\ n >= 1 /\ n < Len(blob) /\ n \in DOMAIN blob /\ n \notin Ends
      /\ Len(blob) \in Nat /\ DOMAIN blob = 1 .. Len(blob)
  BY Places, Zenon
<1>2. Level(1) = 0 /\ 1 \in Nodes
  BY RootIsTop, Zenon
<1>3. Level(n) # 0 /\ \A i \in DOMAIN blob : Level(i) \in Nat
  <2>1. \A a, b \in Nat : a < b => a # b
    OBVIOUS
  <2>2. n \notin {1, Len(blob)}
    BY <1>1, <2>1, Zenon
  <2>3. QED
    BY <1>1, <2>2, Levels, Zenon DEF WellFormed
<1>4. n - 1 \in Back
  <2>1. n - 1 \in Nat /\ n - (n - 1) = 1 /\ 1 \in 1 .. n - 1
    BY <1>1
  <2>2. 0 < Level(n)
    BY <1>1, <1>3
  <2>3. QED
    BY <1>2, <2>1, <2>2, Zenon
<1>5. PICK k \in Back : \A y \in Back : k <= y
  <2>1. \A y \in Back : y \in Nat
    BY Zenon
  <2> HIDE DEF Back
  <2>2. QED
    BY <1>4, <2>1, LeastExists, Zenon
<1> DEFINE p == n - k
<1>6. k \in Nat /\ p \in 1 .. n - 1 /\ Level(p) < Level(n)
  BY <1>5, Zenon
<1>7. p \in DOMAIN blob /\ p \in Nat /\ p < n /\ p + 1 \in DOMAIN blob /\ p >= 1
  BY <1>1, <1>6
<1> HIDE DEF p
<1>8. ASSUME NEW j \in p + 1 .. n - 1 PROVE ~(Level(j) < Level(n))
  <2>1. n - j \in Nat /\ n - (n - j) = j /\ j \in 1 .. n - 1 /\ ~(k <= n - j)
    BY <1>1, <1>6, <1>7 DEF p
  <2>2. ~(n - j \in Back)
    BY <1>5, <2>1, Zenon
  <2>3. QED
    BY <2>1, <2>2, Zenon
<1>9. Level(p + 1) >= Level(n)
  <2>1. CASE p + 1 = n
    BY <1>1, <1>3, <2>1
  <2>2. CASE p + 1 # n
    <3>1. p + 1 \in p + 1 .. n - 1
      BY <1>1, <1>7, <2>2
    <3>2. ~(Level(p + 1) < Level(n)) /\ Level(p + 1) \in Nat /\ Level(n) \in Nat
      BY <1>1, <1>3, <1>7, <1>8, <3>1, Zenon
    <3>3. QED
      BY <3>2
  <2>3. QED
    BY <2>1, <2>2, Zenon
<1>10. /\ Level(p) \in Nat /\ Level(n) \in Nat
       /\ p \in Nodes => Level(p + 1) = Level(p) + 1
       /\ p \in Ends => Level(p + 1) = Level(p) - 1
       /\ p \notin Nodes \cup Ends => Level(p + 1) = Level(p)
  BY <1>1, <1>3, <1>7, LevelSteps, Zenon
<1>11. p \in Nodes /\ Level(n) = Level(p) + 1
  BY <1>6, <1>9, <1>10
<1>12. /\ Close(p) \in Ends /\ p < Close(p) /\ Level(Close(p)) = Level(p) + 1
       /\ Close(p) \in Nat /\ Close(p) \in DOMAIN blob
  BY <1>11, CloseIs, Places, Zenon
<1>13. Level(Close(p) + 1) = Level(p)
  <2>1. Level(Close(p) + 1) = Level(Close(p)) - 1
    BY <1>12, LevelSteps, Zenon
  <2>2. QED
    BY <1>10, <1>12, <2>1
<1>14. n < Close(p)
  <2> SUFFICES ASSUME ~(n < Close(p)) PROVE FALSE
    BY Zenon
  <2>1. n # Close(p)
    BY <1>1, <1>12, Zenon
  <2>2. Close(p) + 1 <= n
    BY <1>1, <1>12, <2>1
  <2>3. Close(p) + 1 # n
    BY <1>10, <1>11, <1>13
  <2>4. Close(p) + 1 \in p + 1 .. n - 1
    BY <1>1, <1>7, <1>12, <2>2, <2>3
  <2>5. ~(Level(p) < Level(n))
    BY <1>8, <1>13, <2>4, Zenon
  <2>6. QED
    BY <1>6, <2>5, Zenon
<1>15. n \in TreeChildren(p)
  BY <1>7, <1>11, <1>14, Zenon DEF TreeChildren
<1>16. QED
  BY <1>11, <1>15, Zenon

\* A node around the parent is a node around the child, and there is no other
\* besides the parent.
LEMMA AncestorsUp ==
    ASSUME Blob, WellFormed, NEW p \in Nodes, NEW n \in TreeChildren(p)
    PROVE  TreeAncestors(n) = TreeAncestors(p) \cup {p}
<1>1. /\ n \in Nodes /\ p < n /\ Close(n) < Close(p) /\ Level(n) = Level(p) + 1
      /\ n \in Nat /\ p \in Nat /\ Close(n) \in Nat /\ Close(p) \in Nat /\ n < Close(n)
      /\ Level(p) \in Nat
  BY ChildInside, Zenon
<1>2. ASSUME NEW a \in Nodes
      PROVE  /\ a \in Nat /\ Level(a) \in Nat /\ Close(a) \in Nat /\ a < Close(a)
             /\ Close(a) \in DOMAIN blob /\ Close(a) \in Ends /\ Level(Close(a)) = Level(a) + 1
             /\ \A j \in a + 1 .. Close(a) : Level(j) >= Level(a) + 1
  BY CloseIs, Places, Levels, Zenon
<1>3. ASSUME NEW a \in TreeAncestors(p) PROVE a \in TreeAncestors(n)
  <2>1. a \in Nodes /\ a < p /\ p < Close(a)
    BY <1>3, Zenon DEF TreeAncestors
  <2>2. Level(p) >= Level(a) + 1
    <3>1. p \in a + 1 .. Close(a)
      BY <1>1, <1>2, <2>1
    <3>2. QED
      BY <1>2, <2>1, <3>1, Zenon
  <2>3. Close(p) < Close(a) + 1
    <3> SUFFICES ASSUME ~(Close(p) < Close(a) + 1) PROVE FALSE
      BY Zenon
    <3>1. Close(a) + 1 \in p + 1 .. Close(p)
      BY <1>1, <1>2, <2>1
    <3>2. Level(Close(a) + 1) >= Level(p) + 1
      BY <1>2, <3>1, Zenon
    <3>3. Level(Close(a) + 1) = Level(Close(a)) - 1 /\ Level(Close(a)) = Level(a) + 1
      BY <1>2, <2>1, LevelSteps, Zenon
    <3>4. Level(a) \in Nat
      BY <1>2, <2>1, Zenon
    <3>5. QED
      BY <1>1, <2>2, <3>2, <3>3, <3>4
  <2>4. a < n /\ n < Close(a)
    BY <1>1, <1>2, <2>1, <2>3
  <2>5. QED
    BY <2>1, <2>4, Zenon DEF TreeAncestors
<1>4. p \in TreeAncestors(n)
  <2>1. n < Close(p)
    BY <1>1
  <2>2. QED
    BY <1>1, <2>1, Zenon DEF TreeAncestors
<1>5. ASSUME NEW a \in TreeAncestors(n), a # p PROVE a \in TreeAncestors(p)
  <2>1. a \in Nodes /\ a < n /\ n < Close(a)
    BY <1>5, Zenon DEF TreeAncestors
  <2>2. CASE a < p
    <3>1. p < Close(a)
      BY <1>1, <1>2, <2>1
    <3>2. QED
      BY <2>1, <2>2, <3>1, Zenon DEF TreeAncestors
  <2>3. CASE p < a
    <3>1. a \in p + 1 .. Close(p) /\ n \in a + 1 .. Close(a)
      BY <1>1, <1>2, <2>1, <2>3
    <3>2. Level(a) >= Level(p) + 1 /\ Level(n) >= Level(a) + 1 /\ Level(a) \in Nat
      BY <1>2, <2>1, <3>1, Zenon
    <3>3. FALSE
      BY <1>1, <3>2
    <3>4. QED
      BY <3>3, Zenon
  <2>4. a < p \/ p < a
    <3>1. a \in Nat
      BY <1>2, <2>1, Zenon
    <3>2. QED
      BY <1>1, <1>5, <3>1
  <2>5. QED
    BY <2>2, <2>3, <2>4, Zenon
<1>6. QED
  BY <1>3, <1>4, <1>5, Zenon

\* A node around another lies on a higher level.
LEMMA AncestorsAbove ==
    ASSUME Blob, WellFormed, NEW n \in Nodes, NEW a \in TreeAncestors(n)
    PROVE  a \in Nodes /\ a < n /\ Level(a) < Level(n)
<1>1. a \in Nodes /\ a < n /\ n < Close(a)
  BY Zenon DEF TreeAncestors
<1>2. /\ a \in Nat /\ n \in Nat /\ Close(a) \in Nat /\ Level(a) \in Nat /\ Level(n) \in Nat
      /\ \A j \in a + 1 .. Close(a) : Level(j) >= Level(a) + 1
  BY <1>1, CloseIs, Places, Levels, Zenon
<1>3. n \in a + 1 .. Close(a)
  BY <1>1, <1>2
<1>4. Level(n) >= Level(a) + 1
  BY <1>2, <1>3, Zenon
<1>5. QED
  BY <1>1, <1>2, <1>4

\* Only the root is on level 0.
LEMMA RootAlone ==
    ASSUME Blob, WellFormed, NEW n \in Nodes, Level(n) = 0
    PROVE  n = 1
<1>1. n \in DOMAIN blob /\ n \in Nat /\ Len(blob) \in Nat /\ n < Len(blob)
  BY Places, Zenon
<1>2. n \in {1, Len(blob)}
  BY <1>1, Zenon DEF WellFormed
<1>3. QED
  BY <1>1, <1>2

\* The nearest node around a child is its parent.
LEMMA TreeParentIs ==
    ASSUME Blob, WellFormed, NEW p \in Nodes, NEW n \in TreeChildren(p)
    PROVE  TreeParent(n) = p
<1> DEFINE S == TreeAncestors(n)
<1>1. S = TreeAncestors(p) \cup {p}
  BY AncestorsUp, Zenon
<1>2. ASSUME NEW y \in S PROVE y \in Nat /\ p \in Nat /\ (y = p \/ y < p)
  <2>1. y \in TreeAncestors(p) \/ y = p
    BY <1>1, <1>2, Zenon
  <2>2. y \in Nodes /\ (y = p \/ y < p)
    BY <2>1, AncestorsAbove, Zenon
  <2>3. QED
    BY <2>2, Places, Zenon
<1>3. p \in S
  BY <1>1, Zenon
<1> HIDE DEF S
<1>4. p \in S /\ \A y \in S : y \in Int /\ p >= y
  BY <1>2, <1>3
<1>5. \A x \in S : (\A y \in S : x >= y) => x = p
  BY <1>4
<1>6. Max(S) \in S /\ \A y \in S : Max(S) >= y
  BY <1>4, Zenon DEF Max
<1>7. QED
  BY <1>5, <1>6, Zenon DEF S, TreeParent

-----------------------------------------------------------------------------
\* Cell counts.

CellNames == {"#address-cells", "#size-cells"}

\* A property that fdt_getprop finds holds words, unless it is text.
LEMMA ValueIs ==
    ASSUME Blob, Words, NEW n, NEW name, GetProp(n, name) # Err
    PROVE  /\ n \in DOMAIN blob
           /\ name \notin {"compatible", "status"} => Value(n, name) \in Seq(Word)
           /\ name = "status" => Value(n, name) \in Seq(STRING)
<1> DEFINE stops == {j \in n + 1 .. Len(blob) :
                        ~ \/ blob[j].tok = "NOP"
                          \/ /\ blob[j].tok = "PROP"
                             /\ blob[j].whole
                             /\ blob[j].name \notin {name, NoString}}
           j == Min(stops)
<1>1. /\ AfterName(n) # Err /\ stops # {} /\ GetProp(n, name) = j
      /\ blob[j].tok = "PROP" /\ blob[j].name = name
  BY Zenon DEF GetProp
<1>2. n \in DOMAIN blob
  BY <1>1, Zenon DEF AfterName, IsNode, Inside
<1>3. Len(blob) \in Nat /\ DOMAIN blob = 1 .. Len(blob)
  BY Zenon DEF Blob
<1>4. \A x \in n + 1 .. Len(blob) : x \in Nat /\ x \in 1 .. Len(blob)
  BY <1>2, <1>3
<1>5. \A x \in stops : x \in Nat
  BY <1>4, Zenon
<1>6. j \in stops
  <2> HIDE DEF stops
  <2>1. QED
    BY <1>1, <1>5, MinLeast, Zenon
<1>7. j \in DOMAIN blob
  BY <1>3, <1>4, <1>6, Zenon
<1>8. QED
  BY <1>1, <1>2, <1>7, Zenon DEF Words, Value

LEMMA CellsAreWords ==
    ASSUME Blob, Words, NEW n, NEW name \in CellNames
    PROVE  OwnCells(n, name) \in Nat \cup {Err}
<1>1. CASE GetProp(n, name) = Err \/ Value(n, name) = <<>>
  BY <1>1, Zenon DEF OwnCells
<1>2. CASE ~(GetProp(n, name) = Err \/ Value(n, name) = <<>>)
  <2>1. name \notin {"compatible", "status"}
    BY DEF CellNames
  <2>2. Value(n, name) \in Seq(Word) /\ Value(n, name) # <<>>
    BY <1>2, <2>1, ValueIs, Zenon
  <2>3. \A s \in Seq(Word) : s # <<>> => s[1] \in Word
    OBVIOUS
  <2>4. \A x \in Word : x \in Nat
    BY FdtAssumption DEF Word
  <2>5. QED
    BY <1>2, <2>2, <2>3, <2>4, Zenon DEF OwnCells
<1>3. QED
  BY <1>1, <1>2, Zenon

\* Where a lookup leads is a number, and the parent of a place is one too.
LEMMA SpotsAre ==
    ASSUME Blob
    PROVE  /\ Len(blob) \in Nat
           /\ \A x \in Spots : x \in Int /\ x + 1 \in 0 .. Len(blob) + 1
           /\ \A x \in Spots : x # Err => x \in DOMAIN blob /\ x \in Nat /\ x # 0
           /\ Err \in Spots
           /\ \A x \in Int : ParentOffset(x) \in Spots
           /\ \A x \in Int : ParentOffset(x) # Err => ParentOffset(x) < x
<1>1. Len(blob) \in Nat /\ DOMAIN blob = 1 .. Len(blob)
  BY Zenon DEF Blob
<1>2. \A x \in 1 .. Len(blob) : x \in Int /\ x \in Nat /\ x # 0 /\ x + 1 \in 0 .. Len(blob) + 1
  BY <1>1
<1>3. Err \in Int /\ Err + 1 \in 0 .. Len(blob) + 1
  BY <1>1 DEF Err
<1>4. QED
  BY <1>1, <1>2, <1>3, ParentBefore, Zenon DEF Spots

\* One round of the loop of fdt_parent_cells.
LEMMA NearestStep ==
    ASSUME Blob, NEW name, NEW cur \in Spots
    PROVE  NearestCells(name)[cur] =
              IF cur = Err THEN 2
              ELSE IF OwnCells(cur, name) # Err THEN OwnCells(cur, name)
              ELSE NearestCells(name)[ParentOffset(cur)]
<1> DEFINE Body(f, x) == IF x = Err THEN 2
                         ELSE IF OwnCells(x, name) # Err THEN OwnCells(x, name)
                         ELSE f[ParentOffset(x)]
           stop == {x \in Spots : x = Err \/ OwnCells(x, name) # Err}
           val == [x \in Spots |-> IF x = Err THEN 2 ELSE OwnCells(x, name)]
           nxt == [x \in Spots |-> ParentOffset(x)]
           rank == [x \in Spots |-> x + 1]
<1>1. \A x \in Spots :
         /\ x \in stop <=> (x = Err \/ OwnCells(x, name) # Err)
         /\ val[x] = IF x = Err THEN 2 ELSE OwnCells(x, name)
         /\ nxt[x] = ParentOffset(x)
         /\ rank[x] = x + 1
  BY Zenon
<1> HIDE DEF stop, val, nxt, rank
<1>2. \A x \in Spots : rank[x] \in 0 .. Len(blob) + 1
  BY <1>1, SpotsAre, Zenon
<1>3. ASSUME NEW x \in Spots, x \notin stop
      PROVE  nxt[x] \in Spots /\ rank[nxt[x]] < rank[x]
  <2> DEFINE p == ParentOffset(x)
  <2>1. /\ x \in Nat /\ p \in Spots /\ p \in Int /\ nxt[x] = p
        /\ rank[p] = p + 1 /\ rank[x] = x + 1
        /\ p # Err => p < x
    BY <1>1, <1>3, SpotsAre, Zenon
  <2> HIDE DEF p
  <2>2. p + 1 < x + 1
    BY <2>1 DEF Err
  <2>3. QED
    BY <2>1, <2>2, Zenon
<1>4. PICK g : Rounds(g, Spots, stop, val, nxt)
  <2>1. Len(blob) + 1 \in Nat
    BY SpotsAre
  <2>2. \A x \in Spots : x \notin stop => nxt[x] \in Spots /\ rank[nxt[x]] < rank[x]
    BY <1>3, Zenon
  <2>3. QED
    BY <1>2, <2>1, <2>2, RoundsExist, ZenonT(40)
<1>5. g = [x \in Spots |-> Body(g, x)]
  <2>1. g = [x \in Spots |-> IF x \in stop THEN val[x] ELSE g[nxt[x]]]
    BY <1>4, Zenon DEF Rounds
  <2>2. ASSUME NEW x \in Spots
        PROVE  (IF x \in stop THEN val[x] ELSE g[nxt[x]]) = Body(g, x)
    BY <1>1, Zenon
  <2> HIDE DEF Body
  <2>3. [x \in Spots |-> IF x \in stop THEN val[x] ELSE g[nxt[x]]] = [x \in Spots |-> Body(g, x)]
    BY <2>2, Zenon
  <2>4. QED
    BY <2>1, <2>3, Zenon
<1>6. NearestCells(name) = CHOOSE f : f = [x \in Spots |-> Body(f, x)]
  BY Zenon DEF NearestCells
<1> HIDE DEF Body
<1>7. NearestCells(name) = [x \in Spots |-> Body(NearestCells(name), x)]
  BY <1>5, <1>6, Zenon
<1>8. NearestCells(name)[cur] = Body(NearestCells(name), cur)
  BY <1>7, ZenonT(40)
<1>9. QED
  BY <1>8, Zenon DEF Body

\* Whatever the blob, the answer is a number of cells.
LEMMA ParentCellsType ==
    ASSUME Blob, Words, NEW n \in Int, NEW name \in CellNames
    PROVE  ParentCells(n, name) \in Nat
<1> DEFINE C == NearestCells(name)
           Wrong == {k \in Nat : \E x \in Spots : x + 1 = k /\ C[x] \notin Nat}
<1>1. Wrong = {}
  <2> SUFFICES ASSUME Wrong # {} PROVE FALSE
    BY Zenon
  <2> HIDE DEF C
  <2>1. PICK k \in Wrong : \A y \in Wrong : k <= y
    <3>1. \A y \in Wrong : y \in Nat
      BY Zenon
    <3> HIDE DEF Wrong
    <3>2. QED
      BY <3>1, LeastExists, Zenon
  <2>2. PICK x \in Spots : x + 1 = k /\ C[x] \notin Nat
    BY <2>1, Zenon
  <2>3. C[x] = IF x = Err THEN 2
               ELSE IF OwnCells(x, name) # Err THEN OwnCells(x, name)
               ELSE C[ParentOffset(x)]
    BY NearestStep, Zenon DEF C
  <2>4. x # Err /\ OwnCells(x, name) = Err /\ C[ParentOffset(x)] \notin Nat
    <3>1. OwnCells(x, name) \in Nat \cup {Err} /\ 2 \in Nat
      BY CellsAreWords, Zenon
    <3>2. QED
      BY <2>2, <2>3, <3>1, Zenon
  <2> DEFINE p == ParentOffset(x)
  <2>5. x \in Nat /\ p \in Spots /\ p \in Int /\ (p # Err => p < x /\ p \in Nat)
    BY <2>4, SpotsAre, Zenon
  <2> HIDE DEF p
  <2>6. p + 1 \in Nat /\ ~(k <= p + 1)
    BY <2>2, <2>5 DEF Err
  <2>7. p + 1 \in Wrong
    BY <2>4, <2>5, <2>6, Zenon DEF p
  <2>8. QED
    BY <2>1, <2>6, <2>7, Zenon
<1>2. \A x \in Spots : C[x] \in Nat
  <2> HIDE DEF C
  <2>1. \A x \in Spots : x + 1 \in Nat
    <3>1. \A x \in Spots : x + 1 \in 0 .. Len(blob) + 1
      BY SpotsAre, Zenon
    <3>2. \A y \in 0 .. Len(blob) + 1 : y \in Nat
      BY SpotsAre
    <3>3. QED
      BY <3>1, <3>2, Zenon
  <2>2. QED
    BY <1>1, <2>1, Zenon
<1>3. QED
  BY <1>2, SpotsAre, Zenon DEF ParentCells

\* The declarations that reach node n.
Declared(n, name) ==
    {p \in UNION {TreeProps(a) : a \in TreeAncestors(n)} :
        blob[p].name = name /\ blob[p].val # <<>>}

LEMMA TreeCellsIs ==
    ASSUME NEW n, NEW name
    PROVE  TreeCells(n, name) =
              IF Declared(n, name) = {} THEN 2
              ELSE blob[Min({p \in Declared(n, name) :
                               \A q \in Declared(n, name) : Level(q) <= Level(p)})].val[1]
BY Zenon DEF TreeCells, Declared

\* What node p declares itself, in the terms of the tree.
LEMMA OwnCellsIs ==
    ASSUME Blob, Words, WellFormed, NEW p \in Nodes, NEW name \in CellNames
    PROVE  /\ \A d \in TreeProps(p) : (blob[d].name = name /\ blob[d].val # <<>>) =>
                 OwnCells(p, name) = blob[d].val[1] /\ OwnCells(p, name) # Err
           /\ (\A d \in TreeProps(p) : ~(blob[d].name = name /\ blob[d].val # <<>>)) =>
                 OwnCells(p, name) = Err
<1>1. ASSUME NEW d \in TreeProps(p), blob[d].name = name
      PROVE  /\ GetProp(p, name) = d /\ GetProp(p, name) # Err
             /\ Value(p, name) = blob[d].val
  BY <1>1, GetPropIs, Zenon DEF Value
<1>2. ASSUME NEW d \in TreeProps(p), blob[d].name = name, blob[d].val # <<>>
      PROVE  OwnCells(p, name) = blob[d].val[1] /\ OwnCells(p, name) # Err
  <2>1. OwnCells(p, name) = blob[d].val[1]
    BY <1>1, <1>2, Zenon DEF OwnCells
  <2>2. name \notin {"compatible", "status"}
    BY DEF CellNames
  <2>3. Value(p, name) \in Seq(Word)
    BY <1>1, <1>2, <2>2, ValueIs, Zenon
  <2>4. \A s \in Seq(Word) : s # <<>> => s[1] \in Word
    OBVIOUS
  <2>5. \A x \in Word : x # Err
    BY FdtAssumption DEF Word, Err
  <2>6. QED
    BY <1>1, <1>2, <2>1, <2>3, <2>4, <2>5, Zenon
<1>3. ASSUME \A d \in TreeProps(p) : ~(blob[d].name = name /\ blob[d].val # <<>>)
      PROVE  OwnCells(p, name) = Err
  <2>1. CASE \A d \in TreeProps(p) : blob[d].name # name
    BY <2>1, GetPropIs, Zenon DEF OwnCells
  <2>2. CASE \E d \in TreeProps(p) : blob[d].name = name
    BY <1>1, <1>3, <2>2, Zenon DEF OwnCells
  <2>3. QED
    BY <2>1, <2>2, Zenon
<1>4. QED
  BY <1>2, <1>3, Zenon

\* One level up: the parent's own declaration comes before all others.
LEMMA TreeCellsUp ==
    ASSUME Blob, Words, WellFormed, NEW p \in Nodes, NEW n \in TreeChildren(p),
           NEW name \in CellNames
    PROVE  TreeCells(n, name) = IF OwnCells(p, name) # Err THEN OwnCells(p, name)
                                ELSE TreeCells(p, name)
<1> DEFINE own == {d \in TreeProps(p) : blob[d].name = name /\ blob[d].val # <<>>}
<1>1. TreeAncestors(n) = TreeAncestors(p) \cup {p}
  BY AncestorsUp, Zenon
<1>2. Declared(n, name) = Declared(p, name) \cup own
  BY <1>1, Zenon DEF Declared
<1>3. CASE own = {}
  <2>1. OwnCells(p, name) = Err
    BY <1>3, OwnCellsIs, Zenon
  <2>2. Declared(n, name) = Declared(p, name)
    BY <1>2, <1>3, Zenon
  <2>3. QED
    BY <2>1, <2>2, TreeCellsIs, Zenon
<1>4. CASE own # {}
  <2>1. PICK d \in own : TRUE
    BY <1>4, Zenon
  <2>2. OwnCells(p, name) = blob[d].val[1] /\ OwnCells(p, name) # Err
    BY <2>1, OwnCellsIs, Zenon
  <2>3. own = {d}
    BY <2>1, OneOfAName, Zenon
  <2>4. Level(d) = Level(p) + 1 /\ Level(p) \in Nat /\ d \in DOMAIN blob /\ d \in Nat
    <3>1. d \in DOMAIN blob /\ Level(d) = Level(p) + 1 /\ p \in DOMAIN blob
      BY <2>1, Zenon DEF TreeProps, Props, Nodes
    <3>2. \A x \in DOMAIN blob : x \in Nat
      BY DEF Blob
    <3>3. QED
      BY <3>1, <3>2, Levels, Zenon
  <2>5. ASSUME NEW q \in Declared(p, name) PROVE Level(q) <= Level(d) /\ ~(Level(d) <= Level(q))
    <3>1. PICK a \in TreeAncestors(p) : q \in TreeProps(a)
      BY <2>5, Zenon DEF Declared
    <3>2. a \in Nodes /\ Level(a) < Level(p) /\ Level(q) = Level(a) + 1
      BY <3>1, AncestorsAbove, Zenon DEF TreeProps
    <3>3. Level(a) \in Nat
      BY <3>2, Levels, Places, Zenon
    <3>4. QED
      BY <2>4, <3>2, <3>3
  <2>6. Level(d) <= Level(d)
    BY <2>4
  <2>7. {x \in Declared(n, name) : \A q \in Declared(n, name) : Level(q) <= Level(x)} = {d}
    <3> HIDE DEF own
    <3>1. Declared(n, name) = Declared(p, name) \cup {d}
      BY <1>2, <2>3, Zenon
    <3>2. QED
      BY <2>5, <2>6, <3>1, Zenon
  <2>8. Min({d}) = d
    <3> DEFINE S == {d}
    <3>1. d \in S /\ (\A y \in S : y \in Int) /\ (\A y \in S : d <= y)
      BY <2>4
    <3> HIDE DEF S
    <3>2. Min(S) = d
      BY <3>1, MinIs, Zenon
    <3>3. QED
      BY <3>2, Zenon DEF S
  <2>9. Declared(n, name) # {}
    BY <1>2, <2>1, Zenon
  <2>10. TreeCells(n, name) = blob[d].val[1]
    BY <2>7, <2>8, <2>9, TreeCellsIs, Zenon
  <2>11. QED
    BY <2>2, <2>10, Zenon
<1>5. QED
  BY <1>3, <1>4, Zenon

\* fdt_parent_cells answers what the nearest enclosing node declares.
LEMMA ParentCellsIs ==
    ASSUME Blob, Words, WellFormed, Shallow, NEW n \in Nodes, NEW name \in CellNames
    PROVE  ParentCells(n, name) = TreeCells(n, name)
<1> DEFINE Wrong == {m \in Nodes : ParentCells(m, name) # TreeCells(m, name)}
<1> SUFFICES Wrong = {}
  BY Zenon
<1> SUFFICES ASSUME Wrong # {} PROVE FALSE
  BY Zenon
<1>1. PICK m \in Wrong : \A y \in Wrong : m <= y
  <2>1. \A y \in Wrong : y \in Nat
    BY Places, Zenon
  <2> HIDE DEF Wrong
  <2>2. QED
    BY <2>1, LeastExists, Zenon
<1>2. m \in Nodes /\ ParentCells(m, name) # TreeCells(m, name)
  BY <1>1, Zenon
<1>3. m # 1
  <2> SUFFICES ASSUME m = 1 PROVE FALSE
    BY Zenon
  <2>1. ParentCells(1, name) = 2
    <3>1. Err \in Spots
      BY SpotsAre, Zenon
    <3>2. NearestCells(name)[Err] = 2
      BY <3>1, NearestStep, Zenon
    <3>3. QED
      BY <3>2, RootIsTop, Zenon DEF ParentCells
  <2>2. Declared(1, name) = {}
    BY RootIsTop, Zenon DEF Declared
  <2>3. TreeCells(1, name) = 2
    BY <2>2, TreeCellsIs, Zenon
  <2>4. QED
    BY <1>2, <2>1, <2>3, Zenon
<1>4. PICK p \in Nodes : m \in TreeChildren(p)
  BY <1>2, <1>3, HasParent, Zenon
<1>5. ParentOffset(m) = p
  BY <1>4, ParentIs, Zenon
<1>6. p \in Spots /\ p # Err /\ p < m /\ p \in Nat /\ m \in Nat
  <2>1. p \in DOMAIN blob /\ p \in Nat /\ p < m /\ m \in Nat
    BY <1>4, ChildInside, Places, Zenon
  <2>2. p # Err
    BY <2>1 DEF Err
  <2>3. QED
    BY <2>1, <2>2, Zenon DEF Spots
<1>7. ParentCells(m, name) = IF OwnCells(p, name) # Err THEN OwnCells(p, name)
                             ELSE ParentCells(p, name)
  BY <1>5, <1>6, NearestStep, Zenon DEF ParentCells
<1>8. p \notin Wrong
  <2>1. ~(m <= p)
    BY <1>6
  <2>2. QED
    BY <1>1, <2>1, Zenon
<1>9. ParentCells(p, name) = TreeCells(p, name)
  BY <1>8, Zenon
<1>10. QED
  BY <1>2, <1>4, <1>7, <1>9, TreeCellsUp, Zenon

-----------------------------------------------------------------------------
\* Bus windows.

\* Entry k of a list that holds at least k entries of e cells each lies inside
\* it, with each of its parts.
LEMMA EntryInside ==
    ASSUME NEW L \in Nat, NEW e \in Nat \ {0}, NEW k \in 1 .. L \div e
    PROVE  k \in Nat /\ (k - 1) * e \in Nat /\ (k - 1) * e + e <= L
<1>1. L \div e \in Nat /\ (L \div e) * e <= L
  OBVIOUS
<1>2. k \in Nat /\ k >= 1 /\ k <= L \div e
  BY <1>1
<1>3. \A a, b, c \in Nat : a <= b => a * c <= b * c
  OBVIOUS
<1>4. k * e <= (L \div e) * e
  BY <1>1, <1>2, <1>3
<1>5. (k - 1) * e + e = k * e /\ (k - 1) * e \in Nat /\ k * e \in Nat
  BY <1>2
<1>6. (L \div e) * e \in Nat
  BY <1>1
<1>7. QED
  BY <1>1, <1>2, <1>4, <1>5, <1>6

\* rd_cells inside a list of words.
LEMMA RdCellsType ==
    ASSUME NEW v \in Seq(Word), NEW at \in Nat \ {0}, NEW cells \in Nat \ {0},
           at + cells - 1 <= Len(v)
    PROVE  RdCells(v, at, cells) \in Nat
<1>1. Radix \in Nat
  BY FdtAssumption
<1>2. \A k \in 1 .. Len(v) : v[k] \in Word
  OBVIOUS
<1>3. \A x \in Word : x \in Nat
  BY <1>1 DEF Word
<1>4. Len(v) \in Nat
  OBVIOUS
<1>5. at \in 1 .. Len(v) /\ (cells # 1 => at + 1 \in 1 .. Len(v))
  BY <1>4
<1>6. v[at] \in Nat /\ (cells # 1 => v[at + 1] \in Nat)
  BY <1>2, <1>3, <1>5, Zenon
<1>7. \A a, b, c \in Nat : a * b + c \in Nat
  OBVIOUS
<1>8. QED
  BY <1>1, <1>6, <1>7, Zenon DEF RdCells

LEMMA OrTwoType ==
    ASSUME NEW c \in Nat \cup {Err}
    PROVE  OrTwo(c) \in Nat \ {0}
BY DEF OrTwo, Err

\* A window has three numbers.
LEMMA WindowsType ==
    ASSUME NEW v \in Seq(Word), NEW a \in Nat \ {0}, NEW b \in Nat \ {0}, NEW c \in Nat \ {0},
           NEW k \in DOMAIN Windows(v, a, b, c)
    PROVE  /\ k \in Nat
           /\ Windows(v, a, b, c)[k].child \in Nat
           /\ Windows(v, a, b, c)[k].parent \in Nat
           /\ Windows(v, a, b, c)[k].size \in Nat
<1> DEFINE e == a + b + c
           at == (k - 1) * e + 1
<1>1. /\ k \in 1 .. Len(v) \div e
      /\ Windows(v, a, b, c)[k] = [child  |-> RdCells(v, at, a),
                                   parent |-> RdCells(v, at + a, b),
                                   size   |-> RdCells(v, at + a + b, c)]
  BY Zenon DEF Windows
<1>2. Len(v) \in Nat /\ e \in Nat \ {0}
  OBVIOUS
<1> HIDE DEF e
<1>3. k \in Nat /\ (k - 1) * e \in Nat /\ (k - 1) * e + e <= Len(v)
  BY <1>1, <1>2, EntryInside, Zenon
<1> DEFINE x == (k - 1) * e
<1>4. x \in Nat /\ x + (a + b + c) <= Len(v) /\ at = x + 1
  BY <1>3 DEF e
<1> HIDE DEF x, at
<1>5. /\ at \in Nat \ {0} /\ at + a - 1 <= Len(v)
      /\ at + a \in Nat \ {0} /\ at + a + b - 1 <= Len(v)
      /\ at + a + b \in Nat \ {0} /\ at + a + b + c - 1 <= Len(v)
  BY <1>2, <1>4
<1>6. RdCells(v, at, a) \in Nat /\ RdCells(v, at + a, b) \in Nat /\ RdCells(v, at + a + b, c) \in Nat
  BY <1>5, RdCellsType, Zenon
<1>7. QED
  BY <1>1, <1>3, <1>6

\* One bus answers a number for a number, whatever the blob.
LEMMA TranslateType ==
    ASSUME Blob, Words, NEW cur \in Int, NEW base \in Int
    PROVE  Translate(cur, base) \in Int
<1> DEFINE v == Value(cur, "ranges")
           a == OrTwo(OwnCells(cur, "#address-cells"))
           b == OrTwo(ParentCells(cur, "#address-cells"))
           c == OrTwo(OwnCells(cur, "#size-cells"))
           w == Windows(v, a, b, c)
           hits == {k \in DOMAIN w : /\ base >= w[k].child
                                     /\ base < (w[k].child + w[k].size) % (Radix * Radix)}
<1>1. CASE GetProp(cur, "ranges") = Err \/ Value(cur, "ranges") = <<>>
  BY <1>1, Zenon DEF Translate
<1>2. CASE ~(GetProp(cur, "ranges") = Err \/ Value(cur, "ranges") = <<>>)
  <2>1. Translate(cur, base) = IF hits = {} THEN Err
             ELSE (w[Min(hits)].parent + (base - w[Min(hits)].child)) % (Radix * Radix)
    BY <1>2, Zenon DEF Translate
  <2>2. "ranges" \notin {"compatible", "status"} /\ {"#address-cells", "#size-cells"} \subseteq CellNames
    BY DEF CellNames
  <2>3. v \in Seq(Word)
    BY <1>2, <2>2, ValueIs, Zenon
  <2>4. a \in Nat \ {0} /\ b \in Nat \ {0} /\ c \in Nat \ {0}
    BY <2>2, CellsAreWords, ParentCellsType, OrTwoType, Zenon
  <2> HIDE DEF v, a, b, c
  <2>5. \A k \in DOMAIN w : k \in Nat /\ w[k].child \in Nat /\ w[k].parent \in Nat
    BY <2>3, <2>4, WindowsType, Zenon
  <2> HIDE DEF w
  <2>6. CASE hits # {}
    <3>1. Min(hits) \in hits
      <4>1. \A k \in hits : k \in Nat
        BY <2>5, Zenon
      <4> HIDE DEF hits
      <4>2. QED
        BY <2>6, <4>1, MinLeast, Zenon
    <3>2. w[Min(hits)].child \in Nat /\ w[Min(hits)].parent \in Nat
      BY <2>5, <3>1, Zenon
    <3>3. Radix * Radix \in Nat \ {0}
      BY FdtAssumption
    <3>4. \A x \in Int : \A r \in Nat \ {0} : x % r \in Int
      OBVIOUS
    <3>5. \A x, y \in Nat : x + (base - y) \in Int
      OBVIOUS
    <3>6. QED
      BY <2>1, <2>6, <3>2, <3>3, <3>4, <3>5, Zenon
  <2>7. Err \in Int
    BY DEF Err
  <2>8. QED
    BY <2>1, <2>6, <2>7, Zenon
<1>3. QED
  BY <1>1, <1>2, Zenon

\* One round of the loop of fdt_reg_to_cpu_addr.
LEMMA UpStep ==
    ASSUME Blob, Words, NEW cur \in Spots, NEW base \in Int
    PROVE  UpBuses[cur][base] = IF base = Err \/ ParentOffset(cur) = Err THEN base
                                ELSE UpBuses[ParentOffset(cur)][Translate(cur, base)]
<1> DEFINE Body(f, x, d) == IF d = Err \/ ParentOffset(x) = Err THEN d
                            ELSE f[ParentOffset(x)][Translate(x, d)]
           D == Spots \X Int
           stop == {y \in D : y[2] = Err \/ ParentOffset(y[1]) = Err}
           val == [y \in D |-> y[2]]
           to == [y \in D |-> ParentOffset(y[1])]
           nxt == [y \in D |-> Translate(y[1], y[2])]
           rank == [y \in D |-> y[1] + 1]
<1>1. ASSUME NEW x \in Spots, NEW d \in Int
      PROVE  /\ <<x, d>> \in stop <=> (d = Err \/ ParentOffset(x) = Err)
             /\ val[<<x, d>>] = d
             /\ to[<<x, d>>] = ParentOffset(x)
             /\ nxt[<<x, d>>] = Translate(x, d)
             /\ rank[<<x, d>>] = x + 1
  <2>1. <<x, d>> \in D /\ <<x, d>>[1] = x /\ <<x, d>>[2] = d
    BY SMT
  <2> HIDE DEF D
  <2>2. QED
    BY <2>1, Zenon
<1> HIDE DEF stop, val, to, nxt, rank
<1>2. \A x \in Spots : \A d \in Int : rank[<<x, d>>] \in 0 .. Len(blob) + 1
  BY <1>1, SpotsAre, Zenon
<1>3. ASSUME NEW x \in Spots, NEW d \in Int, <<x, d>> \notin stop
      PROVE  /\ to[<<x, d>>] \in Spots /\ nxt[<<x, d>>] \in Int
             /\ rank[<<to[<<x, d>>], nxt[<<x, d>>]>>] < rank[<<x, d>>]
  <2> DEFINE p == ParentOffset(x)
             t == Translate(x, d)
  <2>1. x \in Int /\ p \in Spots /\ p \in Int /\ p < x
    BY <1>1, <1>3, SpotsAre, Zenon
  <2>2. t \in Int
    BY <2>1, TranslateType, Zenon
  <2>3. to[<<x, d>>] = p /\ nxt[<<x, d>>] = t /\ rank[<<x, d>>] = x + 1
    BY <1>1, Zenon
  <2> HIDE DEF p, t
  <2>4. rank[<<p, t>>] = p + 1
    BY <1>1, <2>1, <2>2, Zenon
  <2>5. p + 1 < x + 1
    BY <2>1
  <2>6. QED
    BY <2>1, <2>2, <2>3, <2>4, <2>5, Zenon
<1>4. PICK g : Rounds2(g, Spots, Int, stop, val, to, nxt)
  <2>1. Len(blob) + 1 \in Nat
    BY SpotsAre
  <2>2. \A x \in Spots : \A d \in Int : <<x, d>> \notin stop =>
           /\ to[<<x, d>>] \in Spots /\ nxt[<<x, d>>] \in Int
           /\ rank[<<to[<<x, d>>], nxt[<<x, d>>]>>] < rank[<<x, d>>]
    BY <1>3, Zenon
  <2>3. QED
    BY <1>2, <2>1, <2>2, Rounds2Exist, ZenonT(40)
<1>5. g = [x \in Spots |-> [d \in Int |-> Body(g, x, d)]]
  <2>1. g = [x \in Spots |-> [d \in Int |-> IF <<x, d>> \in stop THEN val[<<x, d>>]
                                           ELSE g[to[<<x, d>>]][nxt[<<x, d>>]]]]
    BY <1>4, Zenon DEF Rounds2
  <2>2. ASSUME NEW x \in Spots, NEW d \in Int
        PROVE  (IF <<x, d>> \in stop THEN val[<<x, d>>] ELSE g[to[<<x, d>>]][nxt[<<x, d>>]])
                  = Body(g, x, d)
    BY <1>1, Zenon
  <2> HIDE DEF Body
  <2>3. ASSUME NEW x \in Spots
        PROVE  [d \in Int |-> IF <<x, d>> \in stop THEN val[<<x, d>>]
                              ELSE g[to[<<x, d>>]][nxt[<<x, d>>]]] = [d \in Int |-> Body(g, x, d)]
    BY <2>2, Zenon
  <2>4. [x \in Spots |-> [d \in Int |-> IF <<x, d>> \in stop THEN val[<<x, d>>]
                                       ELSE g[to[<<x, d>>]][nxt[<<x, d>>]]]]
           = [x \in Spots |-> [d \in Int |-> Body(g, x, d)]]
    BY <2>3, Zenon
  <2>5. QED
    BY <2>1, <2>4, Zenon
<1>6. UpBuses = CHOOSE f : f = [x \in Spots |-> [d \in Int |-> Body(f, x, d)]]
  BY Zenon DEF UpBuses
<1> HIDE DEF Body
<1>7. UpBuses = [x \in Spots |-> [d \in Int |-> Body(UpBuses, x, d)]]
  BY <1>5, <1>6, Zenon
<1>8. UpBuses[cur] = [d \in Int |-> Body(UpBuses, cur, d)]
  BY <1>7, ZenonT(40)
<1>9. UpBuses[cur][base] = Body(UpBuses, cur, base)
  BY <1>8, Zenon
<1>10. QED
  BY <1>9, Zenon DEF Body

\* The windows of a bus are numbers.
LEMMA BusWindowsType ==
    ASSUME Blob, Words, WellFormed, Shallow, NEW b \in Nodes, HasWindows(b)
    PROVE  /\ ParentCells(b, "#address-cells") = TreeCells(b, "#address-cells")
           /\ \A k \in DOMAIN BusWindows(b) :
                 /\ k \in Nat /\ BusWindows(b)[k].child \in Nat
                 /\ BusWindows(b)[k].parent \in Nat /\ BusWindows(b)[k].size \in Nat
<1> DEFINE v == Value(b, "ranges")
           x == OrTwo(OwnCells(b, "#address-cells"))
           y == OrTwo(TreeCells(b, "#address-cells"))
           z == OrTwo(OwnCells(b, "#size-cells"))
<1>1. {"#address-cells", "#size-cells"} \subseteq CellNames /\ "ranges" \notin {"compatible", "status"}
  BY DEF CellNames
<1>2. b \in Int
  <2>1. b \in Nat
    BY Places, Zenon
  <2>2. QED
    BY <2>1
<1>3. ParentCells(b, "#address-cells") = TreeCells(b, "#address-cells")
  BY <1>1, ParentCellsIs, Zenon
<1>4. v \in Seq(Word)
  BY <1>1, ValueIs, Zenon DEF HasWindows
<1>5. x \in Nat \ {0} /\ y \in Nat \ {0} /\ z \in Nat \ {0}
  BY <1>1, <1>2, <1>3, CellsAreWords, ParentCellsType, OrTwoType, Zenon
<1>6. BusWindows(b) = Windows(v, x, y, z)
  BY Zenon DEF BusWindows
<1> HIDE DEF v, x, y, z
<1>7. QED
  BY <1>3, <1>4, <1>5, <1>6, WindowsType, Zenon

\* An address that leaves a bus is a number.
LEMMA OutwardType ==
    ASSUME Blob, Words, WellFormed, Shallow, NEW b \in Nodes, NEW base \in Int
    PROVE  Outward(b, base) \in Int
<1> DEFINE w == BusWindows(b)
           near == {k \in DOMAIN w : base - w[k].child \in 0 .. w[k].size - 1}
<1>1. CASE ~HasWindows(b)
  BY <1>1, Zenon DEF Outward
<1>2. CASE HasWindows(b)
  <2>1. Outward(b, base) = IF near = {} THEN Err
                           ELSE w[Min(near)].parent + (base - w[Min(near)].child)
    BY <1>2, Zenon DEF Outward, Through
  <2>2. \A k \in DOMAIN w : k \in Nat /\ w[k].child \in Nat /\ w[k].parent \in Nat
    BY <1>2, BusWindowsType, Zenon
  <2> HIDE DEF w
  <2>3. CASE near # {}
    <3>1. Min(near) \in near
      <4>1. \A k \in near : k \in Nat
        BY <2>2, Zenon
      <4> HIDE DEF near
      <4>2. QED
        BY <2>3, <4>1, MinLeast, Zenon
    <3>2. w[Min(near)].child \in Nat /\ w[Min(near)].parent \in Nat
      BY <2>2, <3>1, Zenon
    <3>3. \A x, y \in Nat : x + (base - y) \in Int
      OBVIOUS
    <3>4. QED
      BY <2>1, <2>3, <3>2, <3>3, Zenon
  <2>4. Err \in Int
    BY DEF Err
  <2>5. QED
    BY <2>1, <2>3, <2>4, Zenon
<1>3. QED
  BY <1>1, <1>2, Zenon

\* One bus further out.
LEMMA AtRootStep ==
    ASSUME Blob, Words, WellFormed, Shallow, NEW b \in Nodes, NEW base \in Int
    PROVE  AtRoot[b][base] = IF b = 1 \/ base = Err THEN base
                             ELSE AtRoot[TreeParent(b)][Outward(b, base)]
<1> DEFINE Body(f, x, d) == IF x = 1 \/ d = Err THEN d
                            ELSE f[TreeParent(x)][Outward(x, d)]
           D == Nodes \X Int
           stop == {y \in D : y[1] = 1 \/ y[2] = Err}
           val == [y \in D |-> y[2]]
           to == [y \in D |-> TreeParent(y[1])]
           nxt == [y \in D |-> Outward(y[1], y[2])]
           rank == [y \in D |-> y[1]]
<1>1. ASSUME NEW x \in Nodes, NEW d \in Int
      PROVE  /\ <<x, d>> \in stop <=> (x = 1 \/ d = Err)
             /\ val[<<x, d>>] = d
             /\ to[<<x, d>>] = TreeParent(x)
             /\ nxt[<<x, d>>] = Outward(x, d)
             /\ rank[<<x, d>>] = x
  <2>1. <<x, d>> \in D /\ <<x, d>>[1] = x /\ <<x, d>>[2] = d
    BY SMT
  <2> HIDE DEF D
  <2>2. QED
    BY <2>1, Zenon
<1> HIDE DEF stop, val, to, nxt, rank
<1>2. ASSUME NEW x \in Nodes, NEW d \in Int PROVE rank[<<x, d>>] \in 0 .. Len(blob)
  <2>1. x \in Nat /\ Len(blob) \in Nat /\ x < Len(blob)
    BY Places, Zenon
  <2>2. x \in 0 .. Len(blob)
    BY <2>1
  <2>3. QED
    BY <1>1, <2>2, Zenon
<1>3. ASSUME NEW x \in Nodes, NEW d \in Int, <<x, d>> \notin stop
      PROVE  /\ to[<<x, d>>] \in Nodes /\ nxt[<<x, d>>] \in Int
             /\ rank[<<to[<<x, d>>], nxt[<<x, d>>]>>] < rank[<<x, d>>]
  <2> DEFINE t == Outward(x, d)
  <2>1. x # 1
    BY <1>1, <1>3, Zenon
  <2>2. PICK p \in Nodes : x \in TreeChildren(p)
    BY <2>1, HasParent, Zenon
  <2>3. TreeParent(x) = p /\ p < x
    BY <2>2, TreeParentIs, ChildInside, Zenon
  <2>4. t \in Int
    BY OutwardType, Zenon
  <2>5. to[<<x, d>>] = p /\ nxt[<<x, d>>] = t /\ rank[<<x, d>>] = x
    BY <1>1, <2>3, Zenon
  <2> HIDE DEF t
  <2>6. rank[<<p, t>>] = p
    BY <1>1, <2>4, Zenon
  <2>7. QED
    BY <2>3, <2>4, <2>5, <2>6, Zenon
<1>4. PICK g : Rounds2(g, Nodes, Int, stop, val, to, nxt)
  <2>1. Len(blob) \in Nat
    BY Places, Zenon
  <2>2. \A x \in Nodes : \A d \in Int : rank[<<x, d>>] \in 0 .. Len(blob)
    BY <1>2, Zenon
  <2>3. \A x \in Nodes : \A d \in Int : <<x, d>> \notin stop =>
           /\ to[<<x, d>>] \in Nodes /\ nxt[<<x, d>>] \in Int
           /\ rank[<<to[<<x, d>>], nxt[<<x, d>>]>>] < rank[<<x, d>>]
    BY <1>3, Zenon
  <2>4. QED
    BY <2>1, <2>2, <2>3, Rounds2Exist, ZenonT(40)
<1>5. g = [x \in Nodes |-> [d \in Int |-> Body(g, x, d)]]
  <2>1. g = [x \in Nodes |-> [d \in Int |-> IF <<x, d>> \in stop THEN val[<<x, d>>]
                                           ELSE g[to[<<x, d>>]][nxt[<<x, d>>]]]]
    BY <1>4, Zenon DEF Rounds2
  <2>2. ASSUME NEW x \in Nodes, NEW d \in Int
        PROVE  (IF <<x, d>> \in stop THEN val[<<x, d>>] ELSE g[to[<<x, d>>]][nxt[<<x, d>>]])
                  = Body(g, x, d)
    BY <1>1, Zenon
  <2> HIDE DEF Body
  <2>3. ASSUME NEW x \in Nodes
        PROVE  [d \in Int |-> IF <<x, d>> \in stop THEN val[<<x, d>>]
                              ELSE g[to[<<x, d>>]][nxt[<<x, d>>]]] = [d \in Int |-> Body(g, x, d)]
    BY <2>2, Zenon
  <2>4. [x \in Nodes |-> [d \in Int |-> IF <<x, d>> \in stop THEN val[<<x, d>>]
                                       ELSE g[to[<<x, d>>]][nxt[<<x, d>>]]]]
           = [x \in Nodes |-> [d \in Int |-> Body(g, x, d)]]
    BY <2>3, Zenon
  <2>5. QED
    BY <2>1, <2>4, Zenon
<1>6. AtRoot = CHOOSE f : f = [x \in Nodes |-> [d \in Int |-> Body(f, x, d)]]
  BY Zenon DEF AtRoot
<1> HIDE DEF Body
<1>7. AtRoot = [x \in Nodes |-> [d \in Int |-> Body(AtRoot, x, d)]]
  BY <1>5, <1>6, Zenon
<1>8. AtRoot[b] = [d \in Int |-> Body(AtRoot, b, d)]
  BY <1>7, ZenonT(40)
<1>9. AtRoot[b][base] = Body(AtRoot, b, base)
  BY <1>8, Zenon
<1>10. QED
  BY <1>9, Zenon DEF Body

\* What a bus makes of an address, when no window wraps.
LEMMA TranslateIs ==
    ASSUME Blob, Words, WellFormed, Shallow, NEW bus \in Nodes, PlainBus(bus), NEW base \in Nat
    PROVE  Translate(bus, base) = Outward(bus, base) /\ Outward(bus, base) \in Nat \cup {Err}
<1> DEFINE w == BusWindows(bus)
           near == {k \in DOMAIN w : base - w[k].child \in 0 .. w[k].size - 1}
           hits == {k \in DOMAIN w : /\ base >= w[k].child
                                     /\ base < (w[k].child + w[k].size) % (Radix * Radix)}
           M == Radix * Radix
<1>1. CASE ~HasWindows(bus)
  BY <1>1, Zenon DEF HasWindows, Outward, Translate
<1>2. CASE HasWindows(bus)
  <2>1. \A k \in DOMAIN w : w[k].child + w[k].size < M /\ w[k].parent + w[k].size <= M
    BY <1>2, Zenon DEF PlainBus, BelowTop
  <2>2. /\ ParentCells(bus, "#address-cells") = TreeCells(bus, "#address-cells")
        /\ \A k \in DOMAIN w :
              k \in Nat /\ w[k].child \in Nat /\ w[k].parent \in Nat /\ w[k].size \in Nat
    BY <1>2, BusWindowsType, Zenon
  <2>3. Translate(bus, base) = IF hits = {} THEN Err
             ELSE (w[Min(hits)].parent + (base - w[Min(hits)].child)) % M
    BY <1>2, <2>2, Zenon DEF HasWindows, Translate, BusWindows
  <2>4. Outward(bus, base) = IF near = {} THEN Err
             ELSE w[Min(near)].parent + (base - w[Min(near)].child)
    BY <1>2, Zenon DEF Outward, Through
  <2>5. M \in Nat
    BY FdtAssumption
  <2>6. ASSUME NEW x \in Nat, NEW y \in Nat, x + y < M
        PROVE  (base >= x /\ base < (x + y) % M) <=> base - x \in 0 .. y - 1
    <3>1. (x + y) % M = x + y
      <4>1. x + y \in Nat
        OBVIOUS
      <4>2. QED
        BY <2>5, <2>6, <4>1, NoWrap, Zenon
    <3> HIDE DEF M
    <3>2. (base >= x /\ base < x + y) <=> base - x \in 0 .. y - 1
      OBVIOUS
    <3>3. QED
      BY <3>1, <3>2, Zenon
  <2>7. hits = near
    <3>1. \A k \in DOMAIN w : (base >= w[k].child /\ base < (w[k].child + w[k].size) % M)
                                 <=> base - w[k].child \in 0 .. w[k].size - 1
      BY <2>1, <2>2, <2>6, Zenon
    <3> HIDE DEF w
    <3>2. QED
      BY <3>1, Zenon
  <2>8. CASE hits = {}
    BY <2>3, <2>4, <2>7, <2>8, Zenon
  <2>9. CASE hits # {}
    <3> DEFINE k == Min(hits)
    <3>1. k \in hits
      <4>1. \A j \in hits : j \in Nat
        BY <2>2, Zenon
      <4> HIDE DEF hits
      <4>2. QED
        BY <2>9, <4>1, MinLeast, Zenon
    <3>2. k \in DOMAIN w /\ base - w[k].child \in 0 .. w[k].size - 1
      BY <2>7, <3>1, Zenon
    <3> DEFINE x == w[k].child
               y == w[k].parent
               z == w[k].size
    <3>3. x \in Nat /\ y \in Nat /\ z \in Nat /\ y + z <= M /\ base - x \in 0 .. z - 1
      BY <2>1, <2>2, <3>2, Zenon
    <3>4. Translate(bus, base) = (y + (base - x)) % M /\ Outward(bus, base) = y + (base - x)
      BY <2>3, <2>4, <2>7, <2>9, Zenon
    <3> HIDE DEF x, y, z, M
    <3>5. y + (base - x) \in Nat /\ y + (base - x) < M
      BY <2>5, <3>3
    <3>6. (y + (base - x)) % M = y + (base - x)
      BY <2>5, <3>5, NoWrap, Zenon
    <3>7. QED
      BY <3>4, <3>5, <3>6, Zenon
  <2>10. QED
    BY <2>8, <2>9, Zenon
<1>3. QED
  BY <1>1, <1>2, Zenon

\* The loop of fdt_reg_to_cpu_addr goes out through the same buses.
LEMMA UpIs ==
    ASSUME Blob, Words, WellFormed, Shallow
    PROVE  \A b \in Nodes : (\A a \in (TreeAncestors(b) \cup {b}) \ {1} : PlainBus(a)) =>
              \A base \in Nat \cup {Err} : UpBuses[b][base] = AtRoot[b][base]
<1> DEFINE Good(b) == (\A a \in (TreeAncestors(b) \cup {b}) \ {1} : PlainBus(a)) =>
              \A base \in Nat \cup {Err} : UpBuses[b][base] = AtRoot[b][base]
           Wrong == {b \in Nodes : ~Good(b)}
<1> SUFFICES ASSUME Wrong # {} PROVE FALSE
  BY Zenon
<1>1. \A b \in Nodes : b \in Nat /\ b \in Spots /\ b # Err
  <2>1. \A b \in Nodes : b \in Nat /\ b \in DOMAIN blob
    BY Places, Zenon
  <2>2. \A b \in Nat : b # Err
    BY DEF Err
  <2>3. QED
    BY <2>1, <2>2, Zenon DEF Spots
<1>2. PICK b \in Wrong : \A y \in Wrong : b <= y
  <2>1. \A y \in Wrong : y \in Nat
    BY <1>1, Zenon
  <2> HIDE DEF Wrong
  <2>2. QED
    BY <2>1, LeastExists, Zenon
<1>3. PICK base \in Nat \cup {Err} : UpBuses[b][base] # AtRoot[b][base]
  BY <1>2, Zenon
<1>4. b \in Nodes /\ \A a \in (TreeAncestors(b) \cup {b}) \ {1} : PlainBus(a)
  BY <1>2, Zenon
<1> HIDE DEF Wrong, Good
<1>5. base \in Int /\ Err \in Int
  BY <1>3 DEF Err
<1>6. UpBuses[b][base] = IF base = Err \/ ParentOffset(b) = Err THEN base
                         ELSE UpBuses[ParentOffset(b)][Translate(b, base)]
  BY <1>1, <1>4, <1>5, UpStep, Zenon
<1>7. AtRoot[b][base] = IF b = 1 \/ base = Err THEN base
                        ELSE AtRoot[TreeParent(b)][Outward(b, base)]
  BY <1>4, <1>5, AtRootStep, Zenon
<1>8. b # 1 /\ base # Err
  BY <1>3, <1>6, <1>7, RootIsTop, Zenon
<1>9. PICK p \in Nodes : b \in TreeChildren(p)
  BY <1>4, <1>8, HasParent, Zenon
<1>10. ParentOffset(b) = p /\ TreeParent(b) = p /\ p < b /\ TreeAncestors(b) = TreeAncestors(p) \cup {p}
  BY <1>9, ParentIs, TreeParentIs, ChildInside, AncestorsUp, Zenon
<1>11. base \in Nat /\ PlainBus(b)
  BY <1>3, <1>4, <1>8, Zenon
<1>12. Translate(b, base) = Outward(b, base) /\ Outward(b, base) \in Nat \cup {Err}
  BY <1>4, <1>11, TranslateIs, Zenon
<1>13. p \notin Wrong
  <2>1. p \in Nat /\ b \in Nat
    BY <1>1, <1>4, <1>9, Zenon
  <2>2. ~(b <= p)
    BY <1>10, <2>1
  <2>3. QED
    BY <1>2, <2>2, Zenon
<1>14. UpBuses[p][Outward(b, base)] = AtRoot[p][Outward(b, base)]
  BY <1>4, <1>9, <1>10, <1>12, <1>13, Zenon DEF Wrong, Good
<1>15. QED
  BY <1>1, <1>3, <1>6, <1>7, <1>8, <1>9, <1>10, <1>12, <1>14, Zenon

\* The address of a register at any depth.
LEMMA RegIs ==
    ASSUME Blob, Words, WellFormed, Shallow, NEW n \in Nodes, OnBuses(n)
    PROVE  RegToCpuAddr(n, 0) = TreeAddress(n)
<1> DEFINE ac == TreeCells(n, "#address-cells")
           sc == TreeCells(n, "#size-cells")
           v == Value(n, "reg")
           base == RdCells(v, 1, ac)
<1>1. /\ n # 1 /\ ac # 0 /\ Len(v) >= ac + sc
      /\ GetProp(n, "reg") # Err /\ GetProp(n, "ranges") = Err
      /\ \A b \in TreeAncestors(n) \ {1} : PlainBus(b)
  BY Zenon DEF OnBuses
<1>2. PICK bus \in Nodes : n \in TreeChildren(bus)
  BY <1>1, HasParent, Zenon
<1>3. ParentOffset(n) = bus /\ TreeParent(n) = bus /\ TreeAncestors(n) = TreeAncestors(bus) \cup {bus}
  BY <1>2, ParentIs, TreeParentIs, AncestorsUp, Zenon
<1>4. n \in Nat /\ n \in Spots /\ bus # Err
  <2>1. \A i \in Nodes : i \in Nat /\ i \in DOMAIN blob
    BY Places, Zenon
  <2>2. \A i \in Nat : i # Err
    BY DEF Err
  <2>3. QED
    BY <1>2, <2>1, <2>2, Zenon DEF Spots
<1>5. \A i \in Nat : i \in Int /\ i # Err
  BY DEF Err
<1>6. /\ {"#address-cells", "#size-cells"} \subseteq CellNames /\ "reg" \notin {"compatible", "status"}
  BY DEF CellNames
<1>7. /\ ParentCells(n, "#address-cells") = ac /\ ParentCells(n, "#size-cells") = sc
      /\ ac \in Nat /\ sc \in Nat
  BY <1>4, <1>5, <1>6, ParentCellsIs, ParentCellsType, Zenon
<1>8. v \in Seq(Word)
  BY <1>1, <1>6, ValueIs, Zenon
<1>9. base \in Nat
  <2> HIDE DEF ac, sc, v
  <2>1. ac \in Nat \ {0} /\ 1 \in Nat \ {0} /\ 1 + ac - 1 <= Len(v)
    BY <1>1, <1>7, <1>8
  <2>2. QED
    BY <1>8, <2>1, RdCellsType, Zenon
<1>10. RegEntry(v, ac, sc, 0).base = base
  <2>1. RegEntry(v, ac, sc, 0).base = RdCells(v, 0 * (ac + sc) + 1, ac)
    BY DEF RegEntry
  <2> HIDE DEF ac, sc
  <2>2. 0 * (ac + sc) + 1 = 1
    BY <1>7
  <2>3. QED
    BY <2>1, <2>2, Zenon DEF ac, sc
<1>11. RegToCpuAddr(n, 0) = UpBuses[n][base]
  <2>1. ~((0 + 1) * (ac + sc) > Len(v))
    <3> HIDE DEF ac, sc, v
    <3>1. QED
      BY <1>1, <1>7, <1>8
  <2>2. QED
    BY <1>1, <1>7, <1>10, <2>1, Zenon DEF RegToCpuAddr
<1>12. TreeAddress(n) = AtRoot[bus][base]
  BY <1>3, Zenon DEF TreeAddress
<1>13. Translate(n, base) = base
  BY <1>1, Zenon DEF Translate
<1> HIDE DEF base
<1>14. UpBuses[n][base] = IF base = Err \/ ParentOffset(n) = Err THEN base
                          ELSE UpBuses[ParentOffset(n)][Translate(n, base)]
  BY <1>4, <1>5, <1>9, UpStep, Zenon
<1>15. UpBuses[n][base] = UpBuses[bus][base]
  BY <1>3, <1>4, <1>5, <1>9, <1>13, <1>14, Zenon
<1>16. UpBuses[bus][base] = AtRoot[bus][base]
  BY <1>1, <1>2, <1>3, <1>9, UpIs, Zenon
<1>17. QED
  BY <1>11, <1>12, <1>15, <1>16, Zenon

-----------------------------------------------------------------------------
\* The status of a node.

\* fdt_is_enabled, of a status that is text and does not go on after "okay".
LEMMA StatusIs ==
    ASSUME NEW st \in Seq(STRING), IsText(st), ~Overlong(st)
    PROVE  (\/ st = <<>>
            \/ Len(st) >= 5 /\ SubSeq(st, 1, 4) = <<"o", "k", "a", "y">>
            \/ Len(st) >= 3 /\ SubSeq(st, 1, 2) = <<"o", "k">> /\ (st[3] = NUL \/ Len(st) = 3))
           <=> st \in Okay
<1>1. Len(st) \in Nat /\ DOMAIN st = 1 .. Len(st)
  OBVIOUS
<1>2. st # <<>>
  BY Zenon DEF IsText
<1>3. ASSUME Len(st) >= 3, SubSeq(st, 1, 2) = <<"o", "k">>, st[3] = NUL \/ Len(st) = 3
      PROVE  st = <<"o", "k", NUL>>
  <2>1. 3 \in DOMAIN st
    BY <1>1, <1>3
  <2>2. st[3] = NUL /\ Len(st) = 3
    BY <1>3, <2>1, Zenon DEF IsText
  <2>3. st[1] = "o" /\ st[2] = "k"
    <3>1. SubSeq(st, 1, 2)[1] = st[1] /\ SubSeq(st, 1, 2)[2] = st[2]
      BY <2>2
    <3>2. <<"o", "k">>[1] = "o" /\ <<"o", "k">>[2] = "k"
      OBVIOUS
    <3>3. QED
      BY <1>3, <3>1, <3>2, Zenon
  <2>4. QED
    BY <2>2, <2>3
<1>4. ASSUME st = <<"o", "k", NUL>>
      PROVE  Len(st) >= 3 /\ SubSeq(st, 1, 2) = <<"o", "k">> /\ Len(st) = 3
  <2>1. Len(st) = 3 /\ st[1] = "o" /\ st[2] = "k"
    BY <1>4
  <2> DEFINE s == SubSeq(st, 1, 2)
  <2>2. s \in Seq(STRING) /\ Len(s) = 2 /\ s[1] = st[1] /\ s[2] = st[2]
    BY <2>1
  <2> HIDE DEF s
  <2>3. s = <<"o", "k">>
    BY <2>1, <2>2
  <2>4. QED
    BY <2>1, <2>3 DEF s
<1>5. ASSUME Len(st) >= 5, SubSeq(st, 1, 4) = <<"o", "k", "a", "y">>
      PROVE  st = <<"o", "k", "a", "y", NUL>>
  <2>1. Len(st) = 5 /\ 5 \in DOMAIN st
    <3>1. ~(Len(st) > 5)
      BY <1>5, Zenon DEF Overlong
    <3>2. QED
      BY <1>1, <1>5, <3>1
  <2>2. st[5] = NUL
    BY <2>1, Zenon DEF IsText
  <2>3. st[1] = "o" /\ st[2] = "k" /\ st[3] = "a" /\ st[4] = "y"
    <3> DEFINE s == SubSeq(st, 1, 4)
    <3>1. s[1] = st[1] /\ s[2] = st[2] /\ s[3] = st[3] /\ s[4] = st[4]
      BY <2>1
    <3> HIDE DEF s
    <3> DEFINE u == <<"o", "k", "a", "y">>
    <3>2. u[1] = "o" /\ u[2] = "k" /\ u[3] = "a" /\ u[4] = "y"
      OBVIOUS
    <3>3. s = u
      BY <1>5, Zenon DEF s
    <3> HIDE DEF u
    <3>4. QED
      BY <3>1, <3>2, <3>3, Zenon
  <2>4. QED
    BY <2>1, <2>2, <2>3
<1>6. ASSUME st = <<"o", "k", "a", "y", NUL>>
      PROVE  Len(st) >= 5 /\ SubSeq(st, 1, 4) = <<"o", "k", "a", "y">>
  <2>1. Len(st) = 5 /\ st[1] = "o" /\ st[2] = "k" /\ st[3] = "a" /\ st[4] = "y"
    BY <1>6
  <2> DEFINE s == SubSeq(st, 1, 4)
  <2>2. /\ s \in Seq(STRING) /\ Len(s) = 4
        /\ s[1] = st[1] /\ s[2] = st[2] /\ s[3] = st[3] /\ s[4] = st[4]
    BY <2>1
  <2> HIDE DEF s
  <2>3. s = <<"o", "k", "a", "y">>
    BY <2>1, <2>2
  <2>4. QED
    BY <2>1, <2>3 DEF s
<1>7. QED
  BY <1>2, <1>3, <1>4, <1>5, <1>6, Zenon DEF Okay

LEMMA EnabledIs ==
    ASSUME Blob, Words, WellFormed, NEW n \in Nodes,
           \A st \in TreeStatus(n) : IsText(st) /\ ~Overlong(st)
    PROVE  IsEnabled(n) <=> TreeStatus(n) \subseteq Okay
<1>1. CASE \A p \in TreeProps(n) : blob[p].name # "status"
  <2>1. GetProp(n, "status") = Err /\ TreeStatus(n) = {}
    BY <1>1, GetPropIs, Zenon DEF TreeStatus
  <2>2. QED
    BY <2>1, Zenon DEF IsEnabled
<1>2. CASE \E p \in TreeProps(n) : blob[p].name = "status"
  <2>1. PICK p \in TreeProps(n) : blob[p].name = "status"
    BY <1>2, Zenon
  <2>2. GetProp(n, "status") = p /\ p # Err
    BY <2>1, GetPropIs, Zenon
  <2>3. \A q \in TreeProps(n) : blob[q].name = "status" => q = p
    BY <2>1, OneOfAName, Zenon
  <2> DEFINE st == Value(n, "status")
  <2>4. TreeStatus(n) = {st}
    BY <2>1, <2>2, <2>3, Zenon DEF TreeStatus, Value
  <2>5. st \in Seq(STRING) /\ IsText(st) /\ ~Overlong(st)
    BY <2>2, <2>4, ValueIs, Zenon
  <2>6. IsEnabled(n) <=>
            \/ st = <<>>
            \/ Len(st) >= 5 /\ SubSeq(st, 1, 4) = <<"o", "k", "a", "y">>
            \/ Len(st) >= 3 /\ SubSeq(st, 1, 2) = <<"o", "k">> /\ (st[3] = NUL \/ Len(st) = 3)
    BY <2>2, Zenon DEF IsEnabled
  <2> HIDE DEF st
  <2>7. IsEnabled(n) <=> st \in Okay
    BY <2>5, <2>6, StatusIs, Zenon
  <2>8. QED
    BY <2>4, <2>7, Zenon
<1>3. QED
  BY <1>1, <1>2, Zenon

LEMMA NewBase ==
    ASSUME NEW d, NEW c, NEW x
    PROVE  [[base |-> d, cadence |-> c] EXCEPT !.base = x] = [base |-> x, cadence |-> c]
OBVIOUS

-----------------------------------------------------------------------------
\* Siblings and paths.

\* How far it is from an item to the end of the block.
Left(x) == IF x = Err THEN 0 ELSE Len(blob) + 1 - x

\* On any blob fdt_first_child and fdt_next_sibling lead on, or nowhere.
LEMMA SiblingSpot ==
    ASSUME Blob
    PROVE  /\ \A x \in Spots : Left(x) \in 0 .. Len(blob) + 1
           /\ \A p : \A x \in Spots : x # Err =>
                 NextSibling(p, x) \in Spots /\ Left(NextSibling(p, x)) < Left(x)
           /\ \A x \in Spots : FirstChild(x) \in Spots
<1>1. /\ Len(blob) \in Nat /\ DOMAIN blob = 1 .. Len(blob)
      /\ \A x \in Nodes : x \in DOMAIN blob
      /\ \A x \in DOMAIN blob : x \in Nat
  BY DEF Blob, Nodes
<1>2. ASSUME NEW x \in Spots
      PROVE  Left(x) \in 0 .. Len(blob) + 1
  <2>1. CASE x = Err
    BY <1>1, <2>1 DEF Left
  <2>2. CASE x # Err
    <3>1. x \in 1 .. Len(blob)
      BY <1>1, <2>2, Zenon DEF Spots
    <3>2. QED
      BY <1>1, <2>2, <3>1 DEF Left
  <2>3. QED
    BY <2>1, <2>2, Zenon
<1>3. ASSUME NEW p, NEW x \in Spots, x # Err
      PROVE  NextSibling(p, x) \in Spots /\ Left(NextSibling(p, x)) < Left(x)
  <2>1. x \in DOMAIN blob /\ x \in Nat /\ x \in 1 .. Len(blob)
    BY <1>1, <1>3, Zenon DEF Spots
  <2>2. Left(x) = Len(blob) + 1 - x
    BY <1>3, Zenon DEF Left
  <2>3. CASE NextSibling(p, x) = Err
    <3>1. Left(Err) = 0 /\ 0 < Len(blob) + 1 - x
      BY <1>1, <2>1 DEF Left
    <3>2. QED
      BY <2>2, <2>3, <3>1, Zenon DEF Spots
  <2>4. CASE NextSibling(p, x) # Err
    <3> DEFINE y == NextSibling(p, x)
    <3>1. SkipNode(x) # Err /\ y = Seek(SkipNode(x), {"NOP"})
      BY <2>4, Zenon DEF NextSibling
    <3>2. SkipNode(x) \in x + 1 .. Len(blob) + 1
      BY <2>1, <3>1, SkipForward, Zenon
    <3>3. SkipNode(x) \in Nat \ {0} /\ x < SkipNode(x)
      BY <1>1, <2>1, <3>2
    <3>4. y \in Nodes /\ SkipNode(x) <= y
      BY <2>4, <3>1, <3>3, SeekForward, Zenon
    <3>5. y \in DOMAIN blob /\ y \in Nat /\ y # Err /\ Left(y) = Len(blob) + 1 - y
      BY <1>1, <2>4, <3>4, Zenon DEF Left
    <3> HIDE DEF y
    <3>6. Len(blob) + 1 - y < Len(blob) + 1 - x
      BY <1>1, <2>1, <3>3, <3>4, <3>5
    <3>7. QED
      BY <2>2, <3>5, <3>6, Zenon DEF y, Spots
  <2>5. QED
    BY <2>3, <2>4, Zenon
<1>4. ASSUME NEW x \in Spots
      PROVE  FirstChild(x) \in Spots
  <2>1. CASE FirstChild(x) = Err
    BY <2>1, Zenon DEF Spots
  <2>2. CASE FirstChild(x) # Err
    <3>1. AfterName(x) # Err /\ FirstChild(x) = Seek(AfterName(x), {"PROP", "NOP"})
      BY <2>2, Zenon DEF FirstChild
    <3>2. AfterName(x) = x + 1 /\ x \in Nat
      BY <1>1, <3>1, Zenon DEF AfterName, IsNode, Inside
    <3>3. x + 1 \in Nat \ {0}
      BY <3>2
    <3>4. FirstChild(x) \in Nodes
      BY <2>2, <3>1, <3>2, <3>3, SeekForward, Zenon
    <3>5. QED
      BY <1>1, <3>4, Zenon DEF Spots
  <2>3. QED
    BY <2>1, <2>2, Zenon
<1>5. QED
  BY <1>2, <1>3, <1>4, Zenon

\* One round of the inner loop of fdt_path_offset.
LEMMA NamedStep ==
    ASSUME Blob, NEW par, NEW name, NEW ch \in Spots
    PROVE  Named(par, name)[ch] =
              IF ch = Err \/ ~blob[ch].whole THEN Err
              ELSE IF blob[ch].name = name THEN ch
              ELSE Named(par, name)[NextSibling(par, ch)]
<1> DEFINE Body(f, x) == IF x = Err \/ ~blob[x].whole THEN Err
                         ELSE IF blob[x].name = name THEN x
                         ELSE f[NextSibling(par, x)]
           stop == {x \in Spots : x = Err \/ ~blob[x].whole \/ blob[x].name = name}
           val == [x \in Spots |-> IF x = Err \/ ~blob[x].whole THEN Err ELSE x]
           nxt == [x \in Spots |-> NextSibling(par, x)]
           rank == [x \in Spots |-> Left(x)]
<1>1. \A x \in Spots :
         /\ x \in stop <=> (x = Err \/ ~blob[x].whole \/ blob[x].name = name)
         /\ val[x] = IF x = Err \/ ~blob[x].whole THEN Err ELSE x
         /\ nxt[x] = NextSibling(par, x)
         /\ rank[x] = Left(x)
  BY Zenon
<1> HIDE DEF stop, val, nxt, rank
<1>2. \A x \in Spots : rank[x] \in 0 .. Len(blob) + 1
  BY <1>1, SiblingSpot, Zenon
<1>3. \A x \in Spots : x \notin stop => nxt[x] \in Spots /\ rank[nxt[x]] < rank[x]
  <2> SUFFICES ASSUME NEW x \in Spots, x \notin stop
               PROVE  nxt[x] \in Spots /\ rank[nxt[x]] < rank[x]
    BY Zenon
  <2>1. x # Err /\ nxt[x] = NextSibling(par, x)
    BY <1>1, Zenon
  <2>2. NextSibling(par, x) \in Spots /\ Left(NextSibling(par, x)) < Left(x)
    BY <2>1, SiblingSpot, Zenon
  <2>3. QED
    BY <1>1, <2>1, <2>2, Zenon
<1>4. PICK g : Rounds(g, Spots, stop, val, nxt)
  <2>1. Len(blob) + 1 \in Nat
    BY SpotsAre
  <2>2. QED
    BY <1>2, <1>3, <2>1, RoundsExist, ZenonT(40)
<1>5. g = [x \in Spots |-> Body(g, x)]
  <2>1. g = [x \in Spots |-> IF x \in stop THEN val[x] ELSE g[nxt[x]]]
    BY <1>4, Zenon DEF Rounds
  <2>2. ASSUME NEW x \in Spots
        PROVE  (IF x \in stop THEN val[x] ELSE g[nxt[x]]) = Body(g, x)
    BY <1>1, Zenon
  <2> HIDE DEF Body
  <2>3. [x \in Spots |-> IF x \in stop THEN val[x] ELSE g[nxt[x]]] = [x \in Spots |-> Body(g, x)]
    BY <2>2, Zenon
  <2>4. QED
    BY <2>1, <2>3, Zenon
<1>6. Named(par, name) = CHOOSE f : f = [x \in Spots |-> Body(f, x)]
  BY Zenon DEF Named
<1> HIDE DEF Body
<1>7. Named(par, name) = [x \in Spots |-> Body(Named(par, name), x)]
  BY <1>5, <1>6, Zenon
<1>8. Named(par, name)[ch] = Body(Named(par, name), ch)
  BY <1>7, ZenonT(40)
<1>9. QED
  BY <1>8, Zenon DEF Body

\* It answers an item or nothing, whatever the blob.
LEMMA NamedType ==
    ASSUME Blob, NEW par, NEW name, NEW ch \in Spots
    PROVE  Named(par, name)[ch] \in Spots
<1> DEFINE F == Named(par, name)
           Wrong == {k \in Nat : \E x \in Spots : Left(x) = k /\ F[x] \notin Spots}
<1>0. \A x \in Spots : Left(x) \in Nat
  <2>1. \A x \in Spots : Left(x) \in 0 .. Len(blob) + 1
    BY SiblingSpot, Zenon
  <2>2. \A y \in 0 .. Len(blob) + 1 : y \in Nat
    BY SpotsAre
  <2>3. QED
    BY <2>1, <2>2, Zenon
<1>1. ASSUME NEW x \in Spots
      PROVE  F[x] = IF x = Err \/ ~blob[x].whole THEN Err
                    ELSE IF blob[x].name = name THEN x ELSE F[NextSibling(par, x)]
  BY NamedStep
<1> HIDE DEF F
<1>2. Wrong = {}
  <2> SUFFICES ASSUME Wrong # {} PROVE FALSE
    BY Zenon
  <2>1. PICK k \in Wrong : \A y \in Wrong : k <= y
    <3>1. \A y \in Wrong : y \in Nat
      BY Zenon
    <3> HIDE DEF Wrong
    <3>2. QED
      BY <3>1, LeastExists, Zenon
  <2>2. PICK x \in Spots : Left(x) = k /\ F[x] \notin Spots
    BY <2>1, Zenon
  <2> DEFINE y == NextSibling(par, x)
  <2>3. x # Err /\ F[y] \notin Spots
    BY <1>1, <2>2, SpotsAre, Zenon
  <2>4. y \in Spots /\ Left(y) < Left(x) /\ Left(y) \in Nat /\ Left(x) \in Nat
    BY <1>0, <2>3, SiblingSpot, Zenon
  <2> HIDE DEF y
  <2>5. Left(y) \in Wrong
    BY <2>3, <2>4, Zenon
  <2>6. \A a, b \in Nat : a < b => ~(b <= a)
    OBVIOUS
  <2>7. QED
    BY <2>1, <2>2, <2>4, <2>5, <2>6, Zenon
<1>3. QED
  BY <1>0, <1>2, Zenon DEF F

LEMMA NamedNone ==
    ASSUME Blob, NEW par, NEW name
    PROVE  Named(par, name)[Err] = Err
<1>1. Err \in Spots
  BY SpotsAre, Zenon
<1>2. Named(par, name)[Err] =
         IF Err = Err \/ ~blob[Err].whole THEN Err
         ELSE IF blob[Err].name = name THEN Err
         ELSE Named(par, name)[NextSibling(par, Err)]
  BY <1>1, NamedStep
<1>3. QED
  BY <1>2, Zenon

\* In a tree it answers the first child from ch on that has the name.
LEMMA NamedFrom ==
    ASSUME Blob, WellFormed, Shallow, NEW p \in Nodes, NEW name, NEW ch \in TreeChildren(p)
    PROVE  LET same == {d \in TreeChildren(p) : ch <= d /\ blob[d].name = name}
           IN  IF same = {} THEN Named(p, name)[ch] = Err
               ELSE Named(p, name)[ch] \in same /\ \A d \in same : Named(p, name)[ch] <= d
<1> DEFINE F == Named(p, name)
           Same(c) == {d \in TreeChildren(p) : c <= d /\ blob[d].name = name}
           Right(c) == IF Same(c) = {} THEN F[c] = Err
                       ELSE F[c] \in Same(c) /\ \A d \in Same(c) : F[c] <= d
           Wrong == {k \in Nat : \E c \in TreeChildren(p) : Left(c) = k /\ ~Right(c)}
<1>1. ASSUME NEW c \in TreeChildren(p)
      PROVE  /\ c \in Nodes /\ c \in Nat /\ c \in Spots /\ c # Err /\ blob[c].whole
             /\ Left(c) \in Nat
  <2>1. c \in Nodes
    BY Zenon DEF TreeChildren
  <2>2. c \in Nat /\ c \in DOMAIN blob
    BY <2>1, Places, Zenon
  <2>3. c \in Spots /\ c # Err /\ blob[c].whole
    <3>1. c # Err
      BY <2>2 DEF Err
    <3>2. QED
      BY <2>2, <3>1, Zenon DEF Spots, WellFormed
  <2>4. Left(c) \in 0 .. Len(blob) + 1
    BY <2>3, SiblingSpot, Zenon
  <2>5. Left(c) \in Nat
    BY <2>4, SpotsAre
  <2>6. QED
    BY <2>1, <2>2, <2>3, <2>5, Zenon
<1>2. ASSUME NEW c \in TreeChildren(p)
      PROVE  F[c] = IF blob[c].name = name THEN c ELSE F[NextSibling(p, c)]
  <2>1. c \in Spots /\ c # Err /\ blob[c].whole
    BY <1>1, Zenon
  <2>2. F[c] = IF c = Err \/ ~blob[c].whole THEN Err
               ELSE IF blob[c].name = name THEN c ELSE F[NextSibling(p, c)]
    BY <2>1, NamedStep
  <2>3. QED
    BY <2>1, <2>2, Zenon
<1>3. F[Err] = Err
  BY NamedNone, Zenon
<1> HIDE DEF F
<1>4. Wrong = {}
  <2> SUFFICES ASSUME Wrong # {} PROVE FALSE
    BY Zenon
  <2>1. PICK k \in Wrong : \A y \in Wrong : k <= y
    <3>1. \A y \in Wrong : y \in Nat
      BY Zenon
    <3> HIDE DEF Wrong
    <3>2. QED
      BY <3>1, LeastExists, Zenon
  <2>2. PICK c \in TreeChildren(p) : Left(c) = k /\ ~Right(c)
    BY <2>1, Zenon
  <2>3. c \in Nat /\ c \in Spots /\ c # Err /\ \A d \in TreeChildren(p) : d \in Nat
    BY <1>1, Zenon
  <2>4. CASE blob[c].name = name
    <3>1. F[c] = c
      BY <1>2, <2>4, Zenon
    <3>2. c <= c
      BY <2>3
    <3>3. QED
      BY <2>2, <2>4, <3>1, <3>2, Zenon
  <2>5. CASE blob[c].name # name
    <3> DEFINE s == NextSibling(p, c)
               later == {d \in TreeChildren(p) : c < d}
    <3>1. F[c] = F[s]
      BY <1>2, <2>5, Zenon
    <3>2. IF later = {} THEN s = Err ELSE s \in later /\ \A d \in later : s <= d
      BY NextSiblingIs, Zenon
    <3>3. Left(s) < Left(c)
      BY <2>3, SiblingSpot, Zenon
    <3> HIDE DEF s
    <3>4. ASSUME NEW d \in TreeChildren(p), blob[d].name = name, c <= d
          PROVE  c < d
      <4>1. d # c /\ d \in Nat
        BY <2>3, <2>5, <3>4, Zenon
      <4>2. QED
        BY <2>3, <3>4, <4>1
    <3>5. CASE later = {}
      <4>1. Same(c) = {}
        BY <3>4, <3>5, Zenon
      <4>2. F[c] = Err
        BY <1>3, <3>1, <3>2, <3>5, Zenon
      <4>3. QED
        BY <2>2, <4>1, <4>2, Zenon
    <3>6. CASE later # {}
      <4>1. s \in TreeChildren(p) /\ c < s /\ \A d \in TreeChildren(p) : c < d => s <= d
        BY <3>2, <3>6, Zenon
      <4>2. s \in Nat /\ Left(s) \in Nat /\ Left(c) \in Nat
        BY <1>1, <4>1, Zenon
      <4>3. Right(s)
        <5>1. \A a, b \in Nat : a < b => ~(b <= a)
          OBVIOUS
        <5>2. Left(s) \notin Wrong
          BY <2>1, <2>2, <3>3, <4>2, <5>1, Zenon
        <5> HIDE DEF Right
        <5>3. QED
          BY <4>1, <4>2, <5>2, Zenon
      <4>4. Same(c) = Same(s)
        <5>1. ASSUME NEW d \in TreeChildren(p), blob[d].name = name
              PROVE  c <= d <=> s <= d
          <6>1. d \in Nat
            BY <2>3, Zenon
          <6>2. c <= d => s <= d
            BY <3>4, <4>1, <5>1, Zenon
          <6>3. s <= d => c <= d
            BY <2>3, <4>1, <4>2, <6>1
          <6>4. QED
            BY <6>2, <6>3, Zenon
        <5>2. QED
          BY <5>1, Zenon
      <4> HIDE DEF Same
      <4>5. QED
        BY <2>2, <3>1, <4>3, <4>4, Zenon
    <3>7. QED
      BY <3>5, <3>6, Zenon
  <2>6. QED
    BY <2>4, <2>5, Zenon
<1>5. Right(ch)
  <2> HIDE DEF Right
  <2>1. QED
    BY <1>1, <1>4, Zenon
<1>6. QED
  BY <1>5, Zenon DEF F

\* One component of a path: the first child of that name.
LEMMA NamedIs ==
    ASSUME Blob, WellFormed, Shallow, NEW p \in Nodes, NEW name
    PROVE  LET r == Named(p, name)[FirstChild(p)]
           IN  /\ r # Err => r \in TreeChildren(p) /\ blob[r].name = name
               /\ \A d \in TreeChildren(p) : blob[d].name = name =>
                     r \in TreeChildren(p) /\ blob[r].name = name /\ r <= d
<1> DEFINE F == Named(p, name)
           r == F[FirstChild(p)]
<1>1. CASE TreeChildren(p) = {}
  <2>1. FirstChild(p) = Err
    BY <1>1, FirstChildIs, Zenon
  <2>2. F[Err] = Err
    BY NamedNone, Zenon
  <2>3. QED
    BY <1>1, <2>1, <2>2, Zenon
<1>2. CASE TreeChildren(p) # {}
  <2> DEFINE c == FirstChild(p)
             same == {d \in TreeChildren(p) : c <= d /\ blob[d].name = name}
  <2>1. c \in TreeChildren(p) /\ \A d \in TreeChildren(p) : c <= d
    BY <1>2, FirstChildIs, Zenon
  <2>2. IF same = {} THEN F[c] = Err ELSE F[c] \in same /\ \A d \in same : F[c] <= d
    BY <2>1, NamedFrom, Zenon
  <2> HIDE DEF c, F
  <2>3. QED
    BY <2>1, <2>2, Zenon DEF c, F
<1>3. QED
  BY <1>1, <1>2, Zenon

\* One round of the outer loop of fdt_path_offset.
LEMMA DescendStep ==
    ASSUME Blob, NEW path, Len(path) \in Nat, NEW k \in Nat, NEW cur \in Spots
    PROVE  Descend(path)[k][cur] =
              IF cur = Err \/ k > Len(path) THEN cur
              ELSE Descend(path)[k + 1][Named(cur, path[k])[FirstChild(cur)]]
<1> DEFINE Body(f, a, x) == IF x = Err \/ a > Len(path) THEN x
                            ELSE f[a + 1][Named(x, path[a])[FirstChild(x)]]
           D == Nat \X Spots
           L == Len(path) + 1
           stop == {y \in D : y[2] = Err \/ y[1] > Len(path)}
           val == [y \in D |-> y[2]]
           to == [y \in D |-> y[1] + 1]
           nxt == [y \in D |-> Named(y[2], path[y[1]])[FirstChild(y[2])]]
           rank == [y \in D |-> IF y[1] > L THEN 0 ELSE L - y[1]]
<1>0. L \in Nat
  OBVIOUS
<1>1. ASSUME NEW a \in Nat, NEW x \in Spots
      PROVE  /\ <<a, x>> \in stop <=> (x = Err \/ a > Len(path))
             /\ val[<<a, x>>] = x
             /\ to[<<a, x>>] = a + 1
             /\ nxt[<<a, x>>] = Named(x, path[a])[FirstChild(x)]
             /\ rank[<<a, x>>] = IF a > L THEN 0 ELSE L - a
  <2>1. <<a, x>> \in D /\ <<a, x>>[1] = a /\ <<a, x>>[2] = x
    BY SMT
  <2> HIDE DEF D, L
  <2>2. QED
    BY <2>1, Zenon
<1> HIDE DEF stop, val, to, nxt, rank
<1>2. \A a \in Nat : \A x \in Spots : rank[<<a, x>>] \in 0 .. L
  <2> HIDE DEF L
  <2>1. \A a \in Nat : (IF a > L THEN 0 ELSE L - a) \in 0 .. L
    BY <1>0
  <2>2. QED
    BY <1>1, <2>1, Zenon
<1>3. ASSUME NEW a \in Nat, NEW x \in Spots, <<a, x>> \notin stop
      PROVE  /\ to[<<a, x>>] \in Nat /\ nxt[<<a, x>>] \in Spots
             /\ rank[<<to[<<a, x>>], nxt[<<a, x>>]>>] < rank[<<a, x>>]
  <2> DEFINE t == Named(x, path[a])[FirstChild(x)]
  <2>1. t \in Spots
    <3>1. FirstChild(x) \in Spots
      BY SiblingSpot, Zenon
    <3>2. QED
      BY <3>1, NamedType, Zenon
  <2>2. a + 1 \in Nat /\ to[<<a, x>>] = a + 1 /\ nxt[<<a, x>>] = t /\ ~(a > Len(path))
    <3>1. a + 1 \in Nat
      OBVIOUS
    <3>2. QED
      BY <1>1, <1>3, <3>1, Zenon
  <2> HIDE DEF t
  <2>3. /\ rank[<<a, x>>] = IF a > L THEN 0 ELSE L - a
        /\ rank[<<a + 1, t>>] = IF a + 1 > L THEN 0 ELSE L - (a + 1)
    BY <1>1, <2>1, <2>2, Zenon
  <2>4. rank[<<a + 1, t>>] < rank[<<a, x>>]
    BY <2>2, <2>3
  <2>5. QED
    BY <2>1, <2>2, <2>4, Zenon
<1>4. PICK g : Rounds2(g, Nat, Spots, stop, val, to, nxt)
  <2>1. \A a \in Nat : \A x \in Spots : <<a, x>> \notin stop =>
           /\ to[<<a, x>>] \in Nat /\ nxt[<<a, x>>] \in Spots
           /\ rank[<<to[<<a, x>>], nxt[<<a, x>>]>>] < rank[<<a, x>>]
    BY <1>3, Zenon
  <2> HIDE DEF L
  <2>2. QED
    BY <1>0, <1>2, <2>1, Rounds2Exist, ZenonT(40)
<1>5. g = [a \in Nat |-> [x \in Spots |-> Body(g, a, x)]]
  <2>1. g = [a \in Nat |-> [x \in Spots |-> IF <<a, x>> \in stop THEN val[<<a, x>>]
                                           ELSE g[to[<<a, x>>]][nxt[<<a, x>>]]]]
    BY <1>4, Zenon DEF Rounds2
  <2>2. ASSUME NEW a \in Nat, NEW x \in Spots
        PROVE  (IF <<a, x>> \in stop THEN val[<<a, x>>] ELSE g[to[<<a, x>>]][nxt[<<a, x>>]])
                  = Body(g, a, x)
    BY <1>1, Zenon
  <2> HIDE DEF Body
  <2>3. ASSUME NEW a \in Nat
        PROVE  [x \in Spots |-> IF <<a, x>> \in stop THEN val[<<a, x>>]
                              ELSE g[to[<<a, x>>]][nxt[<<a, x>>]]] = [x \in Spots |-> Body(g, a, x)]
    BY <2>2, Zenon
  <2>4. [a \in Nat |-> [x \in Spots |-> IF <<a, x>> \in stop THEN val[<<a, x>>]
                                       ELSE g[to[<<a, x>>]][nxt[<<a, x>>]]]]
           = [a \in Nat |-> [x \in Spots |-> Body(g, a, x)]]
    BY <2>3, Zenon
  <2>5. QED
    BY <2>1, <2>4, Zenon
<1>6. Descend(path) = CHOOSE f : f = [a \in Nat |-> [x \in Spots |-> Body(f, a, x)]]
  BY Zenon DEF Descend
<1> HIDE DEF Body
<1>7. Descend(path) = [a \in Nat |-> [x \in Spots |-> Body(Descend(path), a, x)]]
  BY <1>5, <1>6, Zenon
<1>8. Descend(path)[k] = [x \in Spots |-> Body(Descend(path), k, x)]
  BY <1>7, ZenonT(40)
<1>9. Descend(path)[k][cur] = Body(Descend(path), k, cur)
  BY <1>8, Zenon
<1>10. QED
  BY <1>9, Zenon DEF Body

\* A node and those around it: each level once, and all around each of them.
LEMMA Lineage ==
    ASSUME Blob, WellFormed, NEW n \in Nodes
    PROVE  /\ \A a \in TreeAncestors(n) : TreeAncestors(a) \subseteq TreeAncestors(n)
           /\ \A j \in 0 .. Level(n) : \E a \in TreeAncestors(n) \cup {n} : Level(a) = j
           /\ \A a, b \in TreeAncestors(n) \cup {n} : Level(a) = Level(b) => a = b
<1> DEFINE All(m) == TreeAncestors(m) \cup {m}
           Right(m) == /\ \A a \in TreeAncestors(m) : TreeAncestors(a) \subseteq TreeAncestors(m)
                       /\ \A j \in 0 .. Level(m) : \E a \in All(m) : Level(a) = j
                       /\ \A a, b \in All(m) : Level(a) = Level(b) => a = b
           Wrong == {m \in Nodes : ~Right(m)}
<1> SUFFICES ASSUME Wrong # {} PROVE FALSE
  BY Zenon
<1>1. PICK m \in Wrong : \A y \in Wrong : m <= y
  <2>1. \A y \in Wrong : y \in Nat
    BY Places, Zenon
  <2> HIDE DEF Wrong
  <2>2. QED
    BY <2>1, LeastExists, Zenon
<1>2. m \in Nodes /\ ~Right(m)
  BY Zenon
<1>3. m # 1
  <2>1. TreeAncestors(1) = {} /\ Level(1) = 0
    BY RootIsTop, Zenon
  <2>2. \A j \in 0 .. 0 : j = 0
    OBVIOUS
  <2>3. Right(1)
    BY <2>1, <2>2, Zenon
  <2> HIDE DEF Right
  <2>4. QED
    BY <1>2, <2>3, Zenon
<1>4. PICK p \in Nodes : m \in TreeChildren(p)
  BY <1>2, <1>3, HasParent, Zenon
<1>5. /\ p < m /\ p \in Nat /\ m \in Nat /\ Level(m) = Level(p) + 1 /\ Level(p) \in Nat
  BY <1>4, ChildInside, Zenon
<1>6. Right(p)
  <2>1. \A a, b \in Nat : a < b => ~(b <= a)
    OBVIOUS
  <2> HIDE DEF Right
  <2>2. QED
    BY <1>1, <1>5, <2>1, Zenon
<1>7. TreeAncestors(m) = All(p)
  BY <1>4, AncestorsUp, Zenon
<1>8. \A a \in TreeAncestors(m) : TreeAncestors(a) \subseteq TreeAncestors(m)
  BY <1>6, <1>7, Zenon
<1>9. \A j \in 0 .. Level(m) : \E a \in All(m) : Level(a) = j
  <2> SUFFICES ASSUME NEW j \in 0 .. Level(m) PROVE \E a \in All(m) : Level(a) = j
    BY Zenon
  <2>1. j = Level(m) \/ j \in 0 .. Level(p)
    BY <1>5
  <2>2. QED
    BY <1>6, <1>7, <2>1, Zenon
<1>10. \A a, b \in All(m) : Level(a) = Level(b) => a = b
  <2>1. \A a \in TreeAncestors(m) : Level(a) # Level(m)
    <3>1. \A a \in TreeAncestors(m) : Level(a) \in Nat /\ Level(m) \in Nat /\ Level(a) < Level(m)
      BY <1>2, AncestorsAbove, Places, Levels, Zenon
    <3>2. \A x, y \in Nat : x < y => x # y
      OBVIOUS
    <3>3. QED
      BY <3>1, <3>2, Zenon
  <2>2. QED
    BY <1>6, <1>7, <2>1, Zenon
<1>11. QED
  BY <1>2, <1>8, <1>9, <1>10, Zenon

\* The names on the way to a node.
LEMMA SpelledIs ==
    ASSUME Blob, WellFormed, NEW n \in Nodes
    PROVE  /\ Level(n) \in Nat /\ DOMAIN Spelled(n) = 1 .. Level(n) /\ Len(Spelled(n)) = Level(n)
           /\ Spelled(n) = [k \in 1 .. Level(n) |-> Spelled(n)[k]]
           /\ \A a \in TreeAncestors(n) \cup {n} : Level(a) \in 1 .. Level(n) =>
                 Spelled(n)[Level(a)] = blob[a].name
<1> DEFINE All == TreeAncestors(n) \cup {n}
           At(k) == CHOOSE a \in All : Level(a) = k
<1>1. Level(n) \in Nat
  BY Places, Levels, Zenon
<1>2. Spelled(n) = [k \in 1 .. Level(n) |-> blob[At(k)].name]
  BY Zenon DEF Spelled
<1> HIDE DEF At
<1>3. DOMAIN Spelled(n) = 1 .. Level(n)
  BY <1>2, Zenon
<1>4. Len(Spelled(n)) = Level(n)
  <2> DEFINE L == Level(n)
             X == {blob[At(k)].name : k \in 1 .. L}
             Name(k) == blob[At(k)].name
  <2>1. \A k \in 1 .. L : Name(k) \in X
    BY Zenon
  <2>2. Spelled(n) = [k \in 1 .. L |-> Name(k)] /\ L \in Nat
    BY <1>1, <1>2, Zenon
  <2> HIDE DEF L, X, Name
  <2>3. Len([k \in 1 .. L |-> Name(k)]) = L
    BY <2>1, <2>2
  <2>4. QED
    BY <2>2, <2>3, Zenon DEF L
<1>5. ASSUME NEW a \in All, Level(a) \in 1 .. Level(n)
      PROVE  Spelled(n)[Level(a)] = blob[a].name
  <2>1. At(Level(a)) \in All /\ Level(At(Level(a))) = Level(a)
    BY Zenon DEF At
  <2>2. At(Level(a)) = a
    BY <2>1, Lineage, Zenon
  <2>3. QED
    BY <1>2, <1>5, <2>2, Zenon
<1>6. Spelled(n) = [k \in 1 .. Level(n) |-> Spelled(n)[k]]
  <2>1. \A k \in 1 .. Level(n) : Spelled(n)[k] = blob[At(k)].name
    BY <1>2, Zenon
  <2>2. [k \in 1 .. Level(n) |-> Spelled(n)[k]] = [k \in 1 .. Level(n) |-> blob[At(k)].name]
    BY <2>1, Zenon
  <2>3. QED
    BY <1>2, <2>2, Zenon
<1>7. QED
  BY <1>1, <1>3, <1>4, <1>5, <1>6, Zenon

LEMMA SpelledUp ==
    ASSUME Blob, WellFormed, NEW p \in Nodes, NEW c \in TreeChildren(p)
    PROVE  /\ \A j \in 1 .. Level(p) : Spelled(c)[j] = Spelled(p)[j]
           /\ Spelled(c)[Level(c)] = blob[c].name
<1>1. c \in Nodes /\ Level(c) = Level(p) + 1 /\ Level(p) \in Nat
  BY ChildInside, Zenon
<1>2. TreeAncestors(c) = TreeAncestors(p) \cup {p}
  BY AncestorsUp, Zenon
<1>3. Level(c) \in 1 .. Level(c) /\ \A j \in 1 .. Level(p) : j \in 1 .. Level(c) /\ j \in 0 .. Level(p)
  BY <1>1
<1>4. ASSUME NEW j \in 1 .. Level(p) PROVE Spelled(c)[j] = Spelled(p)[j]
  <2>1. PICK a \in TreeAncestors(p) \cup {p} : Level(a) = j
    BY <1>3, Lineage, Zenon
  <2>2. Spelled(p)[j] = blob[a].name
    BY <2>1, SpelledIs, Zenon
  <2>3. Spelled(c)[j] = blob[a].name
    BY <1>1, <1>2, <1>3, <2>1, SpelledIs, Zenon
  <2>4. QED
    BY <2>2, <2>3, Zenon
<1>5. Spelled(c)[Level(c)] = blob[c].name
  BY <1>1, <1>3, SpelledIs, Zenon
<1>6. QED
  BY <1>4, <1>5, Zenon

\* fdt_path_offset answers a node that the path spells out.
LEMMA PathLeads ==
    ASSUME Blob, WellFormed, Shallow, NEW path, Len(path) \in Nat, PathOffset(path) # Err
    PROVE  LET m == PathOffset(path)
           IN  /\ m \in Nodes /\ Level(m) = Len(path)
               /\ \A j \in 1 .. Len(path) : Spelled(m)[j] = path[j]
<1> DEFINE D == Descend(path)
           L == Len(path)
           Fits(m) == m \in Nodes /\ \A j \in 1 .. Level(m) : Spelled(m)[j] = path[j]
           Right(m) == m = Err \/ (Fits(m) /\ Level(m) = L)
           Wrong == {d \in Nat : \E c \in Nodes : /\ Fits(c) /\ Level(c) + d = L
                                                  /\ ~Right(D[Level(c) + 1][c])}
<1>1. ASSUME NEW c \in Nodes
      PROVE  c \in Spots /\ c # Err /\ Level(c) \in Nat /\ Level(c) + 1 \in Nat
  <2>1. c \in Nat /\ c \in DOMAIN blob /\ Level(c) \in Nat
    BY Places, Levels, Zenon
  <2>2. c # Err
    BY <2>1 DEF Err
  <2>3. Level(c) + 1 \in Nat
    BY <2>1
  <2>4. QED
    BY <2>1, <2>2, <2>3, Zenon DEF Spots
<1>2. ASSUME NEW k \in Nat PROVE D[k][Err] = Err
  <2>1. Err \in Spots
    BY SpotsAre, Zenon
  <2>2. D[k][Err] = IF Err = Err \/ k > L THEN Err
                    ELSE D[k + 1][Named(Err, path[k])[FirstChild(Err)]]
    BY <2>1, DescendStep
  <2>3. QED
    BY <2>2, Zenon
<1>3. ASSUME NEW c \in Nodes
      PROVE  D[Level(c) + 1][c] =
                IF Level(c) + 1 > L THEN c
                ELSE D[Level(c) + 1 + 1][Named(c, path[Level(c) + 1])[FirstChild(c)]]
  <2> DEFINE k == Level(c) + 1
  <2>1. k \in Nat /\ c \in Spots /\ c # Err
    BY <1>1, Zenon
  <2> HIDE DEF k
  <2>2. D[k][c] = IF c = Err \/ k > L THEN c ELSE D[k + 1][Named(c, path[k])[FirstChild(c)]]
    BY <2>1, DescendStep
  <2>3. QED
    BY <2>1, <2>2, Zenon DEF k
<1> HIDE DEF D
<1>4. Wrong = {}
  <2> SUFFICES ASSUME Wrong # {} PROVE FALSE
    BY Zenon
  <2>1. PICK d \in Wrong : \A y \in Wrong : d <= y
    <3>1. \A y \in Wrong : y \in Nat
      BY Zenon
    <3> HIDE DEF Wrong
    <3>2. QED
      BY <3>1, LeastExists, Zenon
  <2>2. PICK c \in Nodes : Fits(c) /\ Level(c) + d = L /\ ~Right(D[Level(c) + 1][c])
    BY <2>1, Zenon
  <2>3. d \in Nat /\ Level(c) \in Nat /\ L \in Nat
    BY <1>1, <2>1, Zenon
  <2>4. CASE Level(c) + 1 > L
    <3>1. Level(c) = L
      <4> HIDE DEF L
      <4>1. QED
        BY <2>2, <2>3, <2>4
    <3>2. D[Level(c) + 1][c] = c
      BY <1>3, <2>4, Zenon
    <3>3. QED
      BY <2>2, <3>1, <3>2, ZenonT(40)
  <2>5. CASE ~(Level(c) + 1 > L)
    <3> DEFINE name == path[Level(c) + 1]
               r == Named(c, name)[FirstChild(c)]
    <3>1. D[Level(c) + 1][c] = D[Level(c) + 1 + 1][r]
      BY <1>3, <2>5, Zenon
    <3>2. r # Err => r \in TreeChildren(c) /\ blob[r].name = name
      BY NamedIs, Zenon
    <3> HIDE DEF r
    <3>3. CASE r = Err
      <4>1. Level(c) + 1 + 1 \in Nat
        BY <2>3
      <4>2. QED
        BY <1>2, <2>2, <3>1, <3>3, <4>1, ZenonT(40)
    <3>4. CASE r # Err
      <4>1. r \in TreeChildren(c) /\ r \in Nodes /\ Level(r) = Level(c) + 1 /\ blob[r].name = name
        BY <3>2, <3>4, ChildInside, Zenon
      <4>2. Fits(r)
        <5>1. /\ \A j \in 1 .. Level(c) : Spelled(r)[j] = Spelled(c)[j]
              /\ Spelled(r)[Level(c) + 1] = name
          BY <4>1, SpelledUp, Zenon
        <5>2. \A j \in 1 .. Level(c) + 1 : j \in 1 .. Level(c) \/ j = Level(c) + 1
          BY <2>3
        <5>3. QED
          BY <2>2, <4>1, <5>1, <5>2, Zenon
      <4>3. d - 1 \in Nat /\ Level(c) + 1 + (d - 1) = L /\ ~(d <= d - 1)
        <5> HIDE DEF L
        <5>1. QED
          BY <2>2, <2>3, <2>5
      <4>4. d - 1 \in Wrong
        <5> HIDE DEF Fits, Right
        <5>1. QED
          BY <2>2, <3>1, <4>1, <4>2, <4>3, Zenon
      <4>5. QED
        BY <2>1, <4>3, <4>4, Zenon
    <3>5. QED
      BY <3>3, <3>4, Zenon
  <2>6. QED
    BY <2>4, <2>5, Zenon
<1>5. 1 \in Nodes /\ Level(1) = 0 /\ IsNode(1)
  <2>1. 1 \in Nodes /\ Level(1) = 0
    BY RootIsTop, Zenon
  <2>2. QED
    BY <2>1, Places, Zenon DEF IsNode, Inside, Nodes
<1>6. PathOffset(path) = D[1][1]
  BY <1>5, Zenon DEF PathOffset, D
<1>7. Right(D[1][1])
  <2>1. 1 .. 0 = {} /\ 0 + L = L /\ 0 + 1 = 1
    OBVIOUS
  <2>2. Fits(1)
    BY <1>5, <2>1, Zenon
  <2> HIDE DEF Fits, Right
  <2>3. QED
    BY <1>4, <1>5, <2>1, <2>2, Zenon
<1>8. QED
  BY <1>6, <1>7, Zenon

\* And the one it was spelled from, when no earlier sibling has the name.
LEMMA PathFinds ==
    ASSUME Blob, WellFormed, Shallow, NEW n \in Nodes, Foremost(n)
    PROVE  PathOffset(Spelled(n)) = n
<1> DEFINE path == Spelled(n)
           D == Descend(path)
           All == TreeAncestors(n) \cup {n}
           Wrong == {a \in All : D[Level(a) + 1][a] # D[1][1]}
<1>0. Len(path) = Level(n) /\ Len(path) \in Nat
  BY SpelledIs, Zenon
<1> HIDE DEF path
<1>1. ASSUME NEW c \in All
      PROVE  /\ c \in Nodes /\ c \in Nat /\ c \in Spots /\ c # Err
             /\ Level(c) \in Nat /\ Level(c) <= Level(n) /\ Level(n) \in Nat
  <2>1. c \in Nodes /\ Level(n) \in Nat /\ (c # n => Level(c) < Level(n))
    BY AncestorsAbove, SpelledIs, Zenon
  <2>2. c \in Nat /\ c \in DOMAIN blob /\ Level(c) \in Nat
    BY <2>1, Places, Levels, Zenon
  <2>3. c # Err
    BY <2>2 DEF Err
  <2>4. Level(c) <= Level(n)
    <3>1. \A x, y \in Nat : (x < y => x <= y) /\ x <= x
      OBVIOUS
    <3>2. QED
      BY <2>1, <2>2, <3>1, Zenon
  <2>5. QED
    BY <2>1, <2>2, <2>3, <2>4, Zenon DEF Spots
<1>2. ASSUME NEW c \in All
      PROVE  D[Level(c) + 1][c] =
                IF Level(c) + 1 > Len(path) THEN c
                ELSE D[Level(c) + 1 + 1][Named(c, path[Level(c) + 1])[FirstChild(c)]]
  <2> DEFINE k == Level(c) + 1
  <2>1. c \in Spots /\ c # Err /\ Level(c) \in Nat
    BY <1>1, Zenon
  <2>2. k \in Nat
    BY <2>1
  <2> HIDE DEF k
  <2>3. D[k][c] = IF c = Err \/ k > Len(path) THEN c
                  ELSE D[k + 1][Named(c, path[k])[FirstChild(c)]]
    BY <1>0, <2>1, <2>2, DescendStep
  <2>4. QED
    BY <2>1, <2>3, Zenon DEF k
<1>3. 1 \in Nodes /\ Level(1) = 0 /\ IsNode(1)
  <2>1. 1 \in Nodes /\ Level(1) = 0
    BY RootIsTop, Zenon
  <2>2. QED
    BY <2>1, Places, Zenon DEF IsNode, Inside, Nodes
<1>4. PathOffset(path) = D[1][1]
  BY <1>3, Zenon DEF PathOffset
<1> HIDE DEF D
<1>5. Wrong = {}
  <2> SUFFICES ASSUME Wrong # {} PROVE FALSE
    BY Zenon
  <2>1. PICK a \in Wrong : \A y \in Wrong : a <= y
    <3>1. \A y \in Wrong : y \in Nat
      BY <1>1, Zenon
    <3> HIDE DEF Wrong
    <3>2. QED
      BY <3>1, LeastExists, Zenon
  <2>2. a \in All /\ D[Level(a) + 1][a] # D[1][1] /\ a \in Nodes /\ a \in Nat
    BY <1>1, <2>1, Zenon
  <2>3. a # 1
    <3>1. 0 + 1 = 1
      OBVIOUS
    <3>2. QED
      BY <1>3, <2>2, <3>1, Zenon
  <2>4. PICK p \in Nodes : a \in TreeChildren(p)
    BY <2>2, <2>3, HasParent, Zenon
  <2>5. p \in TreeAncestors(n)
    <3>1. p \in TreeAncestors(a)
      <4>1. TreeAncestors(a) = TreeAncestors(p) \cup {p}
        BY <2>4, AncestorsUp, Zenon
      <4>2. QED
        BY <4>1, Zenon
    <3>2. QED
      BY <2>2, <3>1, Lineage, Zenon
  <2>6. p < a /\ p \in Nat /\ Level(a) = Level(p) + 1 /\ Level(p) \in Nat
    BY <2>4, ChildInside, Zenon
  <2>7. D[Level(p) + 1][p] = D[1][1]
    <3>1. \A x, y \in Nat : x < y => ~(y <= x)
      OBVIOUS
    <3>2. QED
      BY <2>1, <2>2, <2>5, <2>6, <3>1, Zenon
  <2>8. /\ Level(a) \in 1 .. Level(n) /\ ~(Level(p) + 1 > Len(path))
    BY <1>0, <1>1, <2>2, <2>6
  <2>9. path[Level(p) + 1] = blob[a].name
    BY <2>2, <2>6, <2>8, SpelledIs, Zenon DEF path
  <2> DEFINE r == Named(p, blob[a].name)[FirstChild(p)]
  <2>10. r \in TreeChildren(p) /\ blob[r].name = blob[a].name /\ r <= a
    BY <2>4, NamedIs, Zenon
  <2>11. D[Level(p) + 1][p] = D[Level(a) + 1][r]
    BY <1>2, <2>5, <2>6, <2>8, <2>9, Zenon
  <2> HIDE DEF r
  <2>12. r = a
    <3>1. r \in Nodes /\ r \in Nat
      BY <2>10, ChildInside, Zenon
    <3>2. ~(r < a)
      <4>1. a \in TreeChildren(p) \cap (TreeAncestors(n) \cup {n}) /\ r \in TreeChildren(p)
        BY <2>2, <2>4, <2>10, Zenon
      <4>2. r < a => blob[r].name # blob[a].name
        BY <2>5, <4>1, Zenon DEF Foremost
      <4>3. QED
        BY <2>10, <4>1, <4>2, Zenon
    <3>3. QED
      BY <2>2, <2>10, <3>1, <3>2
  <2>13. QED
    BY <2>2, <2>7, <2>11, <2>12, Zenon
<1>6. D[Level(n) + 1][n] = n
  <2>1. Level(n) + 1 > Len(path)
    BY <1>0
  <2>2. QED
    BY <1>2, <2>1, Zenon
<1>7. QED
  BY <1>4, <1>5, <1>6, Zenon DEF path

=============================================================================

----------------------------- MODULE BootProofs -----------------------------
(***************************************************************************)
(* What is proved of Boot for every number of cores and every input that   *)
(* its assumptions admit, on top of what LayoutProofs proves: what the     *)
(* boot code makes of the boot arguments and of the configuration table is *)
(* what they say, and every core hands init the machine's description, its *)
(* role and the BSP's services.                                            *)
(***************************************************************************)
EXTENDS LayoutProofs

-----------------------------------------------------------------------------
\* What the boot code reads from the firmware.

\* An element of a sequence over S is in S.
LEMMA Element ==
    ASSUME NEW S, NEW seq \in Seq(S), NEW n \in 1 .. Len(seq)
    PROVE  seq[n] \in S
OBVIOUS

\* The fields of a descriptor.
LEMMA Descriptor ==
    ASSUME NEW map \in MemoryMap, NEW i \in DOMAIN map
    PROVE  /\ i \in Nat /\ i \in 1 .. Len(map) /\ Len(map) \in Nat
           /\ map[i].phys \in Nat /\ map[i].virt \in Nat /\ map[i].size \in Nat
<1>1. i \in 1 .. Len(map) /\ Len(map) \in Nat
  BY DEF MemoryMap
<1>2. map[i] \in [phys : Nat, virt : Nat, size : Nat, type : STRING]
  BY <1>1, Element, Zenon DEF MemoryMap
<1>3. QED
  BY <1>1, <1>2

\* xnu_efi_translate_virt finds the physical address a pointer stands for.
LEMMA Translated ==
    ASSUME NEW args, args.mmap \in MemoryMap, args.efi_mmap # 0, NEW v, NEW p,
           StandsFor(args, v, p)
    PROVE  TranslateVirt(args, v) = p
<1> DEFINE moved == {i \in DOMAIN args.mmap : args.mmap[i].virt # args.mmap[i].phys}
           hits == {i \in DOMAIN args.mmap : /\ args.mmap[i].virt # args.mmap[i].phys
                                             /\ HoldsVirtual(args.mmap[i], v)}
           d == args.mmap[Min(hits)]
<1>1. TranslateVirt(args, v) =
         IF hits = {} THEN v ELSE (d.phys + (v - (d.virt % Word))) % Word
  BY Zenon DEF TranslateVirt
<1>2. v \in 0 .. Word - 1 /\ p \in 1 .. Word - 1 /\ Word \in Nat \ {0}
  BY BootArgsAssumption, Zenon DEF StandsFor
<1>3. CASE v = p /\ \A j \in moved : ~HoldsVirtual(args.mmap[j], v)
  <2>1. hits = {}
    BY <1>3, Zenon
  <2>2. QED
    BY <1>1, <1>3, <2>1, Zenon
<1>4. ASSUME NEW i \in moved,
             p >= args.mmap[i].phys, p < args.mmap[i].phys + args.mmap[i].size,
             v = (args.mmap[i].virt % Word) + (p - args.mmap[i].phys),
             \A j \in moved : HoldsVirtual(args.mmap[j], v) => j = i
      PROVE  TranslateVirt(args, v) = p
  <2> DEFINE e == args.mmap[i]
  <2>1. e.phys \in Nat /\ e.virt \in Nat /\ e.size \in Nat /\ i \in Nat
    BY Descriptor, Zenon
  <2>2. e.virt % Word \in 0 .. Word - 1
    BY <1>2, <2>1, Division, Zenon
  <2> HIDE DEF e
  <2>3. /\ v >= e.virt % Word /\ v < (e.virt % Word) + e.size
        /\ e.phys + (v - (e.virt % Word)) = p
    <3>1. /\ p >= e.phys /\ p < e.phys + e.size
          /\ v = (e.virt % Word) + (p - e.phys)
      BY <1>4, Zenon DEF e
    <3>2. \A a, n, m \in Nat : p >= a /\ p < a + n /\ v = m + (p - a) =>
             v >= m /\ v < m + n /\ a + (v - m) = p
      BY <1>2
    <3>3. e.virt % Word \in Nat
      BY <2>2
    <3>4. QED
      BY <2>1, <3>1, <3>2, <3>3, Zenon
  <2>4. hits = {i}
    BY <1>4, <2>3, Zenon DEF HoldsVirtual, e
  <2>5. Min(hits) = i
    <3>1. i \in Int /\ i <= i
      BY <2>1
    <3>2. QED
      BY <2>4, <3>1, MinIs, Zenon
  <2>6. p % Word = p
    <3>1. p \in Nat /\ p \in 0 .. Word - 1 /\ p = 0 * Word + p
      BY <1>2
    <3>2. QED
      BY <1>2, <3>1, DivMod, Zenon
  <2>7. QED
    BY <1>1, <2>3, <2>4, <2>5, <2>6, Zenon DEF e
<1>5. QED
  BY <1>3, <1>4, Zenon DEF StandsFor

\* The entries with a GUID are entries: the first and the last are among them.
LEMMA WithEntries ==
    ASSUME NEW tables, tables \in ConfigTable, NEW guid,
           With(tables, guid) # {}
    PROVE  /\ Min(With(tables, guid)) \in DOMAIN tables
           /\ Max(With(tables, guid)) \in DOMAIN tables
<1>1. /\ \A y \in With(tables, guid) : y \in 1 .. Len(tables) /\ y \in DOMAIN tables
      /\ Len(tables) \in Nat
  BY DEF With, ConfigTable
<1>2. \A y \in With(tables, guid) : y \in Nat
  BY <1>1
<1>3. QED
  BY <1>1, <1>2, MinIn, MaxIn, Zenon

\* The way to the ACPI table is known: every pointer on it stands for an address.
WayKnown(args, fw) ==
    /\ args.mmap \in MemoryMap /\ args.efi_mmap # 0
    /\ fw.tables \in ConfigTable
    /\ fw.config # 0
    /\ StandsFor(args, args.efi_system_table, fw.sys_phys)
    /\ StandsFor(args, fw.config % Word, fw.tables_phys)
    /\ \A t \in DOMAIN fw.tables :
          fw.tables[t].ptr % Word # 0 /\ StandsFor(args, fw.tables[t].ptr % Word, fw.tables[t].phys)

\* xnu_boot_args_find_rsdp finds the ACPI 2.0 table, or else the last 1.0 one.
LEMMA RsdpFound ==
    ASSUME NEW args, NEW fw, args.addr # 0, args.vermajor = 2, args.efi_system_table # 0,
           WayKnown(args, fw)
    PROVE  LET v1 == With(fw.tables, "acpi10")
               v2 == With(fw.tables, "acpi20")
           IN  /\ v2 # {} => FindRsdp(args, fw) = fw.tables[Min(v2)].phys
               /\ v2 = {} /\ v1 # {} => FindRsdp(args, fw) = fw.tables[Max(v1)].phys
               /\ v2 = {} /\ v1 = {} => FindRsdp(args, fw) = 0
<1> DEFINE v1 == With(fw.tables, "acpi10")
           v2 == With(fw.tables, "acpi20")
<1>1. /\ TranslateVirt(args, args.efi_system_table) = fw.sys_phys
      /\ TranslateVirt(args, fw.config % Word) = fw.tables_phys
      /\ \A t \in DOMAIN fw.tables :
            TranslateVirt(args, fw.tables[t].ptr % Word) = fw.tables[t].phys
  BY Translated, Zenon DEF WayKnown
<1>2. fw.sys_phys # 0 /\ fw.tables_phys # 0
  <2>1. fw.sys_phys \in 1 .. Word - 1 /\ fw.tables_phys \in 1 .. Word - 1
    BY Zenon DEF WayKnown, StandsFor
  <2>2. QED
    BY <2>1, BootArgsAssumption
<1>3. FindRsdp(args, fw) =
         CASE v2 # {} -> TranslateVirt(args, fw.tables[Min(v2)].ptr % Word)
           [] v2 = {} /\ v1 # {} /\ fw.tables[Max(v1)].ptr % Word # 0
                      -> TranslateVirt(args, fw.tables[Max(v1)].ptr % Word)
           [] OTHER   -> 0
  BY <1>1, <1>2, Zenon DEF FindRsdp, WayKnown
<1>4. v2 # {} => Min(v2) \in DOMAIN fw.tables
  BY WithEntries, Zenon DEF WayKnown
<1>5. v1 # {} => Max(v1) \in DOMAIN fw.tables
  BY WithEntries, Zenon DEF WayKnown
<1>6. v1 # {} => fw.tables[Max(v1)].ptr % Word # 0
  BY <1>5, Zenon DEF WayKnown
<1> HIDE DEF v1, v2
<1>7. CASE v2 # {}
  <2>1. FindRsdp(args, fw) = TranslateVirt(args, fw.tables[Min(v2)].ptr % Word)
    BY <1>3, <1>7, Zenon
  <2>2. QED
    BY <1>1, <1>4, <1>7, <2>1, Zenon DEF v1, v2
<1>8. CASE v2 = {} /\ v1 # {}
  <2>1. FindRsdp(args, fw) = TranslateVirt(args, fw.tables[Max(v1)].ptr % Word)
    BY <1>3, <1>6, <1>8, Zenon
  <2>2. QED
    BY <1>1, <1>5, <1>8, <2>1, Zenon DEF v1, v2
<1>9. CASE v2 = {} /\ v1 = {}
  <2>1. FindRsdp(args, fw) = 0
    BY <1>3, <1>9, Zenon
  <2>2. QED
    BY <1>9, <2>1, Zenon DEF v1, v2
<1>10. QED
  BY <1>7, <1>8, <1>9, Zenon DEF v1, v2

\* The recursion over the descriptors has a solution, and so BestAfter is one.
LEMMA BestAfterSteps ==
    ASSUME NEW args, Len(args.mmap) \in Nat, NEW min_addr
    PROVE  BestAfter(args, min_addr) =
              [n \in 0 .. Len(args.mmap) |->
                  IF n = 0 THEN NoRange
                  ELSE Better(BestAfter(args, min_addr)[n - 1], args.mmap[n], min_addr)]
<1> DEFINE N == Len(args.mmap)
           B(b, n) == Better(b, args.mmap[n], min_addr)
           Solves(f, k) == f = [n \in 0 .. k |-> IF n = 0 THEN NoRange ELSE B(f[n - 1], n)]
           Without == {k \in 0 .. N : ~ \E f : Solves(f, k)}
<1>1. Without = {}
  <2> SUFFICES ASSUME Without # {} PROVE FALSE
    BY Zenon
  <2>1. \A k \in Without : k \in Nat
    OBVIOUS
  <2> HIDE DEF B
  <2>2. PICK k \in Without : \A y \in Without : k <= y
    <3> HIDE DEF Without
    <3>1. QED
      BY <2>1, LeastExists, Zenon
  <2>3. k \in 0 .. N /\ ~ \E f : Solves(f, k)
    BY <2>2, Zenon
  <2>4. CASE k = 0
    <3>1. Solves([n \in 0 .. 0 |-> NoRange], 0)
      OBVIOUS
    <3>2. QED
      BY <2>3, <2>4, <3>1, Zenon
  <2>5. CASE k # 0
    <3>1. k - 1 \in 0 .. N /\ ~(k <= k - 1)
      BY <2>3, <2>5
    <3>2. PICK f : Solves(f, k - 1)
      BY <2>2, <3>1, Zenon
    <3> DEFINE g == [n \in 0 .. k |-> IF n = k THEN B(f[k - 1], k) ELSE f[n]]
    <3>3. ASSUME NEW n \in 0 .. k
          PROVE  g[n] = IF n = 0 THEN NoRange ELSE B(g[n - 1], n)
      <4>1. CASE n = k
        <5>1. k - 1 \in 0 .. k /\ k - 1 # k
          BY <2>3, <2>5
        <5>2. g[k - 1] = f[k - 1] /\ g[n] = B(f[k - 1], k)
          BY <4>1, <5>1, Zenon
        <5>3. QED
          BY <2>5, <4>1, <5>2, Zenon
      <4>2. CASE n # k
        <5>1. n \in 0 .. k - 1 /\ (n # 0 => n - 1 \in 0 .. k /\ n - 1 # k)
          BY <2>3, <4>2
        <5>2. g[n] = f[n] /\ (n # 0 => g[n - 1] = f[n - 1])
          BY <4>2, <5>1, Zenon
        <5>3. f[n] = IF n = 0 THEN NoRange ELSE B(f[n - 1], n)
          BY <3>2, <5>1, Zenon
        <5>4. QED
          BY <5>2, <5>3, Zenon
      <4>3. QED
        BY <4>1, <4>2, Zenon
    <3>4. Solves(g, k)
      BY <3>3, Zenon
    <3>5. QED
      BY <2>3, <3>4, Zenon
  <2>6. QED
    BY <2>4, <2>5, Zenon
<1>2. \E f : Solves(f, N)
  <2>1. N \in 0 .. N
    OBVIOUS
  <2>2. QED
    BY <1>1, <2>1, Zenon
<1>3. BestAfter(args, min_addr) = CHOOSE f : Solves(f, N)
  BY Zenon DEF BestAfter
<1>4. Solves(CHOOSE f : Solves(f, N), N)
  BY <1>2, Zenon
<1>5. QED
  BY <1>3, <1>4, Zenon

\* What Clip leaves of a descriptor are its addresses at or above min_addr.
LEMMA ClipLeaves ==
    ASSUME NEW d, d.phys \in Nat, d.size \in Nat, NEW min_addr \in Nat
    PROVE  LET left == {x \in Span(d.phys, d.size) : x >= min_addr}
               r == Clip(d, min_addr)
           IN  /\ r.base \in Nat /\ r.size \in Nat
               /\ left = Span(r.base, r.size)
               /\ r.size = IF left = {} THEN 0 ELSE Max(left) - Min(left) + 1
<1> DEFINE left == {x \in Span(d.phys, d.size) : x >= min_addr}
           r == Clip(d, min_addr)
<1>1. PICK a \in Nat, n \in Nat : a = d.phys /\ n = d.size
  BY Zenon
<1>2. r = IF a >= min_addr THEN [base |-> a, size |-> n]
          ELSE IF min_addr - a >= n THEN [base |-> min_addr, size |-> 0]
          ELSE [base |-> min_addr, size |-> n - (min_addr - a)]
  BY <1>1, Zenon DEF Clip
<1>3. left = {x \in Span(a, n) : x >= min_addr}
  BY <1>1, Zenon
<1> HIDE DEF r
<1>4. /\ r.base \in Nat /\ r.size \in Nat
      /\ r.base = IF a >= min_addr THEN a ELSE min_addr
      /\ r.size = IF a >= min_addr THEN n ELSE IF min_addr - a >= n THEN 0 ELSE n - (min_addr - a)
  BY <1>2
<1>5. \A b, m \in Nat : Span(b, m) = b .. b + m - 1
  BY DEF Span
<1>6. PICK b \in Nat, m \in Nat : b = r.base /\ m = r.size
  BY <1>4, Zenon
<1>7. left = b .. b + m - 1
  <2>1. left = {x \in a .. a + n - 1 : x >= min_addr}
    BY <1>3, <1>5, Zenon
  <2> HIDE DEF left
  <2>2. QED
    BY <1>4, <1>6, <2>1
<1>8. left = Span(r.base, r.size)
  BY <1>5, <1>6, <1>7, Zenon
<1> HIDE DEF left
<1>9. CASE m = 0
  <2>1. left = {}
    BY <1>7, <1>9
  <2>2. QED
    BY <1>4, <1>6, <1>8, <1>9, <2>1, Zenon DEF r, left
<1>10. CASE m # 0
  <2>1. b \in left /\ b + m - 1 \in left /\ \A y \in left : y \in Int /\ b <= y /\ y <= b + m - 1
    BY <1>7, <1>10
  <2>2. Min(left) = b
    BY <2>1, MinIs, Zenon
  <2>3. Max(left) = b + m - 1
    BY <2>1, MaxIs, Zenon
  <2>4. m = Max(left) - Min(left) + 1 /\ left # {}
    BY <2>1, <2>2, <2>3
  <2>5. QED
    BY <1>4, <1>6, <1>8, <2>4, Zenon DEF r, left
<1>11. QED
  BY <1>9, <1>10, Zenon

\* r is the first largest of what the free ones among n descriptors leave.
IsBest(map, min_addr, n, r) ==
    \/ /\ r = NoRange
       /\ \A i \in 1 .. n : map[i].type \in Free => Clip(map[i], min_addr).size = 0
    \/ \E i \in 1 .. n :
          /\ map[i].type \in Free /\ r = Clip(map[i], min_addr) /\ r.size > 0
          /\ \A j \in 1 .. n : map[j].type \in Free => Clip(map[j], min_addr).size <= r.size
          /\ \A j \in 1 .. i - 1 : map[j].type \in Free => Clip(map[j], min_addr).size < r.size

\* One descriptor more.
LEMMA BetterIsBest ==
    ASSUME NEW map \in MemoryMap, NEW min_addr \in Nat, NEW n \in 1 .. Len(map), NEW r,
           IsBest(map, min_addr, n - 1, r)
    PROVE  IsBest(map, min_addr, n, Better(r, map[n], min_addr))
<1> DEFINE size(i) == Clip(map[i], min_addr).size
           s == Better(r, map[n], min_addr)
           free(i) == map[i].type \in Free
<1>1. Len(map) \in Nat /\ n \in Nat /\ \A i \in 1 .. n : i \in 1 .. Len(map) /\ i \in DOMAIN map
  BY DEF MemoryMap
<1>2. \A i \in 1 .. n : size(i) \in Nat
  BY <1>1, Descriptor, ClipLeaves, Zenon
<1>3. r.size \in Nat
  <2>1. CASE r = NoRange
    BY <2>1 DEF NoRange
  <2>2. CASE \E i \in 1 .. n - 1 : r = Clip(map[i], min_addr)
    <3>1. \A i \in 1 .. n - 1 : i \in 1 .. n
      BY <1>1
    <3>2. QED
      BY <1>2, <2>2, <3>1, Zenon
  <2>3. QED
    BY <2>1, <2>2, Zenon DEF IsBest
<1>4. s = IF free(n) /\ size(n) > r.size THEN Clip(map[n], min_addr) ELSE r
  BY Zenon DEF Better
<1>5. /\ \A i \in 1 .. n : i \in 1 .. n - 1 \/ i = n
      /\ \A i \in 1 .. n - 1 : i \in 1 .. n
      /\ n \in 1 .. n
  BY <1>1
<1>6. \A i \in 1 .. n - 1 : free(i) => size(i) <= r.size
  <2>1. CASE r = NoRange /\ \A i \in 1 .. n - 1 : free(i) => size(i) = 0
    BY <1>2, <1>5, <2>1 DEF NoRange
  <2>2. CASE \A i \in 1 .. n - 1 : free(i) => size(i) <= r.size
    BY <2>2
  <2>3. QED
    BY <2>1, <2>2, Zenon DEF IsBest
<1> HIDE DEF size, free
<1>7. CASE free(n) /\ size(n) > r.size
  <2>1. s = Clip(map[n], min_addr) /\ s.size = size(n) /\ free(n)
    BY <1>4, <1>7, Zenon DEF size
  <2>2. s.size > 0
    BY <1>2, <1>3, <1>5, <1>7, <2>1
  <2>3. \A j \in 1 .. n - 1 : free(j) => size(j) < s.size
    BY <1>2, <1>3, <1>5, <1>6, <1>7, <2>1
  <2>4. \A j \in 1 .. n : free(j) => size(j) <= s.size
    BY <1>2, <1>5, <2>1, <2>3
  <2>5. QED
    BY <1>5, <2>1, <2>2, <2>3, <2>4, Zenon DEF IsBest, size, free
<1>8. CASE ~(free(n) /\ size(n) > r.size)
  <2>1. s = r
    BY <1>4, <1>8, Zenon
  <2>2. \A j \in 1 .. n : free(j) => size(j) <= r.size
    BY <1>2, <1>3, <1>5, <1>6, <1>8
  <2>3. CASE r = NoRange /\ \A i \in 1 .. n - 1 : free(i) => size(i) = 0
    <3>1. r.size = 0
      BY <2>3 DEF NoRange
    <3>2. \A j \in 1 .. n : free(j) => size(j) = 0
      BY <1>2, <2>2, <3>1
    <3>3. QED
      BY <2>1, <2>3, <3>2, Zenon DEF IsBest, size, free
  <2>4. CASE \E i \in 1 .. n - 1 :
                /\ free(i) /\ r = Clip(map[i], min_addr) /\ r.size > 0
                /\ \A j \in 1 .. i - 1 : free(j) => size(j) < r.size
    BY <1>5, <2>1, <2>2, <2>4, Zenon DEF IsBest, size, free
  <2>5. QED
    BY <2>3, <2>4, Zenon DEF IsBest, size, free
<1>9. QED
  BY <1>7, <1>8, Zenon

\* So is the range after every descriptor.
LEMMA BestSoFar ==
    ASSUME NEW args, args.mmap \in MemoryMap, NEW min_addr \in Nat
    PROVE  \A n \in 0 .. Len(args.mmap) :
              IsBest(args.mmap, min_addr, n, BestAfter(args, min_addr)[n])
<1> DEFINE A == BestAfter(args, min_addr)
           Wrong == {n \in 0 .. Len(args.mmap) : ~IsBest(args.mmap, min_addr, n, A[n])}
<1>1. Len(args.mmap) \in Nat
  BY DEF MemoryMap
<1>2. A = [n \in 0 .. Len(args.mmap) |->
             IF n = 0 THEN NoRange ELSE Better(A[n - 1], args.mmap[n], min_addr)]
  BY <1>1, BestAfterSteps, Zenon
<1> HIDE DEF A
<1> SUFFICES ASSUME Wrong # {} PROVE FALSE
  BY Zenon DEF A
<1>3. PICK n \in Wrong : \A y \in Wrong : n <= y
  <2>1. \A y \in Wrong : y \in Nat
    BY <1>1
  <2> HIDE DEF Wrong
  <2>2. QED
    BY <2>1, LeastExists, Zenon
<1>4. n \in 0 .. Len(args.mmap) /\ ~IsBest(args.mmap, min_addr, n, A[n])
  BY <1>3, Zenon
<1>5. CASE n = 0
  <2>1. A[0] = NoRange
    BY <1>2, <1>4, <1>5, Zenon
  <2>2. \A i \in 1 .. 0 : FALSE
    OBVIOUS
  <2>3. QED
    BY <1>4, <1>5, <2>1, <2>2, Zenon DEF IsBest
<1>6. CASE n # 0
  <2>1. n \in 1 .. Len(args.mmap) /\ n - 1 \in 0 .. Len(args.mmap) /\ ~(n <= n - 1)
    BY <1>1, <1>4, <1>6
  <2>2. IsBest(args.mmap, min_addr, n - 1, A[n - 1])
    BY <1>3, <2>1, Zenon
  <2>3. A[n] = Better(A[n - 1], args.mmap[n], min_addr)
    BY <1>2, <1>4, <1>6, Zenon
  <2>4. QED
    BY <1>4, <2>1, <2>2, <2>3, BetterIsBest, Zenon
<1>7. QED
  BY <1>5, <1>6, Zenon

\* xnu_boot_args_find_largest_free reports the first of the largest ranges, or
\* a range of size 0 when nothing is left.
LEMMA LargestFound ==
    ASSUME NEW args, args.mmap \in MemoryMap, args.addr # 0, args.vermajor = 2,
           args.efi_mmap # 0, NEW base \in Nat
    PROVE  LET free == {i \in DOMAIN args.mmap : args.mmap[i].type \in Free}
               left(i) == {x \in Span(args.mmap[i].phys, args.mmap[i].size) : x >= base}
               length(i) == IF left(i) = {} THEN 0 ELSE Max(left(i)) - Min(left(i)) + 1
               best == {i \in free : \A j \in free : length(j) <= length(i)}
               found == FindLargestFree(args, base)
           IN  IF \A i \in free : left(i) = {} THEN found.size = 0
               ELSE Span(found.base, found.size) = left(Min(best))
<1> DEFINE map == args.mmap
           N == Len(map)
           free == {i \in DOMAIN map : map[i].type \in Free}
           left(i) == {x \in Span(map[i].phys, map[i].size) : x >= base}
           length(i) == IF left(i) = {} THEN 0 ELSE Max(left(i)) - Min(left(i)) + 1
           best == {i \in free : \A j \in free : length(j) <= length(i)}
           found == FindLargestFree(args, base)
           size(i) == Clip(map[i], base).size
<1>1. N \in Nat /\ N \in 0 .. N /\ DOMAIN map = 1 .. N
  BY DEF MemoryMap
<1>2. found = BestAfter(args, base)[N]
  BY Zenon DEF FindLargestFree
<1>3. IsBest(map, base, N, found)
  BY <1>1, <1>2, BestSoFar, Zenon
<1>4. ASSUME NEW i \in free
      PROVE  /\ i \in 1 .. N /\ i \in Nat /\ size(i) \in Nat /\ map[i].type \in Free
             /\ left(i) = Span(Clip(map[i], base).base, size(i))
             /\ length(i) = size(i) /\ (left(i) = {} => size(i) = 0)
  <2>1. i \in DOMAIN map /\ map[i].type \in Free
    BY <1>4, Zenon
  <2>2. i \in Nat /\ map[i].phys \in Nat /\ map[i].size \in Nat
    BY <2>1, Descriptor, Zenon
  <2>3. QED
    BY <1>1, <2>1, <2>2, ClipLeaves, ZenonT(40)
<1>5. \A i \in 1 .. N : map[i].type \in Free => i \in free
  BY <1>1, Zenon
<1> HIDE DEF found, left, free, size, length
<1>6. CASE found = NoRange /\ \A i \in 1 .. N : map[i].type \in Free => Clip(map[i], base).size = 0
  <2>1. found.size = 0
    BY <1>6 DEF NoRange
  <2>2. \A i \in free : left(i) = {}
    <3> SUFFICES ASSUME NEW i \in free PROVE left(i) = {}
      BY Zenon
    <3>1. left(i) = Span(Clip(map[i], base).base, 0)
      BY <1>4, <1>6, Zenon DEF size
    <3>2. QED
      BY <3>1 DEF Span
  <2>3. QED
    BY <2>1, <2>2, Zenon DEF found, left, free
<1>7. ASSUME NEW i \in 1 .. N, map[i].type \in Free, found = Clip(map[i], base), found.size > 0,
             \A j \in 1 .. N : map[j].type \in Free => Clip(map[j], base).size <= found.size,
             \A j \in 1 .. i - 1 : map[j].type \in Free => Clip(map[j], base).size < found.size
      PROVE  (~ \A j \in free : left(j) = {}) /\ Span(found.base, found.size) = left(Min(best))
  <2>1. i \in free /\ found.size = size(i) /\ size(i) \in Nat
    BY <1>4, <1>5, <1>7, Zenon DEF size
  <2>2. left(i) # {} /\ left(i) = Span(found.base, found.size)
    <3>1. size(i) # 0
      BY <1>7, <2>1
    <3>2. QED
      BY <1>4, <1>7, <2>1, <3>1, Zenon
  <2>3. \A j \in free : size(j) <= size(i)
    BY <1>4, <1>7, <2>1, Zenon DEF size
  <2>4. i \in best
    BY <1>4, <2>1, <2>3, Zenon
  <2>5. ASSUME NEW k \in best PROVE i <= k
    <3>1. k \in free /\ size(i) <= size(k) /\ k \in 1 .. N /\ map[k].type \in Free
      BY <1>4, <2>1, <2>5, Zenon
    <3>2. k \in 1 .. i - 1 => size(k) < size(i)
      BY <1>7, <2>1, <3>1, Zenon DEF size
    <3>3. size(k) \in Nat
      BY <1>4, <3>1, Zenon
    <3>4. QED
      BY <1>1, <2>1, <3>1, <3>2, <3>3
  <2>6. \A y \in best : y \in Int
    <3>1. \A y \in best : y \in Nat
      BY <1>4, Zenon
    <3>2. QED
      BY <3>1
  <2> HIDE DEF best
  <2>7. Min(best) = i
    BY <2>4, <2>5, <2>6, MinIs, Zenon
  <2>8. QED
    BY <2>1, <2>2, <2>7, Zenon
<1>8. CASE \E i \in 1 .. N :
          /\ map[i].type \in Free /\ found = Clip(map[i], base) /\ found.size > 0
          /\ \A j \in 1 .. N : map[j].type \in Free => Clip(map[j], base).size <= found.size
          /\ \A j \in 1 .. i - 1 : map[j].type \in Free => Clip(map[j], base).size < found.size
  <2>1. (~ \A j \in free : left(j) = {}) /\ Span(found.base, found.size) = left(Min(best))
    BY <1>7, <1>8, Zenon
  <2>2. QED
    BY <2>1, Zenon DEF found, left, free, length
<1>9. QED
  BY <1>3, <1>6, <1>8, Zenon DEF IsBest

-----------------------------------------------------------------------------
\* What a core knows when it enters init.

\* The console the kernel was built with.
BuiltIn == [base |-> DefaultUart, cadence |-> FALSE]

\* What the entry stubs know of the machine, and what is known after
\* resolve_xnu_boot_params.
Stub == [fdt |-> StubFdt, size |-> StubFdtSize, rsdp |-> 0]

Known ==
    IF Arm /\ ~Shared THEN ResolveXnuBootParams(input.x0, Stub, input.args, input.fw) ELSE Stub

\* The console chosen from what the stubs know, and from what is known then.
FirstConsole == SerialInit(BuiltIn, Stub)
LastConsole == SerialInit(FirstConsole, Known)

\* Only init starts other cores, and by then the machine is known.
Order ==
    /\ pc[Bsp] # "init" => \A c \in Aps : pc[c] = "off"
    /\ machine = IF pc[Bsp] = "start" THEN Stub ELSE Known

\* The console of each kernel image: the BSP's is chosen from what the stubs
\* know, a copy starts with the BSP's and chooses from what is known.
Consoles ==
    /\ DOMAIN console = {ImageOf(c) : c \in Cores}
    /\ ~Shared =>
          /\ console[ImageOf(Bsp)] =
                IF pc[Bsp] = "start" THEN BuiltIn ELSE FirstConsole
          /\ \A c \in Aps :
                /\ pc[c] = "start" => console[ImageOf(c)] = FirstConsole
                /\ pc[c] \in {"load", "init"} => console[ImageOf(c)] = LastConsole

\* The discovery record of a core that was started is still what init wrote,
\* and so is its handoff on the shared path.
RecordAt(m, c) ==
    LET a == RegionOf(c) + DiscoveryOffset IN a \in DOMAIN m /\ m[a] = <<"discovery", c>>

Records == Safe => \A c \in Aps : pc[c] # "off" => RecordAt(mem, c)

Handoffs ==
    /\ DOMAIN handoff = Cores
    /\ Shared => \A c \in Aps : pc[c] # "off" =>
          /\ DOMAIN handoff[c].boot_info = Info
          /\ \A f \in Services : handoff[c].boot_info[f] = Published[f]
          /\ handoff[c].boot_info.ap_core_state_phys \in {0, c}

\* What core c tells init with the boot_info i: who it is, the BSP's services
\* and its own state to every other core, and the machine.
Tells(c, i) ==
    /\ i.caps = ImageOf(c) /\ i.kernel_invoke = ImageOf(c)
    /\ c = Bsp => i.bsp_kernel_invoke_addr = 0
    /\ (c # Bsp /\ (Shared \/ Arm \/ SlotsHold)) => \A f \in Services : i[f] = Published[f]
    /\ (c # Bsp /\ Arm) => i.ap_core_state_phys = c
    /\ (Arm /\ ~Shared) => i.fdt_blob_phys = Known.fdt
    /\ (c = Bsp /\ ~Shared) =>
          i.early_rsdp_phys = IF Arm THEN Known.rsdp ELSE FindRsdp(input.args, input.fw)

Told == \A c \in Cores : pc[c] = "init" => Tells(c, info[c])

HInv == IInv /\ Order /\ Consoles /\ Records /\ Handoffs /\ Told

\* What follows from the inputs stays what it is.
LEMMA SameMachine ==
    ASSUME input' = input
    PROVE  /\ Stub' = Stub /\ Known' = Known /\ Safe' = Safe
           /\ FirstConsole' = FirstConsole /\ LastConsole' = LastConsole
           /\ \A c \in Cores : ImageOf(c)' = ImageOf(c)
BY Zenon DEF Stub, StubFdt, StubFdtSize, Known, Safe, SlotsHold, Arm, arch, Shared, FirstConsole,
             LastConsole, SerialInit, FdtIsValid, ImageOf

\* Cores with a kernel image of their own.
LEMMA OwnImages ==
    ASSUME input \in Inputs, ~Shared, NEW c \in Cores, NEW d \in Cores, c # d
    PROVE  ImageOf(c) # ImageOf(d)
<1>1. c \in Nat /\ d \in Nat
  BY Sizes, Zenon
<1>2. QED
  BY <1>1 DEF ImageOf

\* The cores that are not the BSP.
LEMMA ApsAreCores ==
    ASSUME input \in Inputs
    PROVE  Bsp \in Cores /\ \A c \in Aps : c \in Cores /\ c # Bsp
BY Sizes, Zenon DEF Bsp

ApMoves(c) == BringUp(c) \/ StartAp(c) \/ FinishAp(c) \/ StartSharedAp(c)

\* A step of another core, or of init for it, is taken when the machine is known.
LEMMA ApMovesLater ==
    ASSUME Control, Order, NEW c \in Aps, ApMoves(c)
    PROVE  /\ pc[Bsp] = "init" /\ pc'[Bsp] = "init" /\ machine' = machine /\ machine = Known
           /\ input' = input /\ \A d \in Cores : d # c => pc'[d] = pc[d]
<1>0. Bsp \in Cores /\ c \in Cores /\ c # Bsp
  BY ApsAreCores, Zenon DEF Control
<1>1. pc[Bsp] = "init"
  BY Zenon DEF Order, ApMoves, BringUp, StartAp, FinishAp, Loaded, StartSharedAp
<1>2. /\ machine' = machine /\ input' = input
      /\ \E p : pc' = [pc EXCEPT ![c] = p]
  <2>1. CASE BringUp(c)
    BY <2>1, Zenon DEF BringUp
  <2>2. CASE StartAp(c)
    BY <2>2, Zenon DEF StartAp, CallMachoLoad
  <2>3. CASE FinishAp(c)
    BY <2>3, Zenon DEF FinishAp, Halt, EnterInit
  <2>4. CASE StartSharedAp(c)
    BY <2>4, Zenon DEF StartSharedAp, Halt, EnterInit
  <2>5. QED
    BY <2>1, <2>2, <2>3, <2>4, Zenon DEF ApMoves
<1>3. \A d \in Cores : d # c => pc'[d] = pc[d]
  BY <1>2, Zenon DEF Control
<1>4. QED
  BY <1>0, <1>1, <1>2, <1>3, Zenon DEF Order

\* The steps, by who takes them.
LEMMA Steps ==
    ASSUME Control, [Next]_vars
    PROVE  \/ StartBsp \/ FinishBsp \/ BootProtocol \/ UNCHANGED vars
           \/ \E c \in Cores : LoadCommand(c)
           \/ \E c \in Aps : ApMoves(c)
BY ZenonT(40) DEF Next, Settled, ApMoves

\* The BSP's steps keep the other cores off, and leave it past its start.
LEMMA BspMoves ==
    ASSUME Control, Order, StartBsp \/ FinishBsp \/ BootProtocol
    PROVE  /\ \A c \in Aps : pc[c] = "off" /\ pc'[c] = "off"
           /\ pc'[Bsp] \in {"load", "init", "halt"}
           /\ input' = input
<1>0. Bsp \in Cores /\ \A c \in Aps : c \in Cores /\ c # Bsp
  BY ApsAreCores, Zenon DEF Control
<1>1. \A c \in Aps : pc[c] = "off"
  BY Zenon DEF Order, StartBsp, FinishBsp, Loaded, BootProtocol
<1>2. /\ input' = input
      /\ \E p \in {"load", "init", "halt"} : pc' = [pc EXCEPT ![Bsp] = p]
  <2>1. CASE StartBsp
    BY <2>1, Zenon DEF StartBsp, CallMachoLoad
  <2>2. CASE FinishBsp
    BY <2>2, Zenon DEF FinishBsp, Halt, EnterInit
  <2>3. CASE BootProtocol
    BY <2>3, Zenon DEF BootProtocol, Halt, EnterInit
  <2>4. QED
    BY <2>1, <2>2, <2>3, Zenon
<1>3. QED
  BY <1>0, <1>1, <1>2, Zenon DEF Control

\* Every step keeps the order.
LEMMA OrderStep ==
    ASSUME Control, Order, [Next]_vars
    PROVE  Order'
<1>1. CASE StartBsp \/ FinishBsp \/ BootProtocol
  <2>1. Known' = Known
    BY <1>1, BspMoves, SameMachine, Zenon
  <2>2. machine' = Known
    <3>1. CASE StartBsp
      <4>1. machine = Stub /\ ~Shared /\ machine' = IF Arm
                  THEN ResolveXnuBootParams(input.x0, machine, input.args, input.fw) ELSE machine
        BY <3>1, Zenon DEF Order, StartBsp
      <4>2. QED
        BY <4>1, Zenon DEF Known
    <3>2. CASE FinishBsp
      BY <3>2, Zenon DEF Order, FinishBsp, Loaded
    <3>3. CASE BootProtocol
      BY <3>3, Zenon DEF Order, BootProtocol, Known
    <3>4. QED
      BY <1>1, <3>1, <3>2, <3>3, Zenon
  <2>3. QED
    BY <1>1, <2>1, <2>2, BspMoves, Zenon DEF Order
<1>2. CASE UNCHANGED vars
  BY <1>2, SameMachine, Zenon DEF vars, Order
<1>3. CASE \E c \in Cores : LoadCommand(c)
  <2>1. pc' = pc /\ machine' = machine /\ input' = input
    BY <1>3, Zenon DEF LoadCommand
  <2>2. QED
    BY <2>1, SameMachine, Zenon DEF Order
<1>4. CASE \E c \in Aps : ApMoves(c)
  <2>1. pc'[Bsp] = "init" /\ machine' = Known /\ input' = input
    BY <1>4, ApMovesLater, Zenon
  <2>2. QED
    BY <2>1, SameMachine, Zenon DEF Order
<1>5. QED
  BY <1>1, <1>2, <1>3, <1>4, Steps, Zenon

\* Choosing a console in one's own image.
LEMMA Chosen ==
    ASSUME input \in Inputs, ~Shared, DOMAIN console = {ImageOf(c) : c \in Cores},
           NEW c \in Cores, ChooseConsole(c)
    PROVE  /\ DOMAIN console' = DOMAIN console
           /\ console'[ImageOf(c)] = SerialInit(console[ImageOf(c)], machine)
           /\ \A d \in Cores : d # c => console'[ImageOf(d)] = console[ImageOf(d)]
<1>1. \A d \in Cores : d # c => ImageOf(d) # ImageOf(c)
  BY OwnImages, Zenon
<1>2. ImageOf(c) \in DOMAIN console /\ \A d \in Cores : ImageOf(d) \in DOMAIN console
  BY Zenon
<1>3. console' = [console EXCEPT ![ImageOf(c)] = SerialInit(console[ImageOf(c)], machine)]
  BY Zenon DEF ChooseConsole
<1>4. QED
  BY <1>1, <1>2, <1>3, Zenon

\* Every step keeps the consoles chosen.
LEMMA ConsolesStep ==
    ASSUME Control, Order, Consoles, [Next]_vars
    PROVE  Consoles'
<1>0. /\ input \in Inputs /\ Bsp \in Cores /\ \A c \in Aps : c \in Cores /\ c # Bsp
      /\ DOMAIN console = {ImageOf(c) : c \in Cores}
  BY ApsAreCores, Zenon DEF Control, Consoles
<1>1. CASE UNCHANGED <<input, console>> /\ (~Shared => pc'[Bsp] # "start" /\ pc[Bsp] # "start")
           /\ \A c \in Aps : pc'[c] = pc[c] \/ pc'[c] \in {"off", "halt"}
                             \/ (pc[c] = "load" /\ pc'[c] = "init")
  <2>1. {ImageOf(c) : c \in Cores}' = {ImageOf(c) : c \in Cores}
    BY <1>1, SameMachine, Zenon
  <2>2. QED
    BY <1>0, <1>1, <2>1, SameInput, SameMachine, ZenonT(40) DEF Consoles
<1>2. CASE StartBsp
  <2>1. ~Shared /\ ChooseConsole(Bsp) /\ machine = Stub /\ pc[Bsp] = "start" /\ input' = input
    BY <1>2, Zenon DEF StartBsp, Order
  <2>2. /\ DOMAIN console' = DOMAIN console
        /\ console'[ImageOf(Bsp)] = SerialInit(console[ImageOf(Bsp)], machine)
    BY <1>0, <2>1, Chosen, Zenon
  <2>3. console[ImageOf(Bsp)] = BuiltIn
    BY <2>1, Zenon DEF Consoles
  <2>4. console'[ImageOf(Bsp)] = FirstConsole
    BY <2>1, <2>2, <2>3, Zenon DEF FirstConsole
  <2>5. pc'[Bsp] # "start" /\ \A c \in Aps : pc'[c] = "off"
    BY <1>2, BspMoves, Zenon
  <2>6. {ImageOf(c) : c \in Cores}' = {ImageOf(c) : c \in Cores}
    BY <2>1, SameMachine, Zenon
  <2>7. QED
    BY <1>0, <2>1, <2>2, <2>4, <2>5, <2>6, SameMachine, SameInput, Zenon DEF Consoles
<1>3. CASE FinishBsp
  <2>1. /\ UNCHANGED <<input, console>> /\ pc[Bsp] = "load"
    BY <1>3, Zenon DEF FinishBsp, Loaded
  <2>2. pc'[Bsp] # "start" /\ \A c \in Aps : pc'[c] = pc[c]
    BY <1>3, BspMoves, Zenon
  <2>3. QED
    BY <1>1, <2>1, <2>2, Zenon
<1>4. CASE Shared /\ input' = input /\ DOMAIN console' = DOMAIN console
  <2>1. {ImageOf(c) : c \in Cores}' = {ImageOf(c) : c \in Cores} /\ Shared'
    BY <1>4, SameMachine, SameInput, Zenon
  <2>2. QED
    BY <1>0, <1>4, <2>1, Zenon DEF Consoles
<1>5. CASE BootProtocol
  BY <1>4, <1>5, Zenon DEF BootProtocol, ChooseConsole
<1>6. CASE \E c \in Cores : LoadCommand(c)
  <2>1. pc' = pc /\ UNCHANGED <<input, console>>
    BY <1>6, Zenon DEF LoadCommand
  <2>2. {ImageOf(c) : c \in Cores}' = {ImageOf(c) : c \in Cores}
    BY <2>1, SameMachine, Zenon
  <2>3. QED
    BY <1>0, <2>1, <2>2, SameInput, SameMachine, Zenon DEF Consoles
<1>7. CASE UNCHANGED vars
  <2>1. pc' = pc /\ UNCHANGED <<input, console>>
    BY <1>7, Zenon DEF vars
  <2>2. {ImageOf(c) : c \in Cores}' = {ImageOf(c) : c \in Cores}
    BY <2>1, SameMachine, Zenon
  <2>3. QED
    BY <1>0, <2>1, <2>2, SameInput, SameMachine, Zenon DEF Consoles
<1>8. ASSUME NEW c \in Aps, BringUp(c), ~Shared PROVE Consoles'
  <2>1. console' = [console EXCEPT ![ImageOf(c)] = console[ImageOf(Bsp)]] /\ input' = input
    BY <1>8, Zenon DEF BringUp
  <2>2. /\ pc[Bsp] = "init" /\ pc'[Bsp] = "init" /\ pc'[c] = "start"
        /\ \A d \in Cores : d # c => pc'[d] = pc[d]
    BY <1>0, <1>8, ApMovesLater, Zenon DEF ApMoves, BringUp, Control
  <2>3. \A d \in Cores : d # c => ImageOf(d) # ImageOf(c)
    BY <1>0, <1>8, OwnImages, Zenon
  <2>4. /\ DOMAIN console' = DOMAIN console
        /\ console'[ImageOf(c)] = FirstConsole
        /\ \A d \in Cores : d # c => console'[ImageOf(d)] = console[ImageOf(d)]
    BY <1>0, <1>8, <2>1, <2>2, <2>3, Zenon DEF Consoles
  <2>5. {ImageOf(d) : d \in Cores}' = {ImageOf(d) : d \in Cores}
    BY <2>1, SameMachine, Zenon
  <2>6. /\ console'[ImageOf(Bsp)] = FirstConsole
        /\ \A d \in Aps :
              /\ pc'[d] = "start" => console'[ImageOf(d)] = FirstConsole
              /\ pc'[d] \in {"load", "init"} => console'[ImageOf(d)] = LastConsole
    BY <1>0, <1>8, <2>2, <2>4, ZenonT(40) DEF Consoles
  <2>7. QED
    BY <1>0, <2>1, <2>2, <2>4, <2>5, <2>6, SameMachine, SameInput, ZenonT(40) DEF Consoles
<1>9. ASSUME NEW c \in Aps, StartAp(c) PROVE Consoles'
  <2>1. ~Shared /\ ChooseConsole(c) /\ pc[c] = "start" /\ input' = input
    BY <1>9, Zenon DEF StartAp
  <2>2. /\ pc[Bsp] = "init" /\ pc'[Bsp] = "init" /\ machine = Known
        /\ \A d \in Cores : d # c => pc'[d] = pc[d]
    BY <1>9, ApMovesLater, Zenon DEF ApMoves
  <2>3. pc'[c] \in {"load", "halt"}
    BY <1>0, <1>9, Zenon DEF StartAp, CallMachoLoad, Control
  <2>4. /\ DOMAIN console' = DOMAIN console
        /\ console'[ImageOf(c)] = SerialInit(console[ImageOf(c)], machine)
        /\ \A d \in Cores : d # c => console'[ImageOf(d)] = console[ImageOf(d)]
    BY <1>0, <2>1, Chosen, Zenon
  <2>5. console'[ImageOf(c)] = LastConsole
    BY <2>1, <2>2, <2>4, Zenon DEF Consoles, LastConsole
  <2>6. {ImageOf(d) : d \in Cores}' = {ImageOf(d) : d \in Cores}
    BY <2>1, SameMachine, Zenon
  <2>7. /\ console'[ImageOf(Bsp)] = FirstConsole
        /\ \A d \in Aps :
              /\ pc'[d] = "start" => console'[ImageOf(d)] = FirstConsole
              /\ pc'[d] \in {"load", "init"} => console'[ImageOf(d)] = LastConsole
    BY <1>0, <2>1, <2>2, <2>3, <2>4, <2>5, ZenonT(40) DEF Consoles
  <2>8. QED
    BY <1>0, <2>1, <2>2, <2>4, <2>6, <2>7, SameMachine, SameInput, ZenonT(40) DEF Consoles
<1>10. ASSUME NEW c \in Aps, FinishAp(c) PROVE Consoles'
  <2>1. UNCHANGED <<input, console>> /\ pc[c] = "load"
    BY <1>10, Zenon DEF FinishAp, Loaded
  <2>2. /\ pc[Bsp] = "init" /\ pc'[Bsp] = "init"
        /\ \A d \in Cores : d # c => pc'[d] = pc[d]
    BY <1>10, ApMovesLater, Zenon DEF ApMoves
  <2>3. pc'[c] \in {"init", "halt"}
    BY <1>0, <1>10, Zenon DEF FinishAp, Halt, EnterInit, Control
  <2>4. QED
    BY <1>0, <1>1, <2>1, <2>2, <2>3, ZenonT(40)
<1>11. ASSUME NEW c \in Aps, Shared, BringUp(c) \/ StartSharedAp(c) PROVE Consoles'
  BY <1>4, <1>11, Zenon DEF BringUp, StartSharedAp, ChooseConsole
<1>12. CASE \E c \in Aps : ApMoves(c)
  BY <1>8, <1>9, <1>10, <1>11, <1>12, ZenonT(40) DEF ApMoves, StartSharedAp
<1>13. QED
  BY <1>2, <1>3, <1>5, <1>6, <1>7, <1>12, Steps, Zenon

\* A core is off until init brings it up.
LEMMA OffUntilBroughtUp ==
    ASSUME Control, Order, [Next]_vars, NEW c \in Aps, pc[c] = "off", ~BringUp(c)
    PROVE  pc'[c] = "off"
<1>0. c \in Cores
  BY ApsAreCores, Zenon DEF Control
<1>1. CASE StartBsp \/ FinishBsp \/ BootProtocol
  BY <1>1, BspMoves, Zenon
<1>2. CASE UNCHANGED vars
  BY <1>2, Zenon DEF vars
<1>3. CASE \E d \in Cores : LoadCommand(d)
  BY <1>3, Zenon DEF LoadCommand
<1>4. ASSUME NEW d \in Aps, ApMoves(d) PROVE pc'[c] = "off"
  <2>1. CASE d = c
    BY <1>4, <2>1, Zenon DEF ApMoves, StartAp, FinishAp, Loaded, StartSharedAp
  <2>2. CASE d # c
    BY <1>0, <1>4, <2>2, ApMovesLater, Zenon
  <2>3. QED
    BY <2>1, <2>2, Zenon
<1>5. QED
  BY <1>1, <1>2, <1>3, <1>4, Steps, Zenon

\* Where the slots are to be relied on, a core is started only if they hold.
LEMMA StartedHold ==
    ASSUME Control, Safe, NEW c \in Aps, pc[c] # "off"
    PROVE  SlotsHold
<1>1. c \in Cores /\ c # Bsp
  BY ApsAreCores, Zenon DEF Control
<1>2. QED
  BY <1>1, Zenon DEF Control, CoreOK, Safe

\* The address of a discovery record belongs to nothing else.
LEMMA RecordSpared ==
    ASSUME input \in Inputs, SlotsHold, NEW c \in Aps
    PROVE  LET a == RegionOf(c) + DiscoveryOffset
           IN  /\ \A d \in Cores :
                     /\ a \notin KernelRange(d)
                     /\ Loadable(input.init) =>
                           \A j \in Segments(input.init) :
                               a \notin SegmentRange(Displacement(d), Commands(input.init)[j])
               /\ \A d \in Aps : a \notin DOMAIN PageTables(d)
               /\ \A d \in Aps : d # c => a # RegionOf(d) + DiscoveryOffset
<1> DEFINE a == RegionOf(c) + DiscoveryOffset
<1>1. /\ DiscoveryOffset \in Nat /\ 1 \in Nat /\ DiscoveryOffset <= DiscoveryOffset
      /\ DiscoveryOffset + 1 <= RegionSize
  BY Windows, Zenon
<1>2. arch \in Arches /\ \A d \in Aps : d \in Nat \ {0} /\ d \in Cores
  BY Sizes, Zenon
<1>3. ASSUME NEW d \in Aps
      PROVE  RegionOf(d) + DiscoveryOffset \in Span(Region(arch, d) + DiscoveryOffset, 1)
  <2>1. Region(arch, d) \in Int /\ RegionOf(d) = Region(arch, d)
    BY <1>2, Bases, Zenon DEF RegionOf, KernelBase
  <2>2. RegionOf(d) + DiscoveryOffset = Region(arch, d) + DiscoveryOffset + 0
    BY <1>1, <2>1
  <2>3. QED
    BY <2>2 DEF Span
<1>4. a \in Span(Region(arch, c) + DiscoveryOffset, 1)
  BY <1>3, Zenon
<1> HIDE DEF a
<1>5. \A d \in Cores :
         /\ a \notin KernelRange(d)
         /\ Loadable(input.init) =>
               \A j \in Segments(input.init) :
                   a \notin SegmentRange(Displacement(d), Commands(input.init)[j])
  BY <1>1, <1>4, WindowSpared, Zenon
<1>6. ASSUME NEW d \in Aps, a \in DOMAIN PageTables(d) PROVE FALSE
  <2>1. CASE Arm
    BY <1>6, <2>1, Zenon DEF PageTables, Nothing
  <2>2. CASE ~Arm
    BY <1>6, <2>2, TablesSpared, Zenon DEF a
  <2>3. QED
    BY <2>1, <2>2, Zenon
<1>7. ASSUME NEW d \in Aps, d # c, a = RegionOf(d) + DiscoveryOffset PROVE FALSE
  <2>1. a \in Span(Region(arch, d) + DiscoveryOffset, 1)
    BY <1>3, <1>7, Zenon
  <2>2. c = d
    BY <1>1, <1>2, <1>4, <2>1, WindowsMeet, Zenon
  <2>3. QED
    BY <1>7, <2>2, Zenon
<1>8. QED
  BY <1>5, <1>6, <1>7, Zenon DEF a

\* A step that does not write a record leaves it.
LEMMA RecordKept ==
    ASSUME input' = input, NEW c \in Cores, RecordAt(mem, c), NEW W, Keeps(mem, mem', W),
           RegionOf(c) + DiscoveryOffset \notin W
    PROVE  RecordAt(mem, c)'
BY SameInput, Zenon DEF RecordAt, Keeps

\* Every step keeps the records of the cores that were started.
LEMMA RecordsStep ==
    ASSUME Control, Order, Records, [Next]_vars
    PROVE  Records'
<1>0. /\ input \in Inputs /\ Bsp \in Cores /\ (\A c \in Aps : c \in Cores /\ c # Bsp)
  BY ApsAreCores, Zenon DEF Control
<1>1. input' = input
  BY ZenonT(40) DEF Next, vars, Settled, StartBsp, FinishBsp, BootProtocol, LoadCommand, BringUp, StartAp,
         FinishAp, StartSharedAp
<1> SUFFICES ASSUME Safe, NEW c \in Aps, pc'[c] # "off" PROVE RecordAt(mem, c)'
  BY <1>1, SameMachine, Zenon DEF Records
<1>2. c \in Cores /\ ~Shared
  BY <1>0, Zenon DEF Safe
<1>3. ASSUME pc[c] # "off", NEW W, Keeps(mem, mem', W), RegionOf(c) + DiscoveryOffset \notin W
      PROVE  RecordAt(mem, c)'
  BY <1>1, <1>2, <1>3, RecordKept, Zenon DEF Records
<1>4. CASE StartBsp \/ FinishBsp \/ BootProtocol
  BY <1>4, BspMoves, Zenon
<1>5. CASE UNCHANGED vars
  <2>1. pc[c] # "off" /\ Keeps(mem, mem', {})
    BY <1>5, Zenon DEF vars, Keeps
  <2>2. QED
    BY <1>3, <2>1, Zenon
<1>6. ASSUME NEW d \in Cores, LoadCommand(d) PROVE RecordAt(mem, c)'
  <2> DEFINE w == LoadWrite(d)
             n == at[d]
  <2>1. pc[c] # "off" /\ pc[d] = "load"
    BY <1>6, Zenon DEF LoadCommand
  <2>2. SlotsHold /\ Loadable(input.init)
    BY <1>2, <1>6, <2>1, StartedHold, Zenon DEF Control, CoreOK
  <2>3. /\ mem' = Store(w, mem)
        /\ n \in Segments(input.init) =>
              DOMAIN w = SegmentRange(Displacement(d), Commands(input.init)[n])
        /\ n \notin Segments(input.init) => DOMAIN w = {}
    BY <1>6, LoadWrites, Zenon
  <2> HIDE DEF w, n
  <2>4. Keeps(mem, mem', DOMAIN w)
    BY <2>3, StoreKeeps, Zenon
  <2>5. RegionOf(c) + DiscoveryOffset \notin DOMAIN w
    BY <1>0, <1>6, <2>2, <2>3, RecordSpared, Zenon
  <2>6. QED
    BY <1>3, <2>1, <2>4, <2>5, Zenon
<1>7. ASSUME NEW d \in Aps, BringUp(d) PROVE RecordAt(mem, c)'
  <2> DEFINE image == Write("kernel", RegionOf(d), input.kernel_len)
             record == [a \in {RegionOf(d) + DiscoveryOffset} |-> <<"discovery", d>>]
  <2>1. /\ pc[Bsp] = "init" /\ pc' = [pc EXCEPT ![d] = "start"]
        /\ info[Bsp].kernel_boot_ap_addr # 0 /\ info[Bsp].kernel_image_len # 0
        /\ mem' = Store(Write("kernel", RegionOf(d), info[Bsp].kernel_image_len), Store(record, mem))
    BY <1>2, <1>7, Zenon DEF BringUp
  <2>2. SlotsHold /\ info[Bsp].kernel_image_len = input.kernel_len
    BY <1>2, <2>1, Zenon DEF Control, BspSays, Safe
  <2>3. mem' = Store(image, Store(record, mem)) /\ DOMAIN image = KernelRange(d)
    BY <1>0, <2>1, <2>2, Zenon DEF KernelRange, KernelOf, Write
  <2>4. DOMAIN record = {RegionOf(d) + DiscoveryOffset}
    BY Zenon
  <2>5. RegionOf(c) + DiscoveryOffset \notin DOMAIN image
    BY <1>0, <2>2, <2>3, RecordSpared, Zenon
  <2>6. CASE c = d
    <3>1. RecordAt(Store(record, mem), c)
      BY <2>6, Zenon DEF RecordAt, Store
    <3> HIDE DEF image, record
    <3>2. Keeps(Store(record, mem), mem', DOMAIN image)
      BY <2>3, StoreKeeps, Zenon
    <3>3. RecordAt(mem', c)
      BY <2>5, <3>1, <3>2, Zenon DEF RecordAt, Keeps
    <3>4. QED
      BY <1>1, <1>2, <3>3, SameInput, Zenon DEF RecordAt
  <2>7. CASE c # d
    <3>1. pc[c] # "off"
      BY <1>0, <2>1, <2>7, Zenon DEF Control
    <3>2. RegionOf(c) + DiscoveryOffset \notin DOMAIN record
      BY <1>0, <2>2, <2>4, <2>7, RecordSpared, Zenon
    <3> HIDE DEF image, record
    <3>3. Keeps(mem, mem', DOMAIN image \cup DOMAIN record)
      <4>1. Keeps(mem, Store(record, mem), DOMAIN record)
        BY StoreKeeps, Zenon
      <4>2. Keeps(Store(record, mem), mem', DOMAIN image)
        BY <2>3, StoreKeeps, Zenon
      <4>3. QED
        BY <4>1, <4>2, Zenon DEF Keeps
    <3>4. QED
      BY <1>3, <2>5, <3>1, <3>2, <3>3, Zenon
  <2>8. QED
    BY <2>6, <2>7, Zenon
<1>8. ASSUME NEW d \in Aps, StartAp(d) PROVE RecordAt(mem, c)'
  <2>1. pc[c] # "off"
    <3>1. CASE d = c
      BY <1>8, <3>1, Zenon DEF StartAp
    <3>2. CASE d # c
      BY <1>2, <1>8, <3>2, ApMovesLater, Zenon DEF ApMoves
    <3>3. QED
      BY <3>1, <3>2, Zenon
  <2>2. mem' = Store(PageTables(d), mem)
    BY <1>8, Zenon DEF StartAp, CallMachoLoad
  <2>3. Keeps(mem, mem', DOMAIN PageTables(d))
    BY <2>2, StoreKeeps, Zenon
  <2>4. RegionOf(c) + DiscoveryOffset \notin DOMAIN PageTables(d)
    BY <1>0, <2>1, StartedHold, RecordSpared, Zenon
  <2>5. QED
    BY <1>3, <2>1, <2>3, <2>4, Zenon
<1>9. ASSUME NEW d \in Aps, FinishAp(d) PROVE RecordAt(mem, c)'
  <2>1. pc[d] = "load" /\ mem' = mem
    BY <1>9, Zenon DEF FinishAp, Loaded, Halt, EnterInit
  <2>2. pc[c] # "off"
    <3>1. CASE d = c
      BY <2>1, <3>1, Zenon
    <3>2. CASE d # c
      BY <1>2, <1>9, <3>2, ApMovesLater, Zenon DEF ApMoves
    <3>3. QED
      BY <3>1, <3>2, Zenon
  <2>3. Keeps(mem, mem', {})
    BY <2>1, Zenon DEF Keeps
  <2>4. QED
    BY <1>3, <2>2, <2>3, Zenon
<1>10. CASE \E d \in Aps : ApMoves(d)
  BY <1>2, <1>7, <1>8, <1>9, <1>10, Zenon DEF ApMoves, StartSharedAp
<1>11. QED
  BY <1>4, <1>5, <1>6, <1>10, Steps, Zenon

\* The names of the fields.
LEMMA FieldNames ==
    /\ \A f \in Services : f \in Info
    /\ \A f \in Services :
          f \notin {"caps", "kernel_invoke", "kernel_boot_ap_addr", "kernel_load_base", "pml4_phys",
                    "ap_core_state_phys", "fdt_blob_phys"}
    /\ {"caps", "kernel_invoke", "fdt_blob_phys", "early_rsdp_phys",
        "bsp_kernel_invoke_addr", "ap_core_state_phys"} \subseteq Info
    /\ {"early_rsdp_phys", "bsp_kernel_invoke_addr"} \subseteq Services
BY Zenon DEF Info, Services

\* Every step keeps the handoffs of the cores that were started.
LEMMA HandoffsStep ==
    ASSUME Control, Order, Handoffs, [Next]_vars
    PROVE  Handoffs'
<1>0. \A c \in Aps : c \in Cores /\ c # Bsp
  BY ApsAreCores, Zenon DEF Control
<1>1. input' = input /\ (handoff' = handoff \/ \E c \in Aps : BringUp(c) /\ Shared)
  BY ZenonT(40) DEF Next, vars, Settled, StartBsp, FinishBsp, BootProtocol, LoadCommand, BringUp, StartAp,
         FinishAp, StartSharedAp
<1>2. CASE handoff' = handoff /\ ~(\E c \in Aps : BringUp(c) /\ Shared)
  <2>1. \A c \in Aps : (Shared /\ pc'[c] # "off") => pc[c] # "off"
    BY <1>2, OffUntilBroughtUp, Zenon
  <2>2. (Shared' <=> Shared) /\ DOMAIN handoff' = Cores
    BY <1>1, <1>2, SameInput, Zenon DEF Handoffs
  <2>3. Shared => \A c \in Aps : pc'[c] # "off" =>
           /\ DOMAIN handoff'[c].boot_info = Info
           /\ \A f \in Services : handoff'[c].boot_info[f] = Published[f]
           /\ handoff'[c].boot_info.ap_core_state_phys \in {0, c}
    BY <1>2, <2>1, Zenon DEF Handoffs
  <2>4. QED
    BY <2>2, <2>3, Zenon DEF Handoffs
<1>3. ASSUME NEW c \in Aps, BringUp(c), Shared PROVE Handoffs'
  <2>1. pc' = [pc EXCEPT ![c] = "start"]
    BY <1>3, Zenon DEF BringUp
  <2>2. PICK b : /\ handoff' = [handoff EXCEPT ![c] = b]
                 /\ DOMAIN b.boot_info = Info
                 /\ \A f \in Services : b.boot_info[f] = Published[f]
                 /\ b.boot_info.ap_core_state_phys \in {0, c}
    <3>1. PICK a \in {0, c}, s \in {0, c}, e \in {0, info[Bsp].init_entry_addr} :
             handoff' = [handoff EXCEPT ![c] =
                [addr |-> a, init_entry |-> e,
                 boot_info |-> [f \in Info |->
                    IF f \in Services THEN Published[f]
                    ELSE IF f = "ap_core_state_phys" THEN s ELSE 0]]]
      BY <1>3, Zenon DEF BringUp
    <3> DEFINE F == [f \in Info |-> IF f \in Services THEN Published[f]
                                    ELSE IF f = "ap_core_state_phys" THEN s ELSE 0]
               b == [addr |-> a, init_entry |-> e, boot_info |-> F]
    <3>2. /\ DOMAIN F = Info /\ \A f \in Services : F[f] = Published[f]
          /\ F.ap_core_state_phys \in {0, c}
      BY FieldNames, Zenon
    <3>3. handoff' = [handoff EXCEPT ![c] = b]
      BY <3>1, Zenon
    <3> HIDE DEF F
    <3>4. b.boot_info = F
      OBVIOUS
    <3>5. /\ DOMAIN b.boot_info = Info /\ \A f \in Services : b.boot_info[f] = Published[f]
          /\ b.boot_info.ap_core_state_phys \in {0, c}
      BY <3>2, <3>4, Zenon
    <3> HIDE DEF b
    <3>6. QED
      BY <3>3, <3>5, Zenon
  <2>3. /\ handoff'[c] = b /\ \A d \in Cores : d # c => handoff'[d] = handoff[d] /\ pc'[d] = pc[d]
        /\ DOMAIN handoff' = Cores
    BY <1>0, <2>1, <2>2, Zenon DEF Control, Handoffs
  <2>4. Shared' /\ \A d \in Aps : pc'[d] # "off" =>
           /\ DOMAIN handoff'[d].boot_info = Info
           /\ \A f \in Services : handoff'[d].boot_info[f] = Published[f]
           /\ handoff'[d].boot_info.ap_core_state_phys \in {0, d}
    BY <1>0, <1>1, <1>3, <2>2, <2>3, SameInput, Zenon DEF Handoffs
  <2>5. QED
    BY <2>3, <2>4, Zenon DEF Handoffs
<1>4. QED
  BY <1>1, <1>2, <1>3, Zenon

-----------------------------------------------------------------------------
\* What each of the four boot_infos tells init.

\* kernel_boot and kernel_boot_aarch64.
LEMMA BspTells ==
    ASSUME ~Shared, machine = Known
    PROVE  Tells(Bsp, IF Arm THEN BspInfoArm ELSE BspInfoX86)
<1>1. /\ BspInfoArm.caps = ImageOf(Bsp) /\ BspInfoArm.kernel_invoke = ImageOf(Bsp)
      /\ BspInfoArm.bsp_kernel_invoke_addr = 0 /\ BspInfoArm.fdt_blob_phys = Known.fdt
      /\ BspInfoArm.early_rsdp_phys = Known.rsdp
  BY FieldNames, Zenon DEF BspInfoArm, ZeroInfo
<1>2. /\ BspInfoX86.caps = ImageOf(Bsp) /\ BspInfoX86.kernel_invoke = ImageOf(Bsp)
      /\ BspInfoX86.bsp_kernel_invoke_addr = 0
      /\ BspInfoX86.early_rsdp_phys = FindRsdp(input.args, input.fw)
  BY FieldNames, Zenon DEF BspInfoX86, ZeroInfo
<1>3. QED
  BY <1>1, <1>2, Zenon DEF Tells

\* kernel_boot_aarch64_boot_protocol.
ProtocolInfo ==
    [ZeroInfo EXCEPT
        !.caps = ImageOf(Bsp), !.kernel_invoke = ImageOf(Bsp),
        !.kernel_load_base = KernelLoadBase[arch],
        !.kernel_boot_ap_addr = ImageOf(Bsp),
        !.init_description_phys = input.init_description,
        !.init_entry_addr = input.init_entry,
        !.fdt_blob_phys = machine.fdt]

LEMMA ProtocolTells ==
    ASSUME Shared
    PROVE  Tells(Bsp, ProtocolInfo)
<1>1. /\ ProtocolInfo.caps = ImageOf(Bsp) /\ ProtocolInfo.kernel_invoke = ImageOf(Bsp)
      /\ ProtocolInfo.bsp_kernel_invoke_addr = 0
  BY FieldNames, Zenon DEF ProtocolInfo, ZeroInfo
<1>2. QED
  BY <1>1, Zenon DEF Tells

\* kernel_boot_ap and kernel_boot_ap_aarch64.
LEMMA ApTells ==
    ASSUME ~Shared, machine = Known, NEW c \in Aps, c # Bsp, (Arm \/ SlotsHold) => RecordAt(mem, c)
    PROVE  Tells(c, ApInfo(c))
<1>1. ApInfo(c).caps = ImageOf(c) /\ ApInfo(c).kernel_invoke = ImageOf(c)
  BY FieldNames, Zenon DEF ApInfo
<1>2. Arm => ApInfo(c).fdt_blob_phys = Known.fdt
  BY FieldNames, Zenon DEF ApInfo
<1>3. \A f \in Services : ApInfo(c)[f] = Discovery(c, f)
  BY FieldNames, Zenon DEF ApInfo, ReadServices
<1>4. (Arm \/ SlotsHold) => \A f \in Services : ApInfo(c)[f] = Published[f]
  BY <1>3, FieldNames, Zenon DEF Discovery, RecordAt
<1>5. Arm => ApInfo(c).ap_core_state_phys = Discovery(c, "ap_core_state_phys")
  BY FieldNames, Zenon DEF ApInfo
<1>6. Arm => ApInfo(c).ap_core_state_phys = c
  BY <1>5, Zenon DEF Discovery, RecordAt
<1>7. QED
  BY <1>1, <1>2, <1>4, <1>6, Zenon DEF Tells

\* kernel_boot_ap_shared_aarch64.
LEMMA SharedTells ==
    ASSUME Shared, NEW c \in Aps, c # Bsp, NEW b, DOMAIN b = Info,
           \A f \in Services : b[f] = Published[f], b.ap_core_state_phys = c
    PROVE  Tells(c, [b EXCEPT !.caps = ImageOf(c), !.kernel_invoke = ImageOf(c)])
<1> DEFINE i == [b EXCEPT !.caps = ImageOf(c), !.kernel_invoke = ImageOf(c)]
<1>1. i.caps = ImageOf(c) /\ i.kernel_invoke = ImageOf(c)
  BY FieldNames, Zenon
<1>2. (\A f \in Services : i[f] = Published[f]) /\ i.ap_core_state_phys = c
  BY FieldNames, Zenon
<1> HIDE DEF i
<1>3. Tells(c, i)
  BY <1>1, <1>2, Zenon DEF Tells
<1>4. QED
  BY <1>3, Zenon DEF i

\* What init was told stays told.
LEMMA TellsKept ==
    ASSUME input' = input, NEW c \in Cores, NEW i, i = info'[c], Tells(c, i)
    PROVE  Tells(c, info[c])'
<1>1. FindRsdp(input.args, input.fw)' = FindRsdp(input.args, input.fw)
  BY Zenon
<1>2. (Arm' <=> Arm) /\ (Shared' <=> Shared) /\ (SlotsHold' <=> SlotsHold)
  BY Zenon DEF Arm, arch, Shared, SlotsHold
<1>3. ImageOf(c)' = ImageOf(c) /\ Known.fdt' = Known.fdt /\ Known.rsdp' = Known.rsdp
  BY SameMachine, Zenon
<1>4. QED
  BY <1>1, <1>2, <1>3, Zenon DEF Tells

\* Every step tells init what it is to be told.
LEMMA ToldStep ==
    ASSUME Control, Order, Records, Handoffs, Told, [Next]_vars
    PROVE  Told'
<1>0. /\ input \in Inputs /\ Bsp \in Cores /\ (\A c \in Aps : c \in Cores /\ c # Bsp)
      /\ DOMAIN info = Cores /\ DOMAIN pc = Cores
  BY ApsAreCores, Zenon DEF Control
<1>1. input' = input
  BY ZenonT(40) DEF Next, vars, Settled, StartBsp, FinishBsp, BootProtocol, LoadCommand, BringUp, StartAp,
         FinishAp, StartSharedAp
<1> SUFFICES ASSUME NEW c \in Cores, pc'[c] = "init" PROVE Tells(c, info[c])'
  BY Zenon DEF Told
<1>2. ASSUME NEW i, Tells(c, i), info'[c] = i PROVE Tells(c, info[c])'
  BY <1>1, <1>2, TellsKept, Zenon
<1>3. CASE pc[c] = "init" /\ info'[c] = info[c]
  BY <1>2, <1>3, Zenon DEF Told
<1>4. c # Bsp => c \in Aps
  BY Zenon DEF Cores
<1>5. CASE StartBsp
  BY <1>0, <1>4, <1>5, BspMoves, Zenon DEF StartBsp, CallMachoLoad
<1>6. CASE FinishBsp
  <2>1. c = Bsp
    BY <1>4, <1>6, BspMoves, Zenon
  <2>2. pc[Bsp] = "load" /\ EnterInit(Bsp, IF Arm THEN BspInfoArm ELSE BspInfoX86, Entry(input.init, 0))
    BY <1>0, <1>6, <2>1, Zenon DEF FinishBsp, Loaded, Halt
  <2>3. ~Shared /\ machine = Known
    BY <1>0, <2>2, Zenon DEF Control, CoreOK, Order
  <2>4. info'[Bsp] = IF Arm THEN BspInfoArm ELSE BspInfoX86
    BY <1>0, <2>2, Zenon DEF EnterInit
  <2>5. QED
    BY <1>2, <2>1, <2>3, <2>4, BspTells, Zenon
<1>7. CASE BootProtocol
  <2>1. c = Bsp
    BY <1>4, <1>7, BspMoves, Zenon
  <2>2. Shared /\ EnterInit(Bsp, ProtocolInfo, input.init_entry)
    BY <1>0, <1>7, <2>1, Zenon DEF BootProtocol, Halt, ProtocolInfo
  <2>3. info'[Bsp] = ProtocolInfo
    BY <1>0, <2>2, Zenon DEF EnterInit
  <2>4. QED
    BY <1>2, <2>1, <2>2, <2>3, ProtocolTells, Zenon
<1>8. CASE UNCHANGED vars
  BY <1>3, <1>8, Zenon DEF vars
<1>9. CASE \E d \in Cores : LoadCommand(d)
  BY <1>3, <1>9, Zenon DEF LoadCommand
<1>10. ASSUME NEW d \in Aps, BringUp(d) \/ StartAp(d) PROVE Tells(c, info[c])'
  <2>1. info' = info /\ pc'[d] # "init"
    BY <1>0, <1>10, Zenon DEF BringUp, StartAp, CallMachoLoad
  <2>2. pc[c] = "init"
    BY <1>10, <2>1, ApMovesLater, Zenon DEF ApMoves
  <2>3. QED
    BY <1>3, <2>1, <2>2, Zenon
<1>11. ASSUME NEW d \in Aps, FinishAp(d) PROVE Tells(c, info[c])'
  <2>1. CASE c = d
    <3>1. pc[c] = "load" /\ EnterInit(c, ApInfo(c), Entry(input.init, slide[c]))
      BY <1>0, <1>11, <2>1, Zenon DEF FinishAp, Loaded, Halt
    <3>2. ~Shared /\ machine = Known
      BY <1>11, <3>1, ApMovesLater, Zenon DEF Control, CoreOK, ApMoves
    <3>3. (Arm \/ SlotsHold) => RecordAt(mem, c)
      BY <1>11, <2>1, <3>1, <3>2, Zenon DEF Records, Safe
    <3>4. info'[c] = ApInfo(c)
      BY <1>0, <3>1, Zenon DEF EnterInit
    <3>5. QED
      BY <1>0, <1>2, <1>11, <2>1, <3>2, <3>3, <3>4, ApTells, Zenon
  <2>2. CASE c # d
    <3>1. pc[c] = "init"
      BY <1>11, <2>2, ApMovesLater, Zenon DEF ApMoves
    <3>2. info'[c] = info[c]
      BY <1>0, <1>11, <2>2, Zenon DEF FinishAp, Halt, EnterInit
    <3>3. QED
      BY <1>3, <3>1, <3>2, Zenon
  <2>3. QED
    BY <2>1, <2>2, Zenon
<1>12. ASSUME NEW d \in Aps, StartSharedAp(d) PROVE Tells(c, info[c])'
  <2>1. CASE c = d
    <3> DEFINE b == handoff[c].boot_info
    <3>1. /\ pc[c] = "start" /\ Shared /\ b.ap_core_state_phys # 0
          /\ EnterInit(c, [b EXCEPT !.caps = ImageOf(c), !.kernel_invoke = ImageOf(c)],
                       handoff[c].init_entry)
      BY <1>0, <1>12, <2>1, Zenon DEF StartSharedAp, Halt
    <3>2. /\ DOMAIN b = Info /\ \A f \in Services : b[f] = Published[f]
          /\ b.ap_core_state_phys = c
      BY <1>12, <2>1, <3>1, Zenon DEF Handoffs
    <3> HIDE DEF b
    <3>3. info'[c] = [b EXCEPT !.caps = ImageOf(c), !.kernel_invoke = ImageOf(c)]
      BY <1>0, <3>1, Zenon DEF EnterInit
    <3>4. QED
      BY <1>0, <1>2, <1>12, <2>1, <3>1, <3>2, <3>3, SharedTells, Zenon
  <2>2. CASE c # d
    <3>1. pc[c] = "init"
      BY <1>12, <2>2, ApMovesLater, Zenon DEF ApMoves
    <3>2. info'[c] = info[c]
      BY <1>0, <1>12, <2>2, Zenon DEF StartSharedAp, Halt, EnterInit
    <3>3. QED
      BY <1>3, <3>1, <3>2, Zenon
  <2>3. QED
    BY <2>1, <2>2, Zenon
<1>13. CASE \E d \in Aps : ApMoves(d)
  BY <1>10, <1>11, <1>12, <1>13, Zenon DEF ApMoves
<1>14. QED
  BY <1>5, <1>6, <1>7, <1>8, <1>9, <1>13, Steps, Zenon

\* At kernel entry only the stubs have run.
LEMMA HInvInit == Init => HInv
<1> SUFFICES ASSUME Init PROVE HInv
  BY Zenon
<1>1. IInv /\ Control
  BY IInvInit, Zenon DEF IInv
<1>2. Bsp \in Cores /\ \A c \in Aps : c \in Cores /\ c # Bsp
  BY <1>1, ApsAreCores, Zenon DEF Control
<1>3. pc[Bsp] = "start" /\ \A c \in Aps : pc[c] = "off"
  BY <1>2, Zenon DEF Init
<1>4. machine = Stub
  BY Zenon DEF Init, Stub
<1>5. console = [k \in {ImageOf(c) : c \in Cores} |-> BuiltIn]
  BY Zenon DEF Init, BuiltIn
<1>6. /\ DOMAIN console = {ImageOf(c) : c \in Cores} /\ console[ImageOf(Bsp)] = BuiltIn
  BY <1>2, <1>5, Zenon
<1>7. DOMAIN handoff = Cores
  BY Zenon DEF Init
<1>8. Order /\ Consoles /\ Records /\ Handoffs
  BY <1>3, <1>4, <1>6, <1>7, Zenon DEF Order, Consoles, Records, Handoffs
<1>9. Told
  BY <1>3, Zenon DEF Told, Cores
<1>10. QED
  BY <1>1, <1>8, <1>9, Zenon DEF HInv

\* Every step keeps the invariant.
LEMMA HInvStep == HInv /\ [Next]_vars => HInv'
<1> SUFFICES ASSUME HInv, [Next]_vars PROVE HInv'
  BY Zenon
<1>1. Control /\ IInv'
  BY IInvStep, Zenon DEF HInv, IInv
<1>2. Order' /\ Consoles' /\ Records' /\ Handoffs' /\ Told'
  BY <1>1, OrderStep, ConsolesStep, RecordsStep, HandoffsStep, ToldStep, Zenon DEF HInv
<1>3. QED
  BY <1>1, <1>2, Zenon DEF HInv

\* What a core knows when it enters init, in every reachable state.
THEOREM HandoffInvariant == Spec => []HInv
BY HInvInit, HInvStep, PTL DEF Spec

-----------------------------------------------------------------------------
\* What follows for init.

\* For any number of cores, only the BSP hands init a zero
\* bsp_kernel_invoke_addr, every other core hands it the BSP's services from
\* an intact record and, on ARM, its own core state, and copies of the kernel
\* never share a capability table.
THEOREM RolesAndServicesHold == Spec => []RolesAndServices
<1>1. HInv => RolesAndServices
  <2> SUFFICES ASSUME HInv, NEW c \in Cores, pc[c] = "init"
               PROVE  /\ c = Bsp => info[c].bsp_kernel_invoke_addr = 0
                      /\ (c # Bsp /\ (Shared \/ Arm \/ SlotsHold)) =>
                            /\ info[c].bsp_kernel_invoke_addr # 0
                            /\ \A f \in Services : info[c][f] = Published[f]
                            /\ Arm => info[c].ap_core_state_phys = c
                      /\ info[c].caps = info[c].kernel_invoke
                      /\ \A d \in Cores : (pc[d] = "init" /\ d # c /\ ~Shared) =>
                            info[d].caps # info[c].caps
    BY Zenon DEF RolesAndServices
  <2>1. Tells(c, info[c]) /\ input \in Inputs
    BY Zenon DEF HInv, Told, IInv, Control
  <2>2. ASSUME NEW d \in Cores, pc[d] = "init", d # c, ~Shared PROVE info[d].caps # info[c].caps
    <3>1. Tells(d, info[d])
      BY <2>2, Zenon DEF HInv, Told
    <3>2. info[c].caps = ImageOf(c) /\ info[d].caps = ImageOf(d)
      BY <2>1, <3>1, Zenon DEF Tells
    <3>3. QED
      BY <2>1, <2>2, <3>2, OwnImages, Zenon
  <2>3. QED
    BY <2>1, <2>2, FieldNames, PublishedAssumption, Zenon DEF Tells
<1>2. QED
  BY <1>1, HandoffInvariant, PTL

\* What resolve_xnu_boot_params makes of what the stub knows.
LEMMA KnownMachine ==
    ASSUME input \in Inputs, Arm, ~Shared
    PROVE  LET listed == EfiFindTable(input.args, input.fw, "fdt")
               adopted == listed # 0 /\ input.fw.fdt_magic
           IN  /\ StubFdt # 0 => Known = Stub /\ StubFdt = input.x0
               /\ (StubFdt = 0 /\ (input.x0 = 0 \/ input.args.vermajor # 2)) => Known = Stub
               /\ (StubFdt = 0 /\ input.x0 # 0 /\ input.args.vermajor = 2) =>
                     /\ Known.fdt = IF adopted THEN listed ELSE 0
                     /\ Known.size = IF adopted THEN input.fw.fdt_size ELSE StubFdtSize
                     /\ Known.rsdp = IF listed = 0
                                     THEN EfiFindTable(input.args, input.fw, "acpi20") ELSE 0
<1> DEFINE listed == EfiFindTable(input.args, input.fw, "fdt")
           adopted == listed # 0 /\ input.fw.fdt_magic
           other == EfiFindTable(input.args, input.fw, "acpi20")
<1>1. Stub.fdt = StubFdt /\ Stub.size = StubFdtSize /\ Stub.rsdp = 0
  BY DEF Stub
<1>2. StubFdt # 0 => Known = Stub /\ StubFdt = input.x0
  <2>1. ASSUME StubFdt # 0 PROVE StubFdt = input.x0
    BY <2>1, Zenon DEF StubFdt
  <2>2. ASSUME StubFdt # 0 PROVE Known = Stub
    BY <1>1, <2>2, Zenon DEF Known, ResolveXnuBootParams
  <2>3. QED
    BY <2>1, <2>2, Zenon
<1>3. (StubFdt = 0 /\ (input.x0 = 0 \/ input.args.vermajor # 2)) => Known = Stub
  BY Zenon DEF Known, ResolveXnuBootParams
<1>4. ASSUME StubFdt = 0, input.x0 # 0, input.args.vermajor = 2
      PROVE  /\ Known.fdt = IF adopted THEN listed ELSE 0
             /\ Known.size = IF adopted THEN input.fw.fdt_size ELSE StubFdtSize
             /\ Known.rsdp = IF listed = 0 THEN other ELSE 0
  <2>1. Known = [Stub EXCEPT !.fdt  = IF adopted THEN listed ELSE Stub.fdt,
                             !.size = IF adopted THEN input.fw.fdt_size ELSE Stub.size,
                             !.rsdp = IF listed = 0 THEN other ELSE Stub.rsdp]
    BY <1>1, <1>4, Zenon DEF Known, ResolveXnuBootParams
  <2> HIDE DEF listed, adopted, other
  <2>2. Known = [fdt  |-> IF adopted THEN listed ELSE 0,
                 size |-> IF adopted THEN input.fw.fdt_size ELSE StubFdtSize,
                 rsdp |-> IF listed = 0 THEN other ELSE 0]
    BY <1>4, <2>1, Zenon DEF Stub
  <2>3. QED
    BY <2>2
<1>5. QED
  BY <1>2, <1>3, <1>4, Zenon

\* efi_find_table on ARM finds the first entry with the GUID.
LEMMA EfiTableFound ==
    ASSUME input \in Inputs, Arm, NEW guid
    PROVE  LET at_guid == With(input.fw.tables, guid)
           IN  /\ at_guid = {} => EfiFindTable(input.args, input.fw, guid) = 0
               /\ (at_guid # {} /\ input.args.efi_system_table # 0) =>
                     EfiFindTable(input.args, input.fw, guid) = input.fw.tables[Min(at_guid)].phys
<1> DEFINE at_guid == With(input.fw.tables, guid)
<1>1. /\ input.fw.tables \in ConfigTable /\ input.fw.config # 0
      /\ Len(input.fw.tables) <= MaxTables
      /\ \A t \in DOMAIN input.fw.tables : input.fw.tables[t].ptr = input.fw.tables[t].phys
  BY FirmwareAssumption, Zenon DEF Arm, arch
<1>2. at_guid # {} => Min(at_guid) \in DOMAIN input.fw.tables
  BY <1>1, WithEntries, Zenon
<1>3. ~(Len(input.fw.tables) > MaxTables)
  <2>1. Len(input.fw.tables) \in Nat
    BY <1>1 DEF ConfigTable
  <2>2. QED
    BY <1>1, <2>1, BootArgsAssumption
<1>4. at_guid = {} => EfiFindTable(input.args, input.fw, guid) = 0
  BY Zenon DEF EfiFindTable
<1>5. (at_guid # {} /\ input.args.efi_system_table # 0) =>
         EfiFindTable(input.args, input.fw, guid) = input.fw.tables[Min(at_guid)].ptr
  BY <1>1, <1>3, Zenon DEF EfiFindTable
<1>6. QED
  BY <1>1, <1>2, <1>4, <1>5, Zenon

\* The ACPI table init is told of on x86_64.
LEMMA X86Rsdp ==
    ASSUME input \in Inputs, ~Arm
    PROVE  LET tables == input.fw.tables
               v1 == With(tables, "acpi10")
               v2 == With(tables, "acpi20")
               mapped == input.args.addr # 0 /\ input.args.vermajor = 2
                         /\ input.args.efi_system_table # 0 /\ input.args.efi_mmap # 0
           IN  FindRsdp(input.args, input.fw) =
                  CASE mapped /\ v2 # {}            -> tables[Min(v2)].phys
                    [] mapped /\ v2 = {} /\ v1 # {} -> tables[Max(v1)].phys
                    [] OTHER                        -> 0
<1> DEFINE tables == input.fw.tables
           v1 == With(tables, "acpi10")
           v2 == With(tables, "acpi20")
           mapped == input.args.addr # 0 /\ input.args.vermajor = 2
                     /\ input.args.efi_system_table # 0 /\ input.args.efi_mmap # 0
<1>1. ~mapped => FindRsdp(input.args, input.fw) = 0
  BY Zenon DEF FindRsdp, TranslateVirt
<1>2. ASSUME mapped
      PROVE  /\ v2 # {} => FindRsdp(input.args, input.fw) = tables[Min(v2)].phys
             /\ v2 = {} /\ v1 # {} => FindRsdp(input.args, input.fw) = tables[Max(v1)].phys
             /\ v2 = {} /\ v1 = {} => FindRsdp(input.args, input.fw) = 0
  <2>1. input.arch = "x86_64"
    BY Sizes, Zenon DEF arch
  <2>2. WayKnown(input.args, input.fw)
    BY <1>2, <2>1, FirmwareAssumption, Zenon DEF WayKnown
  <2>3. QED
    BY <1>2, <2>2, RsdpFound, Zenon
<1> HIDE DEF v1, v2, mapped
<1>3. FindRsdp(input.args, input.fw) =
         CASE mapped /\ v2 # {}            -> tables[Min(v2)].phys
           [] mapped /\ v2 = {} /\ v1 # {} -> tables[Max(v1)].phys
           [] OTHER                        -> 0
  BY <1>1, <1>2, Zenon
<1>4. QED
  BY <1>3, Zenon DEF v1, v2, mapped

\* Whatever the firmware lists, init on the BSP is told of the machine's own
\* description where it lies, of one description only, and every other core
\* on ARM passes on the same device tree.
THEOREM MachineIsDescribed == Spec => []MachineDescribed
<1>1. HInv => MachineDescribed
  <2> SUFFICES ASSUME HInv, pc[Bsp] = "init", ~Shared PROVE MachineDescribed
    BY Zenon DEF MachineDescribed
  <2>1. /\ input \in Inputs /\ Tells(Bsp, info[Bsp]) /\ \A c \in Aps : c \in Cores
    BY ApsAreCores, Zenon DEF HInv, Told, IInv, Control
  <2>2. CASE ~Arm
    BY <2>1, <2>2, X86Rsdp, Zenon DEF MachineDescribed, Tells
  <2>3. CASE Arm
    <3> DEFINE told == info[Bsp]
               tables == input.fw.tables
               v2 == With(tables, "acpi20")
               dt == With(tables, "fdt")
               args == input.args.addr # 0 /\ input.args.vermajor = 2
                       /\ input.args.efi_system_table # 0
               listed == EfiFindTable(input.args, input.fw, "fdt")
    <3>1. told.fdt_blob_phys = Known.fdt /\ told.early_rsdp_phys = Known.rsdp
      BY <2>1, <2>3, Zenon DEF Tells
    <3>2. Stub.fdt = StubFdt /\ Stub.rsdp = 0
      BY DEF Stub
    <3>3. args => input.x0 # 0
      BY <2>1, <2>3, FirmwareAssumption, Zenon DEF Arm, arch
    <3>4. Known.fdt # 0 => Known.rsdp = 0
      BY <2>1, <2>3, <3>2, KnownMachine, Zenon
    <3>5. StubFdt # 0 => Known.fdt = input.x0
      BY <2>1, <2>3, <3>2, KnownMachine, Zenon
    <3>6. (StubFdt = 0 /\ args /\ dt # {} /\ input.fw.fdt_magic) => Known.fdt = tables[Min(dt)].phys
      <4>1. (args /\ dt # {}) => listed = tables[Min(dt)].phys
        BY <2>1, <2>3, EfiTableFound, Zenon
      <4>2. (StubFdt = 0 /\ args /\ input.fw.fdt_magic) => Known.fdt = listed
        BY <2>1, <2>3, <3>3, KnownMachine, Zenon
      <4>3. QED
        BY <4>1, <4>2, Zenon
    <3>7. (StubFdt = 0 /\ args /\ dt = {} /\ v2 # {}) => Known.rsdp = tables[Min(v2)].phys
      <4>1. dt = {} => listed = 0
        BY <2>1, <2>3, EfiTableFound, Zenon
      <4>2. (args /\ v2 # {}) =>
               EfiFindTable(input.args, input.fw, "acpi20") = tables[Min(v2)].phys
        BY <2>1, <2>3, EfiTableFound, Zenon
      <4>3. (StubFdt = 0 /\ args /\ listed = 0) =>
               Known.rsdp = EfiFindTable(input.args, input.fw, "acpi20")
        BY <2>1, <2>3, <3>3, KnownMachine, Zenon
      <4>4. QED
        BY <4>1, <4>2, <4>3, Zenon
    <3>8. \A c \in Aps : pc[c] = "init" => info[c].fdt_blob_phys = told.fdt_blob_phys
      BY <2>1, <2>3, <3>1, Zenon DEF HInv, Told, Tells
    <3>9. QED
      BY <2>3, <3>1, <3>4, <3>5, <3>6, <3>7, <3>8, Zenon DEF MachineDescribed
  <2>4. QED
    BY <2>2, <2>3, Zenon
<1>2. QED
  BY <1>1, HandoffInvariant, PTL

\* A console with another base.
LEMMA RebasedConsole ==
    ASSUME NEW p, NEW q, NEW b
    PROVE  [[base |-> q, cadence |-> b] EXCEPT !.base = p] = [base |-> p, cadence |-> b]
<1> DEFINE r == [[base |-> q, cadence |-> b] EXCEPT !.base = p]
           s == [base |-> p, cadence |-> b]
<1>1. DOMAIN r = {"base", "cadence"} /\ DOMAIN s = {"base", "cadence"}
  BY Zenon
<1>2. r["base"] = s["base"] /\ r["cadence"] = s["cadence"]
  BY Zenon
<1>3. r = [x \in DOMAIN r |-> r[x]] /\ s = [x \in DOMAIN s |-> s[x]]
  BY Zenon
<1>4. QED
  BY <1>1, <1>2, <1>3, Zenon

\* serial_init with a valid tree chooses the tree's console, once and again,
\* and without one it changes nothing.
LEMMA SerialChoice ==
    ASSUME Arm, NEW m
    PROVE  /\ ~FdtIsValid(m) => \A con : SerialInit(con, m) = con
           /\ FdtIsValid(m) => /\ SerialInit(BuiltIn, m) = TreeConsole
                               /\ SerialInit(TreeConsole, m) = TreeConsole
<1>1. ~FdtIsValid(m) => \A con : SerialInit(con, m) = con
  BY Zenon DEF SerialInit
<1>2. ASSUME FdtIsValid(m), input.fdt.cadence # 0
      PROVE  SerialInit(BuiltIn, m) = TreeConsole /\ SerialInit(TreeConsole, m) = TreeConsole
  BY <1>2, Zenon DEF SerialInit, TreeConsole
<1>3. ASSUME FdtIsValid(m), input.fdt.cadence = 0, input.fdt.pl011 # 0
      PROVE  SerialInit(BuiltIn, m) = TreeConsole /\ SerialInit(TreeConsole, m) = TreeConsole
  <2> DEFINE p == input.fdt.pl011
  <2>1. TreeConsole = [base |-> p, cadence |-> FALSE]
    BY <1>3, Zenon DEF TreeConsole
  <2>2. \A con : SerialInit(con, m) = [con EXCEPT !.base = p]
    BY <1>3, Zenon DEF SerialInit
  <2> HIDE DEF p
  <2>3. \A q : [[base |-> q, cadence |-> FALSE] EXCEPT !.base = p] = [base |-> p, cadence |-> FALSE]
    BY RebasedConsole, Zenon
  <2>4. QED
    BY <2>1, <2>2, <2>3, Zenon DEF BuiltIn
<1>4. ASSUME FdtIsValid(m), input.fdt.cadence = 0, input.fdt.pl011 = 0
      PROVE  SerialInit(BuiltIn, m) = TreeConsole /\ SerialInit(TreeConsole, m) = TreeConsole
  BY <1>4, Zenon DEF SerialInit, TreeConsole, BuiltIn
<1>5. QED
  BY <1>1, <1>2, <1>3, <1>4, Zenon

\* The console chosen from what the stub knows, and the one chosen in a copy.
LEMMA ConsolesChosen ==
    ASSUME input \in Inputs, Arm, ~Shared
    PROVE  /\ FirstConsole = IF StubFdt # 0 /\ input.fdt.valid THEN TreeConsole ELSE BuiltIn
           /\ LastConsole = IF Known.fdt # 0 /\ input.fdt.valid THEN TreeConsole ELSE BuiltIn
<1>1. Stub.fdt = StubFdt /\ Stub.size = StubFdtSize
  BY DEF Stub
<1>2. input.fdt.valid => input.fdt.size # 0 /\ input.fw.fdt_size # 0
  BY TreeAssumption, Zenon
<1>3. FdtIsValid(Stub) <=> StubFdt # 0 /\ input.fdt.valid
  BY <1>1, <1>2, Zenon DEF FdtIsValid, StubFdt, StubFdtSize
<1>4. FirstConsole = IF StubFdt # 0 /\ input.fdt.valid THEN TreeConsole ELSE BuiltIn
  BY <1>3, SerialChoice, Zenon DEF FirstConsole
<1>5. CASE StubFdt # 0
  <2>1. Known = Stub
    BY <1>5, KnownMachine, Zenon
  <2>2. FdtIsValid(Stub) => LastConsole = TreeConsole
    BY <1>3, <1>4, <2>1, SerialChoice, Zenon DEF LastConsole
  <2>3. ~FdtIsValid(Stub) => LastConsole = BuiltIn
    BY <1>3, <1>4, <2>1, SerialChoice, Zenon DEF LastConsole
  <2>4. QED
    BY <1>1, <1>3, <1>4, <2>1, <2>2, <2>3, Zenon
<1>6. CASE StubFdt = 0
  <2>1. FirstConsole = BuiltIn
    BY <1>4, <1>6, Zenon
  <2>2. Known.fdt # 0 => Known.size = input.fw.fdt_size
    BY <1>1, <1>6, KnownMachine, Zenon
  <2>3. FdtIsValid(Known) <=> Known.fdt # 0 /\ input.fdt.valid
    BY <1>2, <2>2, Zenon DEF FdtIsValid
  <2>4. LastConsole = IF Known.fdt # 0 /\ input.fdt.valid THEN TreeConsole ELSE BuiltIn
    BY <2>1, <2>3, SerialChoice, Zenon DEF LastConsole
  <2>5. QED
    BY <1>4, <2>4, Zenon
<1>7. QED
  BY <1>5, <1>6, Zenon

\* Every core on ARM with a kernel copy of its own prints where the device
\* tree it hands to init says, and so does the BSP with a tree from x0.
THEOREM ConsoleIsTheTrees == Spec => []OneConsole
<1>1. HInv => OneConsole
  <2> SUFFICES ASSUME HInv, NEW c \in Cores, Arm, ~Shared, pc[c] = "init", c # Bsp \/ StubFdt # 0
               PROVE  console[ImageOf(c)] =
                         IF info[c].fdt_blob_phys # 0 /\ input.fdt.valid THEN TreeConsole ELSE BuiltIn
    BY Zenon DEF OneConsole, BuiltIn
  <2>1. input \in Inputs /\ info[c].fdt_blob_phys = Known.fdt
    BY Zenon DEF HInv, Told, Tells, IInv, Control
  <2>2. CASE c # Bsp
    <3>1. console[ImageOf(c)] = LastConsole
      BY <2>2, Zenon DEF HInv, Consoles, Cores
    <3>2. QED
      BY <2>1, <3>1, ConsolesChosen, Zenon
  <2>3. CASE c = Bsp
    <3>1. console[ImageOf(c)] = FirstConsole
      BY <2>3, Zenon DEF HInv, Consoles
    <3>2. Known = Stub /\ Stub.fdt = StubFdt
      <4>1. Stub.fdt = StubFdt
        BY DEF Stub
      <4>2. QED
        BY <2>1, <2>3, <4>1, KnownMachine, Zenon
    <3>3. QED
      BY <2>1, <3>1, <3>2, ConsolesChosen, Zenon
  <2>4. QED
    BY <2>2, <2>3, Zenon
<1>2. QED
  BY <1>1, HandoffInvariant, PTL

\* For any memory map, xnu_boot_args_find_largest_free reports the first of
\* the largest free ranges above the kernel, or none if there is none.
THEOREM LargestFreeRangeFound == Spec => []FreeRangeIsLargest
<1>1. IInv => FreeRangeIsLargest
  <2> SUFFICES ASSUME IInv, input.args.addr # 0, input.args.vermajor = 2, input.args.efi_mmap # 0
               PROVE  FreeRangeIsLargest
    BY Zenon DEF FreeRangeIsLargest
  <2>1. input \in Inputs /\ input.args.mmap \in MemoryMap
    BY FirmwareAssumption, Zenon DEF IInv, Control
  <2>2. KernelLoadBase[arch] \in Nat
    BY <2>1, Sizes, LayoutFacts
  <2>3. QED
    BY <2>1, <2>2, LargestFound, Zenon DEF FreeRangeIsLargest
<1>2. QED
  BY <1>1, Invariant, PTL

=============================================================================

---------------------------- MODULE LayoutProofs ----------------------------
(***************************************************************************)
(* What is proved of Boot for every number of cores, every layout that     *)
(* satisfies LayoutOK and every init that is linked at its address: the    *)
(* cores' loads never disturb one another.                                 *)
(*                                                                         *)
(* First what follows from LayoutOK alone: the parts of the regions and    *)
(* the BSP's images are disjoint, also where an init is displaced by a     *)
(* whole number of regions; what the page tables of boot.S and of an       *)
(* additional core map to itself; and that the numbers of                  *)
(* include/smp_layout.h satisfy LayoutOK.  Above RegionBase every address  *)
(* is a region number and an offset in a region, in exactly one way        *)
(* (Grid).  Kernels, inits, discovery records and page tables have         *)
(* disjoint ranges of offsets, so two of them can meet only if they are of *)
(* one kind and have one region number.                                    *)
(*                                                                         *)
(* Then what macho_load, its entry lookup and macho_image_size make of an  *)
(* image that is linked at a base: where the segments lie, what copying    *)
(* one writes, and in which byte of which segment the entry is.            *)
(*                                                                         *)
(* Last, both are carried through the steps of the cores, by an inductive  *)
(* invariant, and so are the page tables of the cores on x86_64: whatever  *)
(* a core touches stays mapped to itself.                                  *)
(***************************************************************************)
EXTENDS Boot, TLAPS, WellFoundedInduction


-----------------------------------------------------------------------------
\* Arithmetic of the layout.

\* The parts of a region that the boot writes, in order and inside it.
LEMMA LayoutFacts ==
    /\ RegionSize \in Nat \ {0} /\ KernelMax \in Nat \ {0} /\ InitOffset \in Nat \ {0}
    /\ InitMax \in Nat \ {0} /\ DiscoveryOffset \in Nat /\ PgtableOffset \in Nat
    /\ TableSize \in Nat \ {0} /\ MaxAps \in Nat
    /\ \A a \in Arches : /\ KernelLoadBase[a] \in Nat \ {0} /\ InitLoadBase[a] \in Nat \ {0}
                         /\ RegionBase[a] \in Nat \ {0}
    /\ KernelMax <= InitOffset
    /\ InitOffset + InitMax <= DiscoveryOffset
    /\ DiscoveryOffset < PgtableOffset
    /\ PgtableOffset + 4 * TableSize <= RegionSize
<1>1. /\ RegionSize \in Nat \ {0} /\ KernelMax \in Nat \ {0} /\ InitOffset \in Nat \ {0}
      /\ InitMax \in Nat \ {0} /\ DiscoveryOffset \in Nat /\ PgtableOffset \in Nat
      /\ TableSize \in Nat \ {0} /\ MaxAps \in Nat
      /\ StackOffset \in Nat /\ StackSize \in Nat \ {0} /\ MailboxOffset \in Nat
      /\ MailboxSize \in Nat \ {0} /\ DiscoverySize \in Nat \ {0}
  BY LayoutAssumption DEF LayoutOK, LayoutTypes
<1>2. \A a \in Arches : /\ KernelLoadBase[a] \in Nat \ {0} /\ InitLoadBase[a] \in Nat \ {0}
                        /\ RegionBase[a] \in Nat \ {0}
  BY LayoutAssumption DEF LayoutOK, LayoutTypes
<1>3. PartsInOrder
  BY LayoutAssumption DEF LayoutOK
<1>4. QED
  BY <1>1, <1>2, <1>3 DEF PartsInOrder

\* The discovery record and the page tables lie in a region's upper part.
LEMMA Windows ==
    /\ PgtableOffset \in Nat /\ 4 * TableSize \in Nat /\ DiscoveryOffset \in Nat /\ 1 \in Nat
    /\ DiscoveryOffset < PgtableOffset /\ DiscoveryOffset <= PgtableOffset
    /\ DiscoveryOffset <= DiscoveryOffset /\ ~(PgtableOffset < DiscoveryOffset + 1)
    /\ PgtableOffset + 4 * TableSize <= RegionSize /\ DiscoveryOffset + 1 <= RegionSize
BY LayoutFacts

\* The places of a sequence of n elements.
LEMMA Counting ==
    /\ \A n \in Nat : \A k : k \in 1 .. n <=> k \in Nat \ {0} /\ k <= n
    /\ \A k \in Nat \ {0} : ~(k < 1)
    /\ \A n \in Nat : \A k \in 0 .. n - 1 : k \in Nat /\ k < n
BY SMT

\* A place in the slot of a region that ends at most m after b.
LEMMA InReach ==
    \A r, s, b, m, l, o, n, k \in Nat :
        (r + s <= b + m /\ o + n <= s /\ k < n) =>
            0 <= r + o + l + k /\ r + o + l + k < b + m + l
BY SMT

\* The BSP's images lie below the regions and apart from one another.
LEMMA BspFacts ==
    /\ RegionBase["x86_64"] \in Nat /\ RegionBase["aarch64"] \in Nat
    /\ KernelLoadBase["x86_64"] + KernelMax <= InitLoadBase["x86_64"]
    /\ InitLoadBase["x86_64"] + InitMax <= RegionBase["x86_64"]
    /\ InitLoadBase["x86_64"] % RegionSize = 0
    /\ InitLoadBase["aarch64"] + InitMax <= KernelLoadBase["aarch64"]
    /\ KernelLoadBase["aarch64"] + KernelMax <= RegionBase["aarch64"]
<1>1. /\ MailboxSize \in Nat /\ BootAllocatorBase \in Nat /\ BootAllocatorSize \in Nat
      /\ MaxAps \in Nat /\ RegionSize \in Nat /\ KernelMax \in Nat /\ InitMax \in Nat
  BY LayoutAssumption DEF LayoutOK, LayoutTypes
<1>2. /\ KernelLoadBase["x86_64"] \in Nat /\ InitLoadBase["x86_64"] \in Nat
      /\ BspMailbox["x86_64"] \in Nat /\ RegionBase["x86_64"] \in Nat
      /\ AllocMin["x86_64"] \in Nat /\ AllocMax["x86_64"] \in Nat
  BY LayoutAssumption DEF LayoutOK, LayoutTypes, Arches
<1>3. /\ KernelLoadBase["aarch64"] \in Nat /\ InitLoadBase["aarch64"] \in Nat
      /\ BspMailbox["aarch64"] \in Nat /\ RegionBase["aarch64"] \in Nat
  BY LayoutAssumption DEF LayoutOK, LayoutTypes, Arches
<1>4. X86InOrder /\ ArmInOrder
  BY LayoutAssumption DEF LayoutOK
<1>5. QED
  BY <1>1, <1>2, <1>3, <1>4 DEF X86InOrder, ArmInOrder

\* A product with a positive number keeps the sign and is at least as large.
LEMMA Multiples ==
    ASSUME NEW n \in Nat \ {0}, NEW m \in Int
    PROVE  /\ m * n \in Int
           /\ m >= 1 => m * n >= n
           /\ m <= -1 => m * n <= -n
           /\ m = 0 => m * n = 0
OBVIOUS

\* A region number and an offset in a region determine each other.
LEMMA Grid ==
    ASSUME NEW n \in Nat \ {0}, NEW p \in Int, NEW q \in Int,
           NEW o \in 0 .. n - 1, NEW r \in 0 .. n - 1,
           p * n + o = q * n + r
    PROVE  p = q /\ o = r
<1>1. (p - q) * n = r - o
  OBVIOUS
<1>2. p - q \in Int
  OBVIOUS
<1>3. /\ p - q >= 1 => (p - q) * n >= n
      /\ p - q <= -1 => (p - q) * n <= -n
  BY <1>2, Multiples
<1>4. r - o < n /\ r - o > -n
  OBVIOUS
<1>5. p = q
  BY <1>1, <1>3, <1>4
<1>6. QED
  BY <1>1, <1>5


-----------------------------------------------------------------------------
\* The parts of a region.

\* Address a is in region number m, counted from 0, at an offset from lo up to
\* hi - 1.
InPart(isa, a, m, lo, hi) ==
    \E o \in lo .. hi - 1 : a = RegionBase[isa] + m * RegionSize + o

\* Two parts that share an address have the same region number, and offsets
\* that overlap.
LEMMA PartsMeet ==
    ASSUME NEW isa \in Arches, NEW a, NEW m \in Int, NEW n \in Int,
           NEW lo \in Nat, NEW hi \in Nat, hi <= RegionSize,
           NEW from \in Nat, NEW to \in Nat, to <= RegionSize,
           InPart(isa, a, m, lo, hi), InPart(isa, a, n, from, to)
    PROVE  m = n /\ lo < to /\ from < hi
<1>1. PICK o \in lo .. hi - 1 : a = RegionBase[isa] + m * RegionSize + o
  BY DEF InPart
<1>2. PICK r \in from .. to - 1 : a = RegionBase[isa] + n * RegionSize + r
  BY DEF InPart
<1>3. RegionSize \in Nat \ {0} /\ RegionBase[isa] \in Nat
  BY LayoutFacts
<1>4. o \in 0 .. RegionSize - 1 /\ r \in 0 .. RegionSize - 1
  BY <1>3
<1>5. m * RegionSize \in Int /\ n * RegionSize \in Int
  BY <1>3, Multiples
<1>6. m * RegionSize + o = n * RegionSize + r
  BY <1>1, <1>2, <1>3, <1>4, <1>5
<1>7. m = n /\ o = r
  BY <1>3, <1>4, <1>6, Grid
<1>8. QED
  BY <1>7

\* A part lies at or above the regions' base.
LEMMA PartsAbove ==
    ASSUME NEW isa \in Arches, NEW a, NEW m \in Nat, NEW lo \in Nat, NEW hi \in Nat,
           InPart(isa, a, m, lo, hi)
    PROVE  a \in Int /\ a >= RegionBase[isa]
<1>1. PICK o \in lo .. hi - 1 : a = RegionBase[isa] + m * RegionSize + o
  BY DEF InPart
<1>2. RegionSize \in Nat \ {0} /\ RegionBase[isa] \in Nat
  BY LayoutFacts
<1>3. m * RegionSize \in Nat
  BY <1>2, Multiples
<1>4. QED
  BY <1>1, <1>2, <1>3

-----------------------------------------------------------------------------
\* The region of core c, and what lies at an offset in it.
LEMMA RegionParts ==
    ASSUME NEW isa \in Arches, NEW c \in Nat \ {0}, NEW off \in Nat, NEW len \in Nat,
           NEW a \in Span(Region(isa, c) + off, len)
    PROVE  InPart(isa, a, c - 1, off, off + len)
<1>1. PICK k \in 0 .. len - 1 : a = Region(isa, c) + off + k
  BY DEF Span
<1>2. /\ RegionBase[isa] \in Nat /\ RegionSize \in Nat \ {0}
      /\ (c - 1) * RegionSize \in Int
  BY LayoutFacts, Multiples
<1>3. /\ off + k \in off .. off + len - 1
      /\ a = RegionBase[isa] + (c - 1) * RegionSize + (off + k)
  BY <1>1, <1>2 DEF Region
<1>4. QED
  BY <1>3 DEF InPart

\* The region number init is displaced by on x86_64, where it is loaded at
\* its region's slot plus its own link address.
Shift == InitLoadBase["x86_64"] \div RegionSize

\* On x86_64 init is linked a whole number of regions above zero.
LEMMA ShiftFacts ==
    Shift \in Nat /\ InitLoadBase["x86_64"] = Shift * RegionSize
<1>1. /\ InitLoadBase["x86_64"] \in Nat /\ RegionSize \in Nat \ {0}
      /\ InitLoadBase["x86_64"] % RegionSize = 0
  BY LayoutFacts, BspFacts DEF Arches
<1>2. \A x \in Nat, n \in Nat \ {0} :
         x \div n \in Nat /\ x = n * (x \div n) + (x % n)
  OBVIOUS
<1>3. /\ Shift \in Nat
      /\ InitLoadBase["x86_64"] = RegionSize * Shift + (InitLoadBase["x86_64"] % RegionSize)
  BY <1>1, <1>2 DEF Shift
<1>4. QED
  BY <1>1, <1>3

\* A displaced init lies in the init slot of another region.
LEMMA DisplacedParts ==
    ASSUME NEW c \in Nat \ {0}, NEW len \in Nat,
           NEW a \in Span(Region("x86_64", c) + InitOffset + InitLoadBase["x86_64"], len)
    PROVE  InPart("x86_64", a, c - 1 + Shift, InitOffset, InitOffset + len)
<1>1. PICK k \in 0 .. len - 1 :
         a = Region("x86_64", c) + InitOffset + InitLoadBase["x86_64"] + k
  BY DEF Span
<1>2. /\ RegionBase["x86_64"] \in Nat /\ RegionSize \in Nat \ {0} /\ InitOffset \in Nat
      /\ (c - 1) * RegionSize \in Int /\ Shift * RegionSize \in Int /\ Shift \in Nat
  BY LayoutFacts, ShiftFacts, Multiples DEF Arches
<1>3. (c - 1 + Shift) * RegionSize = (c - 1) * RegionSize + Shift * RegionSize
  BY <1>2
<1>4. /\ InitOffset + k \in InitOffset .. (InitOffset + len) - 1
      /\ a = RegionBase["x86_64"] + (c - 1 + Shift) * RegionSize + (InitOffset + k)
  BY <1>1, <1>2, <1>3, ShiftFacts DEF Region
<1>5. QED
  BY <1>4, Zenon DEF InPart

-----------------------------------------------------------------------------
\* Where core c's kernel and init are loaded; core 0 is the BSP.

KernelBase(isa, c) == IF c = 0 THEN KernelLoadBase[isa] ELSE Region(isa, c)

SlotBase(isa, c) ==
    IF c = 0 THEN InitLoadBase[isa]
    ELSE IF isa = "aarch64" THEN Region(isa, c) + InitOffset
    ELSE Region(isa, c) + InitOffset + InitLoadBase[isa]

\* The region number of core c's init.
SlotNumber(isa, c) == IF isa = "aarch64" THEN c - 1 ELSE c - 1 + Shift

\* The BSP's kernel and init lie below the first region.
LEMMA BspBelow ==
    ASSUME NEW isa \in Arches,
           NEW a \in Span(KernelBase(isa, 0), KernelMax) \cup Span(SlotBase(isa, 0), InitMax)
    PROVE  a \in Int /\ a < RegionBase[isa]
<1>1. /\ KernelLoadBase[isa] \in Nat /\ InitLoadBase[isa] \in Nat /\ RegionBase[isa] \in Nat
      /\ KernelMax \in Nat /\ InitMax \in Nat
  BY LayoutFacts
<1>2. /\ KernelLoadBase[isa] + KernelMax <= RegionBase[isa]
      /\ InitLoadBase[isa] + InitMax <= RegionBase[isa]
  <2>1. CASE isa = "x86_64"
    BY <2>1, <1>1, BspFacts
  <2>2. CASE isa = "aarch64"
    BY <2>2, <1>1, BspFacts
  <2>3. QED
    BY <2>1, <2>2 DEF Arches
<1>3. \/ \E k \in 0 .. KernelMax - 1 : a = KernelLoadBase[isa] + k
      \/ \E k \in 0 .. InitMax - 1 : a = InitLoadBase[isa] + k
  BY DEF Span, KernelBase, SlotBase
<1>4. QED
  BY <1>1, <1>2, <1>3

\* The kernel of a core lies in the kernel part of its region.
LEMMA KernelPart ==
    ASSUME NEW isa \in Arches, NEW c \in Nat \ {0}, NEW a \in Span(KernelBase(isa, c), KernelMax)
    PROVE  InPart(isa, a, c - 1, 0, KernelMax)
<1>1. KernelMax \in Nat /\ RegionBase[isa] \in Nat /\ RegionSize \in Nat
  BY LayoutFacts
<1>2. KernelBase(isa, c) = Region(isa, c) + 0
  BY <1>1, Multiples DEF KernelBase, Region
<1>3. InPart(isa, a, c - 1, 0, 0 + KernelMax)
  BY <1>1, <1>2, RegionParts
<1>4. QED
  BY <1>1, <1>3

\* The init of a core lies in the init part of a region, on x86_64 not its own.
LEMMA SlotPart ==
    ASSUME NEW isa \in Arches, NEW c \in Nat \ {0}, NEW a \in Span(SlotBase(isa, c), InitMax)
    PROVE  /\ SlotNumber(isa, c) \in Nat
           /\ InPart(isa, a, SlotNumber(isa, c), InitOffset, InitOffset + InitMax)
<1>1. InitMax \in Nat /\ InitOffset \in Nat /\ Shift \in Nat
  BY LayoutFacts, ShiftFacts
<1>2. CASE isa = "aarch64"
  BY <1>1, <1>2, RegionParts DEF SlotBase, SlotNumber
<1>3. CASE isa = "x86_64"
  <2>1. a \in Span(Region("x86_64", c) + InitOffset + InitLoadBase["x86_64"], InitMax)
    BY <1>3 DEF SlotBase
  <2>2. InPart("x86_64", a, c - 1 + Shift, InitOffset, InitOffset + InitMax)
    BY <1>1, <2>1, DisplacedParts
  <2>3. QED
    BY <1>1, <1>3, <2>2 DEF SlotNumber
<1>4. QED
  BY <1>2, <1>3 DEF Arches

\* No two kernels overlap.
LEMMA KernelsApart ==
    ASSUME NEW isa \in Arches, NEW c \in Nat, NEW d \in Nat, c # d,
           NEW a \in Span(KernelBase(isa, c), KernelMax)
    PROVE  a \notin Span(KernelBase(isa, d), KernelMax)
<1> SUFFICES ASSUME a \in Span(KernelBase(isa, d), KernelMax) PROVE FALSE
  OBVIOUS
<1>1. KernelMax \in Nat /\ KernelMax <= RegionSize /\ RegionBase[isa] \in Nat
  BY LayoutFacts
<1>2. CASE c # 0 /\ d # 0
  BY <1>1, <1>2, KernelPart, PartsMeet
<1>3. CASE c = 0
  BY <1>1, <1>3, BspBelow, KernelPart, PartsAbove
<1>4. CASE d = 0
  BY <1>1, <1>4, BspBelow, KernelPart, PartsAbove
<1>5. QED
  BY <1>2, <1>3, <1>4

\* No two inits overlap.
LEMMA SlotsApart ==
    ASSUME NEW isa \in Arches, NEW c \in Nat, NEW d \in Nat, c # d,
           NEW a \in Span(SlotBase(isa, c), InitMax)
    PROVE  a \notin Span(SlotBase(isa, d), InitMax)
<1> SUFFICES ASSUME a \in Span(SlotBase(isa, d), InitMax) PROVE FALSE
  OBVIOUS
<1>1. /\ InitMax \in Nat /\ InitOffset \in Nat /\ InitOffset + InitMax <= RegionSize
      /\ InitOffset + InitMax \in Nat /\ RegionBase[isa] \in Nat /\ Shift \in Nat
  BY LayoutFacts, ShiftFacts
<1>2. CASE c # 0 /\ d # 0
  <2>1. SlotNumber(isa, c) = SlotNumber(isa, d)
    BY <1>1, <1>2, SlotPart, PartsMeet
  <2>2. QED
    BY <1>1, <2>1 DEF SlotNumber
<1>3. CASE c = 0
  BY <1>1, <1>3, BspBelow, SlotPart, PartsAbove
<1>4. CASE d = 0
  BY <1>1, <1>4, BspBelow, SlotPart, PartsAbove
<1>5. QED
  BY <1>2, <1>3, <1>4

\* No kernel overlaps an init.
LEMMA KernelSlotApart ==
    ASSUME NEW isa \in Arches, NEW c \in Nat, NEW d \in Nat,
           NEW a \in Span(KernelBase(isa, c), KernelMax)
    PROVE  a \notin Span(SlotBase(isa, d), InitMax)
<1> SUFFICES ASSUME a \in Span(SlotBase(isa, d), InitMax) PROVE FALSE
  OBVIOUS
<1>1. /\ InitMax \in Nat /\ InitOffset \in Nat /\ InitOffset + InitMax <= RegionSize
      /\ InitOffset + InitMax \in Nat /\ RegionBase[isa] \in Nat
      /\ KernelMax \in Nat /\ KernelMax <= InitOffset /\ KernelMax <= RegionSize
  BY LayoutFacts
<1>2. CASE c # 0 /\ d # 0
  BY <1>1, <1>2, KernelPart, SlotPart, PartsMeet
<1>3. CASE c = 0 /\ d # 0
  BY <1>1, <1>3, BspBelow, SlotPart, PartsAbove
<1>4. CASE c # 0 /\ d = 0
  BY <1>1, <1>4, BspBelow, KernelPart, PartsAbove
<1>5. CASE c = 0 /\ d = 0
  <2>1. PICK k \in 0 .. KernelMax - 1 : a = KernelLoadBase[isa] + k
    BY <1>5 DEF Span, KernelBase
  <2>2. PICK l \in 0 .. InitMax - 1 : a = InitLoadBase[isa] + l
    BY <1>5 DEF Span, SlotBase
  <2>3. KernelLoadBase[isa] \in Nat /\ InitLoadBase[isa] \in Nat
    BY LayoutFacts
  <2>4. CASE isa = "x86_64"
    BY <1>1, <2>1, <2>2, <2>3, <2>4, BspFacts
  <2>5. CASE isa = "aarch64"
    BY <1>1, <2>1, <2>2, <2>3, <2>5, BspFacts
  <2>6. QED
    BY <2>4, <2>5 DEF Arches
<1>6. QED
  BY <1>2, <1>3, <1>4, <1>5

\* Discovery records and page tables, at the offsets from DiscoveryOffset up,
\* overlap neither a kernel nor an init.
LEMMA WindowApart ==
    ASSUME NEW isa \in Arches, NEW c \in Nat \ {0}, NEW d \in Nat,
           NEW off \in Nat, NEW len \in Nat,
           DiscoveryOffset <= off, off + len <= RegionSize,
           NEW a \in Span(Region(isa, c) + off, len)
    PROVE  /\ a \notin Span(KernelBase(isa, d), KernelMax)
           /\ a \notin Span(SlotBase(isa, d), InitMax)
<1>1. /\ InitMax \in Nat /\ InitOffset \in Nat /\ InitOffset + InitMax <= DiscoveryOffset
      /\ InitOffset + InitMax \in Nat /\ RegionBase[isa] \in Nat /\ DiscoveryOffset \in Nat
      /\ KernelMax \in Nat /\ KernelMax <= DiscoveryOffset /\ RegionSize \in Nat
      /\ DiscoveryOffset <= RegionSize
  BY LayoutFacts
<1>2. InPart(isa, a, c - 1, off, off + len) /\ off + len \in Nat
  BY RegionParts
<1>3. a \in Int /\ a >= RegionBase[isa]
  BY <1>2, PartsAbove
<1>4. CASE d = 0
  BY <1>1, <1>3, <1>4, BspBelow
<1>5. CASE d # 0
  <2>1. a \notin Span(KernelBase(isa, d), KernelMax)
    BY <1>1, <1>2, <1>5, KernelPart, PartsMeet
  <2>2. a \notin Span(SlotBase(isa, d), InitMax)
    BY <1>1, <1>2, <1>5, SlotPart, PartsMeet
  <2>3. QED
    BY <2>1, <2>2
<1>6. QED
  BY <1>4, <1>5

-----------------------------------------------------------------------------
\* Two windows that share an address are in one region and overlap.
LEMMA WindowsMeet ==
    ASSUME NEW isa \in Arches, NEW c \in Nat \ {0}, NEW d \in Nat \ {0},
           NEW off \in Nat, NEW len \in Nat, off + len <= RegionSize,
           NEW from \in Nat, NEW n \in Nat, from + n <= RegionSize,
           NEW a \in Span(Region(isa, c) + off, len), a \in Span(Region(isa, d) + from, n)
    PROVE  c = d /\ off < from + n /\ from < off + len
<1>1. InPart(isa, a, c - 1, off, off + len) /\ InPart(isa, a, d - 1, from, from + n)
  BY RegionParts
<1>2. c - 1 = d - 1 /\ off < from + n /\ from < off + len
  <2>1. c - 1 \in Int /\ d - 1 \in Int /\ off + len \in Nat /\ from + n \in Nat
    OBVIOUS
  <2>2. QED
    BY <1>1, <2>1, PartsMeet, ZenonT(40)
<1>3. QED
  BY <1>2

\* A page table is no discovery record and no other core's table.
LEMMA TablesApart ==
    ASSUME NEW isa \in Arches, NEW c \in Nat \ {0}, NEW d \in Nat \ {0},
           NEW a \in Span(Region(isa, d) + PgtableOffset, 4 * TableSize)
    PROVE  /\ a \notin Span(Region(isa, c) + DiscoveryOffset, 1)
           /\ c # d => a \notin Span(Region(isa, c) + PgtableOffset, 4 * TableSize)
<1>1. ASSUME a \in Span(Region(isa, c) + DiscoveryOffset, 1) PROVE FALSE
  BY <1>1, Windows, WindowsMeet, SMTT(30)
<1>2. ASSUME a \in Span(Region(isa, c) + PgtableOffset, 4 * TableSize) PROVE c = d
  BY <1>2, Windows, WindowsMeet, SMTT(30)
<1>3. QED
  BY <1>1, <1>2, Zenon

-----------------------------------------------------------------------------
\* Page tables.

\* Division with remainder.
LEMMA Division ==
    ASSUME NEW n \in Nat \ {0}, NEW x \in Nat
    PROVE  x \div n \in Nat /\ x % n \in 0 .. n - 1 /\ x = (x \div n) * n + (x % n)
<1>1. \A y \in Nat, m \in Nat \ {0} :
         y \div m \in Nat /\ y % m \in 0 .. m - 1 /\ y = m * (y \div m) + (y % m)
  OBVIOUS
<1>2. x \div n \in Nat /\ x % n \in 0 .. n - 1 /\ x = n * (x \div n) + (x % n)
  BY <1>1, Zenon
<1>3. \A y \in Nat : n * y = y * n
  OBVIOUS
<1>4. QED
  BY <1>2, <1>3, Zenon

\* A quotient and a remainder are determined by their number.
LEMMA DivMod ==
    ASSUME NEW n \in Nat \ {0}, NEW x \in Nat, NEW q \in Nat, NEW r \in 0 .. n - 1, x = q * n + r
    PROVE  x \div n = q /\ x % n = r
<1>1. x \div n \in Nat /\ x % n \in 0 .. n - 1 /\ x = (x \div n) * n + (x % n)
  BY Division, Zenon
<1>2. (x \div n) * n + (x % n) = q * n + r
  BY <1>1
<1>3. QED
  BY <1>1, <1>2, Grid

\* An address in gigabyte g is page i of it and an offset in the page, and the
\* walk indexes the three levels of tables with 0, g and i.
LEMMA Indices ==
    ASSUME NEW g \in 0 .. 3, NEW a \in g * Gigabyte .. (g + 1) * Gigabyte - 1
    PROVE  LET i == (a \div PageSize) % Entries
           IN  /\ i \in 0 .. Entries - 1
               /\ a = g * Gigabyte + i * PageSize + (a % PageSize)
               /\ (a \div Gigabyte) % Entries = g
               /\ (a \div (Entries * Gigabyte)) % Entries = 0
<1> DEFINE o == a - g * Gigabyte
           i == o \div PageSize
           r == o % PageSize
<1>1. Entries \in Nat \ {0} /\ Entries >= 4 /\ PageSize \in Nat \ {0}
  BY PagingAssumption
<1>2. Gigabyte \in Nat \ {0} /\ Gigabyte = Entries * PageSize
  BY <1>1 DEF Gigabyte
<1>3. o \in 0 .. Gigabyte - 1 /\ a = g * Gigabyte + o /\ a \in Nat
  BY <1>2
<1>4. i \in Nat /\ r \in 0 .. PageSize - 1 /\ o = i * PageSize + r
  <2>1. o \in Nat
    BY <1>2, <1>3
  <2>2. QED
    BY <1>1, <2>1, Division, Zenon
<1> HIDE DEF o, i, r
<1>5. i < Entries
  <2> SUFFICES ASSUME i >= Entries PROVE FALSE
    BY <1>1, <1>4
  <2>1. i * PageSize >= Entries * PageSize
    BY <1>1, <1>4
  <2>2. QED
    BY <1>1, <1>2, <1>3, <1>4, <2>1
<1>6. a \div Gigabyte = g
  BY <1>2, <1>3, DivMod
<1>7. a \div PageSize = g * Entries + i /\ a % PageSize = r
  <2>1. a = (g * Entries + i) * PageSize + r
    BY <1>1, <1>2, <1>3, <1>4
  <2>2. g * Entries + i \in Nat
    BY <1>1, <1>4
  <2>3. QED
    BY <1>1, <1>3, <1>4, <2>1, <2>2, DivMod, Zenon
<1>8. (a \div PageSize) % Entries = i
  <2>1. g * Entries + i \in Nat /\ i \in 0 .. Entries - 1 /\ g \in Nat
    BY <1>1, <1>4, <1>5
  <2>2. (g * Entries + i) % Entries = i
    BY <1>1, <2>1, DivMod, Zenon
  <2>3. QED
    BY <1>7, <2>2, Zenon
<1>9. g % Entries = g /\ 0 % Entries = 0
  <2>1. g = 0 * Entries + g /\ 0 = 0 * Entries + 0 /\ g \in 0 .. Entries - 1 /\ 0 \in 0 .. Entries - 1
    BY <1>1
  <2>2. QED
    BY <1>1, <2>1, DivMod
<1>10. a \div (Entries * Gigabyte) = 0
  <2> DEFINE e == Entries * Gigabyte
  <2>1. e \in Nat \ {0} /\ e >= 4 * Gigabyte
    BY <1>1, <1>2
  <2>2. a < 4 * Gigabyte
    BY <1>2, <1>3
  <2> HIDE DEF e
  <2>3. a \in 0 .. e - 1 /\ a = 0 * e + a
    BY <1>2, <1>3, <2>1, <2>2
  <2>4. a \div e = 0
    BY <1>3, <2>1, <2>3, DivMod
  <2>5. QED
    BY <2>4 DEF e
<1>11. i \in 0 .. Entries - 1 /\ a = g * Gigabyte + i * PageSize + r
  BY <1>1, <1>2, <1>3, <1>4, <1>5
<1>12. QED
  BY <1>6, <1>7, <1>8, <1>9, <1>10, <1>11, Zenon

\* From table p0 through p1 to p2, where gigabyte g is mapped to itself.
Leads(T, p0, p1, p2, g) ==
    /\ p0 \in DOMAIN T /\ p1 \in DOMAIN T /\ p2 \in DOMAIN T
    /\ T[p0][0] = Table(p1) /\ T[p1][g] = Table(p2)
    /\ \A i \in 0 .. Entries - 1 : T[p2][i] = Huge(g * Gigabyte + i * PageSize)

\* Then the walk returns the address, and reads only the three tables.
LEMMA WalkIsIdentity ==
    ASSUME NEW g \in 0 .. 3, NEW a \in g * Gigabyte .. (g + 1) * Gigabyte - 1,
           NEW T, NEW p0, NEW p1, NEW p2, Leads(T, p0, p1, p2, g)
    PROVE  Walk(T, p0, a) = a /\ Walked(T, p0, a) = {p0, p1, p2}
<1> USE DEF Leads
<1> DEFINE i == (a \div PageSize) % Entries
           page == g * Gigabyte + i * PageSize
<1>1. /\ i \in 0 .. Entries - 1 /\ a = page + (a % PageSize)
      /\ (a \div Gigabyte) % Entries = g /\ (a \div (Entries * Gigabyte)) % Entries = 0
  BY Indices, Zenon
<1>2. /\ Table(p0).kind = "table" /\ Table(p0).to = p0
      /\ Table(p1).kind = "table" /\ Table(p1).to = p1
      /\ Table(p2).kind = "table" /\ Table(p2).to = p2
      /\ Huge(page).kind = "huge" /\ Huge(page).to = page
  BY DEF Table, Huge
<1> HIDE DEF page
<1>3. Follow(T, Table(p0), a \div (Entries * Gigabyte)) = Table(p1)
  BY <1>1, <1>2, Zenon DEF Follow
<1>4. Follow(T, Table(p1), a \div Gigabyte) = Table(p2)
  BY <1>1, <1>2, Zenon DEF Follow
<1>5. Follow(T, Table(p2), a \div PageSize) = Huge(page)
  BY <1>1, <1>2, Zenon DEF Follow, page
<1>6. Walk(T, p0, a) = page + (a % PageSize)
  BY <1>2, <1>3, <1>4, <1>5, Zenon DEF Walk
<1>7. Walked(T, p0, a) = {e.to : e \in {x \in {Table(p0), Table(p1), Table(p2)} : x.kind = "table"}}
  BY <1>3, <1>4, Zenon DEF Walked
<1>8. Walked(T, p0, a) = {p0, p1, p2}
  BY <1>2, <1>7
<1>9. QED
  BY <1>1, <1>6, <1>8, Zenon

\* The boot map takes each of the first four gigabytes to itself.
LEMMA BootMap ==
    ASSUME NEW g \in 0 .. 3, NEW a \in g * Gigabyte .. (g + 1) * Gigabyte - 1
    PROVE  Walk(SetupIdentityMap32, BootPml4, a) = a
<1> DEFINE T == SetupIdentityMap32
           p2 == BootPml4 + 2 + g
<1>1. Entries \in Nat /\ Entries >= 4
  BY PagingAssumption
<1>2. /\ BootPml4 = 1 /\ BootPml4 + 1 = 2 /\ p2 = 3 + g /\ (p2 - BootPml4) - 2 = g
      /\ DOMAIN T = 1 .. 6
  BY DEF BootPml4, SetupIdentityMap32
<1>3. BootPml4 \in DOMAIN T /\ BootPml4 + 1 \in DOMAIN T /\ p2 \in DOMAIN T
  BY <1>2
<1>4. T[BootPml4][0] = Table(BootPml4 + 1)
  BY <1>1, <1>2 DEF SetupIdentityMap32
<1>5. T[BootPml4 + 1][g] = Table(p2)
  BY <1>1, <1>2 DEF SetupIdentityMap32
<1>6. T[p2] = FillPd32(g * Gigabyte)
  BY <1>2 DEF SetupIdentityMap32
<1>7. \A i \in 0 .. Entries - 1 : T[p2][i] = Huge(g * Gigabyte + i * PageSize)
  BY <1>6 DEF FillPd32
<1> HIDE DEF T, p2
<1>8. Leads(T, BootPml4, BootPml4 + 1, p2, g)
  BY <1>3, <1>4, <1>5, <1>7, Zenon DEF Leads
<1>9. QED
  BY <1>8, WalkIsIdentity, Zenon DEF T

\* A core's own map takes the first and the fourth gigabyte to themselves, and
\* is read nowhere but in its four tables.
LEMMA ApMap ==
    ASSUME NEW pml4 \in Int, NEW size \in Nat \ {0}, NEW T, NEW g \in {0, 3},
           NEW a \in g * Gigabyte .. (g + 1) * Gigabyte - 1,
           \A p \in DOMAIN BuildApPageTables(pml4, size) :
              p \in DOMAIN T /\ T[p] = BuildApPageTables(pml4, size)[p]
    PROVE  /\ Walk(T, pml4, a) = a
           /\ Walked(T, pml4, a) \subseteq DOMAIN BuildApPageTables(pml4, size)
<1> DEFINE B == BuildApPageTables(pml4, size)
           p1 == pml4 + size
           p2 == IF g = 0 THEN pml4 + 2 * size ELSE pml4 + 3 * size
<1>1. Entries \in Nat /\ Entries >= 4 /\ Gigabyte \in Int
  BY PagingAssumption DEF Gigabyte
<1>2. pml4 # p1 /\ p1 # p2 /\ pml4 # p2 /\ pml4 + 2 * size # pml4 + 3 * size
  OBVIOUS
<1>3. DOMAIN B = {pml4, pml4 + size, pml4 + 2 * size, pml4 + 3 * size}
  BY DEF BuildApPageTables
<1>4. pml4 \in DOMAIN B /\ p1 \in DOMAIN B /\ p2 \in DOMAIN B
  BY <1>3
<1>5. B[pml4][0] = Table(p1)
  BY <1>1, <1>2, SMTT(30) DEF BuildApPageTables
<1>6. B[p1][g] = Table(p2)
  <2>1. CASE g = 0
    BY <1>1, <1>2, <2>1, SMTT(30) DEF BuildApPageTables
  <2>2. CASE g = 3
    BY <1>1, <1>2, <2>2, SMTT(30) DEF BuildApPageTables
  <2>3. QED
    BY <2>1, <2>2
<1>7. B[p2] = FillPd32(g * Gigabyte)
  <2>1. CASE g = 0
    BY <1>1, <1>2, <2>1 DEF BuildApPageTables
  <2>2. CASE g = 3
    BY <1>1, <1>2, <2>2 DEF BuildApPageTables
  <2>3. QED
    BY <2>1, <2>2
<1>8. \A i \in 0 .. Entries - 1 : B[p2][i] = Huge(g * Gigabyte + i * PageSize)
  BY <1>7 DEF FillPd32
<1>9. Leads(T, pml4, p1, p2, g)
  BY <1>4, <1>5, <1>6, <1>8, Zenon DEF Leads
<1> HIDE DEF B, p1, p2
<1>10. Walk(T, pml4, a) = a /\ Walked(T, pml4, a) = {pml4, p1, p2}
  <2>1. g \in 0 .. 3
    OBVIOUS
  <2>2. QED
    BY <1>9, <2>1, WalkIsIdentity, SMTT(20)
<1>11. QED
  BY <1>4, <1>10 DEF B

-----------------------------------------------------------------------------
\* The numbers of include/smp_layout.h, of an AP region's internal offsets and
\* of both architectures, the discovery record as nine 64-bit fields.
Real == INSTANCE SmpLayout WITH
    MaxAps <- 64,
    RegionBase <- [x86_64 |-> 67108864, aarch64 |-> 1107296256],
    RegionSize <- 4194304,
    KernelMax <- 1048576, InitOffset <- 1048576, InitMax <- 2097152,
    StackOffset <- 3145728, StackSize <- 524288,
    MailboxOffset <- 3670016, MailboxSize <- 524288,
    BspMailbox <- [x86_64 |-> 18874368, aarch64 |-> 1098907648],
    DiscoveryOffset <- 3735552, DiscoverySize <- 72,
    KernelLoadBase <- [x86_64 |-> 16777216, aarch64 |-> 1090519040],
    InitLoadBase <- [x86_64 |-> 25165824, aarch64 |-> 1075838976],
    PgtableOffset <- 3801088, TableSize <- 4096,
    BootAllocatorBase <- 1099431936, BootAllocatorSize <- 1114112,
    AllocMin <- [x86_64 |-> 29360128, aarch64 |-> 1409286144],
    AllocMax <- [x86_64 |-> 67108864, aarch64 |-> 1476395008]

\* The constants of include/smp_layout.h leave room for every part: within a
\* region, between the BSP's images, its scratch window, the pool, the boot
\* allocator's region and 64 regions, on both architectures.
THEOREM RealLayout == Real!LayoutOK
<1>1. Real!PartsInOrder
  BY DEF Real!PartsInOrder
<1>2. Real!X86InOrder
  BY DEF Real!X86InOrder
<1>3. Real!ArmInOrder
  BY DEF Real!ArmInOrder
<1>4. Real!LayoutTypes
  BY DEF Real!LayoutTypes, Real!Arches
<1>5. QED
  BY <1>1, <1>2, <1>3, <1>4 DEF Real!LayoutOK

-----------------------------------------------------------------------------
\* Least and greatest elements.

\* Min is the least element, when there is one.
LEMMA MinIs ==
    ASSUME NEW S, \A y \in S : y \in Int, NEW x \in S, \A y \in S : x <= y
    PROVE  Min(S) = x
<1>1. Min(S) \in S /\ \A y \in S : Min(S) <= y
  BY DEF Min
<1>2. QED
  BY <1>1

\* Max is the greatest element, when there is one.
LEMMA MaxIs ==
    ASSUME NEW S, \A y \in S : y \in Int, NEW x \in S, \A y \in S : y <= x
    PROVE  Max(S) = x
<1>1. Max(S) \in S /\ \A y \in S : Max(S) >= y
  BY DEF Max
<1>2. QED
  BY <1>1

\* A set of natural numbers that is not empty has a least element.
LEMMA LeastExists ==
    ASSUME NEW S, \A y \in S : y \in Nat, S # {}
    PROVE  \E x \in S : \A y \in S : x <= y
<1>1. S \subseteq Nat
  OBVIOUS
<1>2. PICK x \in S : \A y \in S : ~ (<<y, x>> \in OpToRel(<, Nat))
  BY <1>1, NatLessThanWellFounded, WFMin, Zenon
<1>3. \A y \in S : ~ (y < x)
  BY <1>2, Zenon DEF OpToRel
<1>4. QED
  BY <1>3

\* So Min picks an element of it.
LEMMA MinIn ==
    ASSUME NEW S, \A y \in S : y \in Nat, S # {}
    PROVE  Min(S) \in S
<1>1. PICK x \in S : \A y \in S : x <= y
  BY LeastExists
<1>2. Min(S) = x
  BY <1>1, MinIs
<1>3. QED
  BY <1>2

\* And Max picks an element of a set that is bounded.
LEMMA MaxIn ==
    ASSUME NEW S, NEW n \in Nat, \A y \in S : y \in 1 .. n, S # {}
    PROVE  Max(S) \in S
<1> DEFINE T == {n - y : y \in S}
<1>1. (\A z \in T : z \in Nat) /\ T # {}
  OBVIOUS
<1>2. PICK z \in T : \A w \in T : z <= w
  BY <1>1, LeastExists, Zenon
<1>3. PICK x \in S : z = n - x
  BY <1>2
<1>4. \A y \in S : y <= x
  BY <1>2, <1>3
<1>5. Max(S) = x
  BY <1>4, MaxIs
<1>6. QED
  BY <1>5

-----------------------------------------------------------------------------
\* Images linked at a base.

\* The fields of a load command.
LEMMA Fields ==
    ASSUME NEW image, NEW base, LinkedAt(image, base), NEW j \in DOMAIN Commands(image)
    PROVE  LET cmd == Commands(image)[j]
           IN  /\ cmd.vmaddr \in Nat /\ cmd.vmsize \in Nat /\ cmd.fileoff \in Nat
               /\ cmd.filesize \in Nat /\ cmd.entryoff \in Nat
BY DEF LinkedAt

\* Every segment with content lies at or above the base, and ends no further
\* above it than macho_image_size says.
LEMMA SegmentInside ==
    ASSUME NEW image, NEW base \in Nat, Loadable(image), LinkedAt(image, base),
           NEW j \in Segments(image)
    PROVE  LET cmd == Commands(image)[j]
           IN  /\ cmd.filesize # 0 /\ cmd.filesize <= cmd.vmsize /\ Copied(cmd)
               /\ base <= cmd.vmaddr
               /\ cmd.vmaddr + cmd.vmsize <= base + ImageSize(image)
               /\ ImageSize(image) \in Nat
<1> DEFINE cmds == Commands(image)
           segs == Segments(image)
           end(k) == cmds[k].vmaddr + cmds[k].vmsize
           ends == {end(k) : k \in segs}
           starts == {cmds[k].vmaddr : k \in segs}
<1>1. \A k \in segs : k \in DOMAIN cmds /\ cmds[k].filesize # 0 /\ IsSegment(cmds[k])
  BY DEF Segments
<1>2. \A k \in segs : cmds[k].vmaddr \in Nat /\ cmds[k].vmsize \in Nat /\ cmds[k].filesize \in Nat
  BY <1>1, Fields
<1>3. \A k \in segs : cmds[k].filesize <= cmds[k].vmsize /\ base <= cmds[k].vmaddr
  BY DEF LinkedAt
<1>4. PICK lo \in segs : cmds[lo].vmaddr = base
  BY DEF LinkedAt
<1>5. PICK hi \in segs : \A k \in segs : end(k) <= end(hi)
  BY DEF LinkedAt
<1>6. Min(starts) = base
  <2>1. (\A y \in starts : y \in Int) /\ base \in starts /\ \A y \in starts : base <= y
    BY <1>2, <1>3, <1>4
  <2>2. QED
    BY <2>1, MinIs, Zenon
<1>7. Max(ends) = end(hi)
  <2>1. (\A y \in ends : y \in Int) /\ end(hi) \in ends /\ \A y \in ends : y <= end(hi)
    BY <1>2, <1>5
  <2>2. QED
    BY <2>1, MaxIs, Zenon
<1>8. ImageSize(image) = end(hi) - base
  <2>1. ImageSize(image) = Max(ends) - Min(starts)
    BY Zenon DEF ImageSize
  <2>2. QED
    BY <2>1, <1>6, <1>7
<1>9. end(hi) \in Nat /\ end(j) \in Nat /\ end(j) <= end(hi) /\ end(j) >= base
  BY <1>2, <1>3, <1>5
<1>10. Copied(cmds[j])
  BY <1>1, <1>2, <1>3 DEF Copied
<1>11. QED
  <2> HIDE DEF cmds, end
  <2>1. ImageSize(image) \in Nat /\ end(j) <= base + ImageSize(image)
    BY <1>8, <1>9
  <2>2. QED
    BY <2>1, <1>1, <1>3, <1>10 DEF cmds, end

\* What copying a segment writes: its content and then zeroes, at the
\* addresses of the segment, displaced by the target base.
LEMMA PlaceWrites ==
    ASSUME NEW cmd, NEW t \in Int, cmd.vmaddr \in Nat, cmd.vmsize \in Nat, cmd.filesize \in Nat,
           cmd.filesize <= cmd.vmsize
    PROVE  /\ DOMAIN Place(cmd, t) = {t + cmd.vmaddr + b : b \in 0 .. cmd.vmsize - 1}
           /\ \A b \in 0 .. cmd.vmsize - 1 :
                 Place(cmd, t)[t + cmd.vmaddr + b] =
                    IF b < cmd.filesize THEN <<"init", cmd.fileoff + b>> ELSE <<"zero", 0>>
<1> DEFINE length == Max({cmd.filesize, cmd.vmsize})
           where == {t + cmd.vmaddr + b : b \in 0 .. cmd.vmsize - 1}
<1>1. length = cmd.vmsize
  <2> DEFINE S == {cmd.filesize, cmd.vmsize}
  <2>1. (\A y \in S : y \in Int) /\ cmd.vmsize \in S /\ \A y \in S : y <= cmd.vmsize
    OBVIOUS
  <2> HIDE DEF S
  <2>2. Max(S) = cmd.vmsize
    BY <2>1, MaxIs
  <2>3. QED
    BY <2>2 DEF S
<1>2. Place(cmd, t) = [a \in where |->
                         LET b == a - t - cmd.vmaddr
                         IN  IF b < cmd.filesize THEN <<"init", cmd.fileoff + b>> ELSE <<"zero", 0>>]
  BY <1>1, Zenon DEF Place
<1>3. \A b \in 0 .. cmd.vmsize - 1 : /\ t + cmd.vmaddr + b \in where
                                     /\ (t + cmd.vmaddr + b) - t - cmd.vmaddr = b
  OBVIOUS
<1>4. QED
  BY <1>2, <1>3, Zenon

\* The entry lies in a segment, and its place in it is its place in the file.
LEMMA EntryInSegment ==
    ASSUME NEW image, NEW base, LinkedAt(image, base), NEW t \in Int, Entry(image, t) # 0
    PROVE  \E j \in Segments(image), b \in Nat :
              /\ b < Commands(image)[j].filesize
              /\ Entry(image, t) = t + Commands(image)[j].vmaddr + b
              /\ Commands(image)[j].fileoff + b = EntryOff(image)
<1> DEFINE cmds == Commands(image)
           off == EntryOff(image)
           mains == {i \in DOMAIN cmds : cmds[i].kind = "main"}
           homes == {i \in DOMAIN cmds :
                       LET c == cmds[i]
                       IN  IsSegment(c) /\ off >= c.fileoff /\ off < c.fileoff + c.filesize}
           j == Min(homes)
<1>1. off # -1 /\ homes # {} /\ Entry(image, t) = t + cmds[j].vmaddr + (off - cmds[j].fileoff)
  <2>1. Entry(image, t) = IF off = -1 \/ homes = {} THEN 0
                          ELSE t + cmds[j].vmaddr + (off - cmds[j].fileoff)
    BY Zenon DEF Entry
  <2> HIDE DEF off, homes, j
  <2>2. QED
    BY <2>1, Zenon
<1>2. Len(cmds) \in Nat /\ DOMAIN cmds = 1 .. Len(cmds)
  BY DEF LinkedAt
<1>3. off \in Nat
  <2>1. mains # {} /\ off = cmds[Max(mains)].entryoff
    BY <1>1, Zenon DEF EntryOff
  <2>2. \A y \in mains : y \in 1 .. Len(cmds)
    BY <1>2, Zenon
  <2>3. Max(mains) \in mains
    BY <1>2, <2>1, <2>2, MaxIn, Zenon
  <2>4. QED
    BY <2>1, <2>3, Fields, Zenon
<1>4. j \in homes
  <2>1. \A y \in homes : y \in Nat
    BY <1>2, Counting, Zenon
  <2>2. QED
    BY <1>1, <2>1, MinIn, Zenon
<1> HIDE DEF j
<1>5. /\ j \in DOMAIN cmds /\ IsSegment(cmds[j])
      /\ off >= cmds[j].fileoff /\ off < cmds[j].fileoff + cmds[j].filesize
  BY <1>4
<1>6. cmds[j].fileoff \in Nat /\ cmds[j].filesize \in Nat /\ cmds[j].vmaddr \in Nat
  BY <1>5, Fields
<1> HIDE DEF off
<1>7. /\ off - cmds[j].fileoff \in Nat /\ off - cmds[j].fileoff < cmds[j].filesize
      /\ cmds[j].filesize # 0 /\ cmds[j].fileoff + (off - cmds[j].fileoff) = off
  BY <1>3, <1>5, <1>6
<1>8. j \in Segments(image)
  BY <1>5, <1>7 DEF Segments
<1>9. QED
  BY <1>1, <1>7, <1>8, ZenonT(40) DEF off

-----------------------------------------------------------------------------
\* The inductive invariant.

\* The target_base a core gives to macho_load.
Displacement(c) == IF c = Bsp THEN 0 ELSE ApSlide(c)

\* Where a core is: it has loaded nothing before macho_load is called, is in
\* macho_load only with an image it can load, displaced as its region says,
\* and has entered init only with every command done and the entry found.
CoreOK(c) ==
    /\ pc[c] \in {"off", "start"} => at[c] = 1
    /\ pc[c] = "load" => ~Shared
    /\ (~Shared /\ pc[c] \in {"load", "init"}) =>
          Loadable(input.init) /\ slide[c] = Displacement(c)
    /\ (~Shared /\ pc[c] = "init") =>
          /\ at[c] > Len(Commands(input.init))
          /\ entry[c] = Entry(input.init, slide[c]) /\ entry[c] # 0
    /\ (~Shared /\ c # Bsp /\ pc[c] # "off" /\ Arm) => SlotsHold

\* What the BSP tells init is enough to start a core: then on ARM the images
\* fit their slots, and the length of the kernel is its length.
BspSays ==
    (~Shared /\ pc[Bsp] = "init" /\ info[Bsp].kernel_boot_ap_addr # 0
       /\ info[Bsp].kernel_image_len # 0) =>
          /\ Arm => SlotsHold
          /\ info[Bsp].kernel_image_len = input.kernel_len

Control ==
    /\ input \in Inputs
    /\ pc \in [Cores -> {"off", "start", "load", "init", "halt"}]
    /\ at \in [Cores -> Nat \ {0}] /\ slide \in [Cores -> Int]
    /\ DOMAIN written = Cores /\ DOMAIN info = Cores /\ DOMAIN entry = Cores
    /\ \A c \in Cores : CoreOK(c)
    /\ BspSays

\* The kernel image is in place at an address.
KernelAt(m, base, len) ==
    \A k \in 0 .. len - 1 : base + k \in DOMAIN m /\ m[base + k] = <<"kernel", k>>

\* A segment is in place, displaced by t.
SegmentAt(m, t, cmd) ==
    \A b \in 0 .. cmd.vmsize - 1 :
        /\ t + cmd.vmaddr + b \in DOMAIN m
        /\ m[t + cmd.vmaddr + b] =
              IF b < cmd.filesize THEN <<"init", cmd.fileoff + b>> ELSE <<"zero", 0>>

\* The images a core works with are in place, init as far as it is loaded.
ImagesOK(c) ==
    /\ pc[c] # "off" => KernelAt(mem, KernelOf(c), input.kernel_len)
    /\ pc[c] \in {"load", "init"} =>
          \A j \in Segments(input.init) :
              j < at[c] => SegmentAt(mem, slide[c], Commands(input.init)[j])

IInv ==
    /\ Control
    /\ (~Shared /\ (Arm \/ SlotsHold)) => \A c \in Cores : ImagesOK(c)
    /\ ArmApStaysInSlot

-----------------------------------------------------------------------------
\* Facts about the operators.

\* Everything that is computed from the inputs stays what it is.
LEMMA SameInput ==
    ASSUME input' = input
    PROVE  /\ arch' = arch
           /\ (Arm' <=> Arm) /\ (Shared' <=> Shared) /\ (SlotsHold' <=> SlotsHold)
           /\ \A c \in Cores : /\ RegionOf(c)' = RegionOf(c) /\ KernelOf(c)' = KernelOf(c)
                               /\ Displacement(c)' = Displacement(c)
                               /\ PageTables(c)' = PageTables(c)
BY Zenon DEF arch, Arm, Shared, SlotsHold, RegionOf, KernelOf, Displacement, ApSlide, PageTables

\* The cores' numbers, and the sizes of the images of this boot.
LEMMA Sizes ==
    ASSUME input \in Inputs
    PROVE  /\ arch \in Arches /\ input.kernel_len \in Nat
           /\ Arm <=> arch # "x86_64"
           /\ \A c \in Cores : c \in Nat
           /\ \A c \in Aps : c \in Nat \ {0} /\ c \in Cores
           /\ Bsp \in Cores
           /\ Loadable(input.init) => LinkedAt(input.init, InitLoadBase[arch])
           /\ InitLoadBase[arch] \in Nat /\ RegionBase[arch] \in Nat
<1>1. arch \in Arches /\ input.kernel_len \in Nat
  BY InputsAssumption, Zenon DEF arch
<1>2. Loadable(input.init) => LinkedAt(input.init, InitLoadBase[arch])
  BY InputsAssumption, Zenon DEF arch
<1>3. \A c \in Aps : c \in Nat \ {0}
  BY ApsAssumption, LayoutFacts
<1>4. Arm <=> arch # "x86_64"
  BY <1>1, Zenon DEF Arm, Arches
<1>5. InitLoadBase[arch] \in Nat /\ RegionBase[arch] \in Nat
  BY <1>1, LayoutFacts, Zenon
<1>6. QED
  BY <1>1, <1>2, <1>3, <1>4, <1>5 DEF Cores, Bsp

\* The displacement is an address difference.
LEMMA DisplacementType ==
    ASSUME input \in Inputs, NEW c \in Cores
    PROVE  Displacement(c) \in Int
<1>1. /\ RegionSize \in Nat \ {0} /\ InitOffset \in Nat /\ c \in Nat
      /\ InitLoadBase[arch] \in Nat /\ RegionBase[arch] \in Nat
  BY Sizes, LayoutFacts, Zenon
<1>2. (c - 1) * RegionSize \in Int
  BY <1>1, Multiples
<1>3. QED
  BY <1>1, <1>2 DEF Displacement, ApSlide, RegionOf, Region

\* The fields of the BSP's boot_info that say whether a core can be started.
LEMMA BspInfos ==
    /\ BspInfoX86.kernel_image_len = ImageSize(input.kernel)
    /\ BspInfoArm.kernel_boot_ap_addr = (IF ImagesFit THEN ImageOf(Bsp) ELSE 0)
    /\ BspInfoArm.kernel_image_len = (IF ImagesFit THEN input.kernel_len ELSE 0)
<1>1. "kernel_image_len" \in Info /\ "kernel_boot_ap_addr" \in Info
  BY Zenon DEF Info
<1>2. QED
  BY <1>1, Zenon DEF BspInfoX86, BspInfoArm, ZeroInfo

\* The size of an init that can be loaded.
LEMMA InitSize ==
    ASSUME input \in Inputs, Loadable(input.init)
    PROVE  ImageSize(input.init) \in Nat
<1>1. CASE Segments(input.init) = {}
  BY <1>1, Zenon DEF ImageSize
<1>2. CASE Segments(input.init) # {}
  BY <1>2, Sizes, SegmentInside, Zenon
<1>3. QED
  BY <1>1, <1>2, Zenon

\* The size test of kernel_boot_aarch64 is that the slots hold the images.
LEMMA FitMeansHold ==
    ASSUME input \in Inputs, Loadable(input.init), ImagesFit
    PROVE  SlotsHold
<1>1. InitMax \in Nat
  BY LayoutFacts, Zenon
<1>2. QED
  BY <1>1, InitSize DEF ImagesFit, SlotsHold

-----------------------------------------------------------------------------
\* Control is preserved.

\* The entry stubs leave every core where Control says.
LEMMA ControlInit == Init => Control
<1> SUFFICES ASSUME Init PROVE Control
  BY Zenon
<1>1. Bsp \in Cores /\ pc[Bsp] = "start"
  BY Zenon DEF Init, Cores
<1>2. \A c \in Cores : CoreOK(c)
  BY Zenon DEF Init, CoreOK
<1>3. BspSays
  BY <1>1, Zenon DEF BspSays
<1>4. QED
  BY <1>2, <1>3 DEF Init, Control

\* A core that takes a step leaves the others where they are.
LEMMA Others ==
    ASSUME Control, input' = input, NEW d \in Cores,
           pc'[d] = pc[d], at'[d] = at[d], slide'[d] = slide[d], entry'[d] = entry[d]
    PROVE  CoreOK(d)'
BY SameInput, ZenonT(40) DEF Control, CoreOK

\* A core halts.
LEMMA HaltControl ==
    ASSUME Control, input' = input, NEW c \in Cores, pc[c] # "off", Halt(c)
    PROVE  Control'
<1>1. /\ pc' = [pc EXCEPT ![c] = "halt"]
      /\ at' = at /\ slide' = slide /\ written' = written /\ info' = info /\ entry' = entry
  BY Zenon DEF Halt
<1>2. pc'[c] = "halt" /\ \A d \in Cores : d # c => pc'[d] = pc[d]
  BY <1>1, Zenon DEF Control
<1>3. \A d \in Cores : CoreOK(d)'
  <2> SUFFICES ASSUME NEW d \in Cores PROVE CoreOK(d)'
    BY Zenon
  <2>1. CASE d = c
    BY <1>1, <1>2, <2>1, SameInput, ZenonT(40) DEF Control, CoreOK
  <2>2. CASE d # c
    BY <1>1, <1>2, <2>2, Others, Zenon
  <2>3. QED
    BY <2>1, <2>2, Zenon
<1>4. BspSays'
  BY <1>1, <1>2, SameInput, Sizes, Zenon DEF Control, BspSays
<1>5. pc' \in [Cores -> {"off", "start", "load", "init", "halt"}]
  BY <1>1, Zenon DEF Control
<1>6. QED
  BY <1>1, <1>3, <1>4, <1>5, Zenon DEF Control

\* macho_load is called.
LEMMA CallControl ==
    ASSUME Control, input' = input, NEW c \in Cores, pc[c] = "start", ~Shared,
           NEW w, CallMachoLoad(c, Displacement(c), w)
    PROVE  Control'
<1>1. /\ pc' = [pc EXCEPT ![c] = IF Loadable(input.init) THEN "load" ELSE "halt"]
      /\ slide' = [slide EXCEPT ![c] = Displacement(c)]
      /\ written' = [written EXCEPT ![c] = @ \cup DOMAIN w]
      /\ at' = at /\ info' = info /\ entry' = entry
  BY Zenon DEF CallMachoLoad
<1>2. /\ pc'[c] = IF Loadable(input.init) THEN "load" ELSE "halt"
      /\ slide'[c] = Displacement(c)
      /\ \A d \in Cores : d # c => pc'[d] = pc[d] /\ slide'[d] = slide[d]
  BY <1>1, Zenon DEF Control
<1>3. \A d \in Cores : CoreOK(d)'
  <2> SUFFICES ASSUME NEW d \in Cores PROVE CoreOK(d)'
    BY Zenon
  <2>1. CASE d = c
    BY <1>1, <1>2, <2>1, SameInput, ZenonT(40) DEF Control, CoreOK
  <2>2. CASE d # c
    BY <1>1, <1>2, <2>2, Others, Zenon
  <2>3. QED
    BY <2>1, <2>2, Zenon
<1>4. BspSays'
  BY <1>1, <1>2, SameInput, Sizes, Zenon DEF Control, BspSays
<1>5. /\ pc' \in [Cores -> {"off", "start", "load", "init", "halt"}]
      /\ slide' \in [Cores -> Int] /\ DOMAIN written' = Cores
  BY <1>1, DisplacementType, Zenon DEF Control
<1>6. QED
  BY <1>1, <1>3, <1>4, <1>5, ZenonT(40) DEF Control

\* init is entered after macho_load.
LEMMA EnterControl ==
    ASSUME Control, input' = input, NEW c \in Cores, Loaded(c), NEW i,
           Entry(input.init, slide[c]) # 0, EnterInit(c, i, Entry(input.init, slide[c])),
           (c = Bsp /\ i.kernel_boot_ap_addr # 0 /\ i.kernel_image_len # 0) =>
              (Arm => SlotsHold) /\ i.kernel_image_len = input.kernel_len
    PROVE  Control'
<1>1. /\ pc' = [pc EXCEPT ![c] = "init"]
      /\ info' = [info EXCEPT ![c] = i]
      /\ entry' = [entry EXCEPT ![c] = Entry(input.init, slide[c])]
      /\ at' = at /\ slide' = slide /\ written' = written
  BY Zenon DEF EnterInit
<1>2. /\ pc'[c] = "init" /\ info'[c] = i /\ entry'[c] = Entry(input.init, slide[c])
      /\ \A d \in Cores : d # c => pc'[d] = pc[d] /\ entry'[d] = entry[d] /\ info'[d] = info[d]
  BY <1>1, Zenon DEF Control
<1>3. \A d \in Cores : CoreOK(d)'
  <2> SUFFICES ASSUME NEW d \in Cores PROVE CoreOK(d)'
    BY Zenon
  <2>1. CASE d = c
    BY <1>1, <1>2, <2>1, SameInput, ZenonT(40) DEF Control, CoreOK, Loaded
  <2>2. CASE d # c
    BY <1>1, <1>2, <2>2, Others, Zenon
  <2>3. QED
    BY <2>1, <2>2, Zenon
<1>4. BspSays'
  <2>1. CASE c = Bsp
    BY <1>2, <2>1, SameInput, Zenon DEF BspSays
  <2>2. CASE c # Bsp
    BY <1>2, <2>2, SameInput, Sizes, Zenon DEF Control, BspSays
  <2>3. QED
    BY <2>1, <2>2, Zenon
<1>5. /\ pc' \in [Cores -> {"off", "start", "load", "init", "halt"}]
      /\ DOMAIN info' = Cores /\ DOMAIN entry' = Cores
  BY <1>1, Zenon DEF Control
<1>6. QED
  BY <1>1, <1>3, <1>4, <1>5, Zenon DEF Control

\* init is entered on the shared path, where nothing is loaded.
LEMMA SharedControl ==
    ASSUME Control, input' = input, NEW c \in Cores, pc[c] = "start", Shared, NEW i, NEW e,
           EnterInit(c, i, e)
    PROVE  Control'
<1>1. /\ pc' = [pc EXCEPT ![c] = "init"]
      /\ info' = [info EXCEPT ![c] = i]
      /\ entry' = [entry EXCEPT ![c] = e]
      /\ at' = at /\ slide' = slide /\ written' = written
  BY Zenon DEF EnterInit
<1>2. pc'[c] = "init" /\ \A d \in Cores : d # c => pc'[d] = pc[d] /\ entry'[d] = entry[d]
  BY <1>1, Zenon DEF Control
<1>3. \A d \in Cores : CoreOK(d)'
  <2> SUFFICES ASSUME NEW d \in Cores PROVE CoreOK(d)'
    BY Zenon
  <2>1. CASE d = c
    BY <1>1, <1>2, <2>1, SameInput, Zenon DEF Control, CoreOK
  <2>2. CASE d # c
    BY <1>1, <1>2, <2>2, Others, Zenon
  <2>3. QED
    BY <2>1, <2>2, Zenon
<1>4. BspSays'
  BY SameInput, ZenonT(40) DEF BspSays
<1>5. /\ pc' \in [Cores -> {"off", "start", "load", "init", "halt"}]
      /\ DOMAIN info' = Cores /\ DOMAIN entry' = Cores
  BY <1>1, Zenon DEF Control
<1>6. QED
  BY <1>1, <1>3, <1>4, <1>5, Zenon DEF Control

\* A load command is done.
LEMMA LoadControl ==
    ASSUME Control, NEW c \in Cores, LoadCommand(c)
    PROVE  Control'
<1>1. /\ pc[c] = "load" /\ at' = [at EXCEPT ![c] = @ + 1] /\ DOMAIN written' = DOMAIN written
      /\ input' = input /\ pc' = pc /\ slide' = slide /\ info' = info /\ entry' = entry
  BY Zenon DEF LoadCommand
<1>2. \A d \in Cores : d # c => at'[d] = at[d]
  BY <1>1, Zenon DEF Control
<1>3. \A d \in Cores : CoreOK(d)'
  <2> SUFFICES ASSUME NEW d \in Cores PROVE CoreOK(d)'
    BY Zenon
  <2>1. CASE d = c
    BY <1>1, <2>1, SameInput, ZenonT(40) DEF Control, CoreOK
  <2>2. CASE d # c
    BY <1>1, <1>2, <2>2, Others, Zenon
  <2>3. QED
    BY <2>1, <2>2, Zenon
<1>4. BspSays'
  BY <1>1, SameInput, Zenon DEF Control, BspSays
<1>5. at' \in [Cores -> Nat \ {0}]
  BY <1>1 DEF Control
<1>6. QED
  BY <1>1, <1>3, <1>4, <1>5, ZenonT(40) DEF Control

\* init starts a core.
LEMMA BringUpControl ==
    ASSUME Control, NEW c \in Aps, BringUp(c)
    PROVE  Control'
<1>1. /\ pc[Bsp] = "init" /\ pc[c] = "off" /\ pc' = [pc EXCEPT ![c] = "start"]
      /\ info[Bsp].kernel_boot_ap_addr # 0
      /\ ~Shared => info[Bsp].kernel_image_len # 0
      /\ input' = input /\ at' = at /\ slide' = slide /\ written' = written
      /\ info' = info /\ entry' = entry
  BY Zenon DEF BringUp
<1>2. c \in Cores /\ c # Bsp
  BY Sizes, Zenon DEF Control, Bsp
<1>3. pc'[c] = "start" /\ \A d \in Cores : d # c => pc'[d] = pc[d]
  BY <1>1, <1>2, ZenonT(40) DEF Control
<1>4. ~Shared /\ Arm => SlotsHold
  BY <1>1, Zenon DEF Control, BspSays
<1>5. \A d \in Cores : CoreOK(d)'
  <2> SUFFICES ASSUME NEW d \in Cores PROVE CoreOK(d)'
    BY Zenon
  <2>1. CASE d = c
    BY <1>1, <1>3, <1>4, <2>1, SameInput, ZenonT(40) DEF Control, CoreOK
  <2>2. CASE d # c
    BY <1>1, <1>3, <2>2, Others, Zenon
  <2>3. QED
    BY <2>1, <2>2, Zenon
<1>6. BspSays'
  BY <1>1, <1>2, <1>3, SameInput, Sizes, ZenonT(40) DEF Control, BspSays
<1>7. pc' \in [Cores -> {"off", "start", "load", "init", "halt"}]
  BY <1>1, Zenon DEF Control
<1>8. QED
  BY <1>1, <1>5, <1>6, <1>7, Zenon DEF Control

\* Every step of a core, and of init starting one, keeps Control.
LEMMA ControlStep == Control /\ [Next]_vars => Control'
<1> SUFFICES ASSUME Control, [Next]_vars PROVE Control'
  BY Zenon
<1>0. Bsp \in Cores /\ \A c \in Aps : c \in Cores
  BY Zenon DEF Cores
<1>1. CASE StartBsp
  <2>1. /\ pc[Bsp] = "start" /\ ~Shared /\ input' = input
        /\ CallMachoLoad(Bsp, Displacement(Bsp), Nothing)
    BY <1>1, Zenon DEF StartBsp, Displacement
  <2>2. QED
    BY <1>0, <2>1, CallControl, Zenon
<1>2. CASE FinishBsp
  <2> DEFINE e == Entry(input.init, 0)
             i == IF Arm THEN BspInfoArm ELSE BspInfoX86
  <2>1. Loaded(Bsp) /\ input' = input /\ (IF e = 0 THEN Halt(Bsp) ELSE EnterInit(Bsp, i, e))
    BY <1>2, Zenon DEF FinishBsp
  <2>2. pc[Bsp] = "load" /\ ~Shared /\ Loadable(input.init) /\ slide[Bsp] = 0
    BY <1>0, <2>1, Zenon DEF Loaded, Control, CoreOK, Displacement
  <2>3. CASE e = 0
    BY <1>0, <2>1, <2>2, <2>3, HaltControl, Zenon
  <2>4. CASE e # 0
    <3>1. CASE Arm
      <4>1. i.kernel_boot_ap_addr # 0 => ImagesFit
        BY <3>1, BspInfos, ZenonT(40)
      <4>2. ImagesFit => SlotsHold /\ i.kernel_image_len = input.kernel_len
        BY <2>2, <3>1, BspInfos, FitMeansHold, ZenonT(40) DEF Control
      <4> HIDE DEF i
      <4>3. QED
        BY <1>0, <2>1, <2>2, <2>4, <4>1, <4>2, EnterControl, ZenonT(40)
    <3>2. CASE ~Arm
      <4>1. input.arch = "x86_64"
        BY <3>2, Sizes, Zenon DEF Control, arch
      <4>2. ImageSize(input.kernel) \in {0, input.kernel_len}
        BY <4>1, InputsAssumption, ZenonT(40) DEF Control
      <4>3. i.kernel_image_len # 0 => i.kernel_image_len = input.kernel_len
        BY <3>2, <4>2, BspInfos, ZenonT(40)
      <4> HIDE DEF i
      <4>4. QED
        BY <1>0, <2>1, <2>2, <2>4, <3>2, <4>3, EnterControl, ZenonT(40)
    <3>3. QED
      BY <3>1, <3>2, Zenon
  <2>5. QED
    BY <2>3, <2>4, Zenon
<1>3. CASE BootProtocol
  BY <1>0, <1>3, HaltControl, SharedControl, ZenonT(40) DEF BootProtocol
<1>4. CASE \E c \in Cores : LoadCommand(c)
  BY <1>4, LoadControl, ZenonT(40)
<1>5. CASE \E c \in Aps : BringUp(c)
  BY <1>5, BringUpControl, ZenonT(40)
<1>6. CASE \E c \in Aps : StartAp(c)
  <2> SUFFICES ASSUME NEW c \in Aps, StartAp(c) PROVE Control'
    BY <1>6, ZenonT(40)
  <2>1. /\ pc[c] = "start" /\ ~Shared /\ input' = input
        /\ CallMachoLoad(c, Displacement(c), PageTables(c))
    BY Zenon DEF StartAp, Displacement
  <2>2. QED
    BY <1>0, <2>1, CallControl, ZenonT(40)
<1>7. CASE \E c \in Aps : FinishAp(c)
  <2> SUFFICES ASSUME NEW c \in Aps, FinishAp(c) PROVE Control'
    BY <1>7, Zenon
  <2> DEFINE e == Entry(input.init, slide[c])
  <2>1. /\ c # Bsp /\ Loaded(c) /\ input' = input
        /\ IF e = 0 THEN Halt(c) ELSE EnterInit(c, ApInfo(c), e)
    BY Zenon DEF FinishAp
  <2>2. pc[c] # "off"
    BY <2>1, Zenon DEF Loaded
  <2>3. QED
    BY <1>0, <2>1, <2>2, HaltControl, EnterControl, ZenonT(40)
<1>8. CASE \E c \in Aps : StartSharedAp(c)
  <2> SUFFICES ASSUME NEW c \in Aps, StartSharedAp(c) PROVE Control'
    BY <1>8, Zenon
  <2>1. /\ pc[c] = "start" /\ Shared /\ input' = input
        /\ Halt(c) \/ \E i, e : EnterInit(c, i, e)
    BY Zenon DEF StartSharedAp
  <2>2. QED
    BY <1>0, <2>1, HaltControl, SharedControl, ZenonT(40)
<1>9. CASE UNCHANGED vars
  <2>1. /\ input' = input /\ pc' = pc /\ at' = at /\ slide' = slide /\ written' = written
        /\ info' = info /\ entry' = entry /\ mem' = mem
    BY <1>9, Zenon DEF vars
  <2>2. (Arm' <=> Arm) /\ (Shared' <=> Shared) /\ (SlotsHold' <=> SlotsHold)
    BY <2>1, Zenon DEF Arm, Shared, SlotsHold, arch
  <2>3. ASSUME NEW c \in Cores PROVE CoreOK(c)'
    <3>1. Displacement(c)' = Displacement(c)
      BY <2>1, SameInput, Zenon
    <3>2. CoreOK(c)
      BY <1>0, Zenon DEF Control
    <3>3. QED
      BY <2>1, <2>2, <3>1, <3>2, ZenonT(40) DEF CoreOK
  <2>4. BspSays'
    BY <1>0, <2>1, <2>2, ZenonT(40) DEF Control, BspSays
  <2>5. QED
    BY <1>0, <2>1, <2>3, <2>4, ZenonT(40) DEF Control
<1>10. QED
  BY <1>1, <1>2, <1>3, <1>4, <1>5, <1>6, <1>7, <1>8, <1>9, ZenonT(40) DEF Next, Settled

-----------------------------------------------------------------------------
\* Where the images lie.

KernelRange(c) == Span(KernelOf(c), input.kernel_len)

SegmentRange(t, cmd) == Span(t + cmd.vmaddr, cmd.vmsize)

\* The two places the geometry of the layout speaks of.
LEMMA Bases ==
    ASSUME input \in Inputs, NEW c \in Cores
    PROVE  /\ KernelOf(c) = KernelBase(arch, c)
           /\ SlotBase(arch, c) = Displacement(c) + InitLoadBase[arch]
           /\ SlotBase(arch, c) \in Int /\ KernelBase(arch, c) \in Int
           /\ c # Bsp => RegionOf(c) = Region(arch, c)
<1>1. /\ RegionSize \in Nat \ {0} /\ InitOffset \in Nat /\ c \in Nat /\ arch \in Arches
      /\ InitLoadBase[arch] \in Nat /\ RegionBase[arch] \in Nat /\ KernelLoadBase[arch] \in Nat
  BY Sizes, LayoutFacts, Zenon
<1>2. (c - 1) * RegionSize \in Int
  BY <1>1, Multiples
<1>3. Region(arch, c) \in Int
  BY <1>1, <1>2 DEF Region
<1>4. KernelOf(c) = KernelBase(arch, c) /\ KernelBase(arch, c) \in Int
  BY <1>1, <1>3 DEF KernelOf, KernelBase, Bsp, RegionOf
<1>5. SlotBase(arch, c) = Displacement(c) + InitLoadBase[arch] /\ SlotBase(arch, c) \in Int
  BY <1>1, <1>3 DEF SlotBase, Displacement, ApSlide, RegionOf, Bsp, Arm
<1>6. QED
  BY <1>4, <1>5, Zenon DEF RegionOf

\* A segment lies in the part of memory that begins at the core's slot and is
\* as long as macho_image_size says.
LEMMA SegmentInSlot ==
    ASSUME input \in Inputs, Loadable(input.init), NEW c \in Cores,
           NEW j \in Segments(input.init),
           NEW a \in SegmentRange(Displacement(c), Commands(input.init)[j])
    PROVE  /\ a \in Int
           /\ SlotBase(arch, c) <= a /\ a < SlotBase(arch, c) + ImageSize(input.init)
           /\ SlotsHold => a \in Span(SlotBase(arch, c), InitMax)
<1> DEFINE cmd == Commands(input.init)[j]
           base == InitLoadBase[arch]
<1>1. LinkedAt(input.init, base) /\ base \in Nat
  BY Sizes, Zenon
<1>2. cmd.vmaddr \in Nat /\ cmd.vmsize \in Nat
  BY <1>1, Fields, Zenon DEF Segments
<1>3. /\ base <= cmd.vmaddr /\ cmd.vmaddr + cmd.vmsize <= base + ImageSize(input.init)
      /\ ImageSize(input.init) \in Nat
  BY <1>1, SegmentInside, Zenon
<1>4. PICK b \in 0 .. cmd.vmsize - 1 : a = Displacement(c) + cmd.vmaddr + b
  BY Zenon DEF SegmentRange, Span
<1>5. /\ SlotBase(arch, c) = Displacement(c) + base /\ Displacement(c) \in Int
      /\ InitMax \in Nat
  BY Bases, DisplacementType, LayoutFacts, Zenon
<1> HIDE DEF cmd, base
<1>6. /\ a \in Int /\ a - SlotBase(arch, c) \in 0 .. ImageSize(input.init) - 1
      /\ SlotBase(arch, c) \in Int
  BY <1>1, <1>2, <1>3, <1>4, <1>5
<1>7. SlotsHold => ImageSize(input.init) <= InitMax
  BY <1>3, <1>5 DEF SlotsHold
<1>8. SlotsHold => /\ a - SlotBase(arch, c) \in 0 .. InitMax - 1
                   /\ a = SlotBase(arch, c) + (a - SlotBase(arch, c))
  BY <1>3, <1>5, <1>6, <1>7
<1>9. SlotsHold => a \in Span(SlotBase(arch, c), InitMax)
  BY <1>8, Zenon DEF Span
<1>10. QED
  BY <1>3, <1>6, <1>9

\* So does a kernel in its slot.
LEMMA KernelInSlot ==
    ASSUME input \in Inputs, SlotsHold, NEW c \in Cores, NEW a \in KernelRange(c)
    PROVE  a \in Span(KernelBase(arch, c), KernelMax)
<1>1. input.kernel_len \in Nat /\ KernelMax \in Nat /\ KernelOf(c) = KernelBase(arch, c)
  BY Sizes, Bases, LayoutFacts, Zenon
<1>2. PICK k \in 0 .. input.kernel_len - 1 : a = KernelOf(c) + k
  BY Zenon DEF KernelRange, Span
<1>3. k \in 0 .. KernelMax - 1
  BY <1>1, <1>2 DEF SlotsHold
<1>4. QED
  BY <1>1, <1>2, <1>3, Zenon DEF Span

\* The cores whose images are at stake: all of them when the images fit, else
\* on ARM the BSP alone.
AtStake(c) == SlotsHold \/ (Arm /\ c = Bsp)

\* No two segments overlap, of one core or of two.
LEMMA SegmentsApart ==
    ASSUME input \in Inputs, Loadable(input.init),
           NEW c \in Cores, NEW d \in Cores, AtStake(c), AtStake(d),
           NEW j \in Segments(input.init), NEW k \in Segments(input.init), c # d \/ j # k,
           NEW a \in SegmentRange(Displacement(c), Commands(input.init)[j])
    PROVE  a \notin SegmentRange(Displacement(d), Commands(input.init)[k])
<1> SUFFICES ASSUME a \in SegmentRange(Displacement(d), Commands(input.init)[k]) PROVE FALSE
  BY Zenon
<1>1. CASE c # d
  <2>1. SlotsHold
    BY <1>1, Zenon DEF AtStake
  <2>2. a \in Span(SlotBase(arch, c), InitMax) /\ a \in Span(SlotBase(arch, d), InitMax)
    BY <2>1, SegmentInSlot, Zenon
  <2>3. QED
    BY <1>1, <2>2, Sizes, SlotsApart, Zenon
<1>2. CASE c = d
  <2> DEFINE x == Commands(input.init)[j]
             y == Commands(input.init)[k]
             t == Displacement(c)
  <2>1. LinkedAt(input.init, InitLoadBase[arch])
    BY Sizes, Zenon
  <2>2. x.vmaddr \in Nat /\ x.vmsize \in Nat /\ y.vmaddr \in Nat /\ y.vmsize \in Nat /\ t \in Int
    BY <2>1, Fields, DisplacementType, Zenon DEF Segments
  <2>3. x.vmaddr + x.vmsize <= y.vmaddr \/ y.vmaddr + y.vmsize <= x.vmaddr
    BY <1>2, <2>1, Zenon DEF LinkedAt
  <2>4. PICK b \in 0 .. x.vmsize - 1 : a = t + x.vmaddr + b
    BY Zenon DEF SegmentRange, Span
  <2>5. PICK e \in 0 .. y.vmsize - 1 : a = t + y.vmaddr + e
    BY <1>2, Zenon DEF SegmentRange, Span
  <2> HIDE DEF x, y, t
  <2>6. QED
    BY <2>2, <2>3, <2>4, <2>5
<1>3. QED
  BY <1>1, <1>2, Zenon

\* No segment overlaps a kernel.
LEMMA SegmentKernelApart ==
    ASSUME input \in Inputs, Loadable(input.init),
           NEW c \in Cores, NEW d \in Cores, AtStake(c), AtStake(d),
           NEW j \in Segments(input.init),
           NEW a \in SegmentRange(Displacement(c), Commands(input.init)[j])
    PROVE  a \notin KernelRange(d)
<1> SUFFICES ASSUME a \in KernelRange(d) PROVE FALSE
  BY Zenon
<1>1. CASE SlotsHold
  <2>1. a \in Span(SlotBase(arch, c), InitMax) /\ a \in Span(KernelBase(arch, d), KernelMax)
    BY <1>1, SegmentInSlot, KernelInSlot, Zenon
  <2>2. QED
    BY <2>1, Sizes, KernelSlotApart, Zenon
<1>2. CASE ~SlotsHold
  <2>1. Arm /\ c = Bsp /\ d = Bsp
    BY <1>2, Zenon DEF AtStake
  <2>2. /\ SlotBase(arch, c) = InitLoadBase[arch] /\ KernelOf(d) = KernelLoadBase[arch]
        /\ InitLoadBase[arch] + ImageSize(input.init) <= KernelLoadBase[arch]
    BY <2>1, InputsAssumption, Zenon DEF SlotBase, KernelOf, Bsp, Arm, arch
  <2>3. a < InitLoadBase[arch] + ImageSize(input.init) /\ a \in Int
    BY <2>2, SegmentInSlot, Zenon
  <2>4. /\ ImageSize(input.init) \in Nat /\ InitLoadBase[arch] \in Nat
        /\ KernelLoadBase[arch] \in Nat /\ input.kernel_len \in Nat
    BY Sizes, InitSize, LayoutFacts, Zenon
  <2>5. PICK k \in 0 .. input.kernel_len - 1 : a = KernelOf(d) + k
    BY Zenon DEF KernelRange, Span
  <2>6. QED
    BY <2>2, <2>3, <2>4, <2>5
<1>3. QED
  BY <1>1, <1>2, Zenon

-----------------------------------------------------------------------------
\* The images stay in place.

\* A write puts there what it says.
LEMMA Stored ==
    ASSUME NEW w, NEW m, NEW a \in DOMAIN w
    PROVE  a \in DOMAIN Store(w, m) /\ Store(w, m)[a] = w[a]
BY Zenon DEF Store

\* A write keeps what it does not touch.
Keeps(before, after, W) ==
    \A a \in DOMAIN before : a \notin W => a \in DOMAIN after /\ after[a] = before[a]

\* A store leaves what it does not write.
LEMMA StoreKeeps ==
    ASSUME NEW w, NEW m
    PROVE  Keeps(m, Store(w, m), DOMAIN w)
BY Zenon DEF Store, Keeps

\* Copying a segment puts it in place.
LEMMA PlaceStored ==
    ASSUME NEW cmd, NEW t \in Int, cmd.vmaddr \in Nat, cmd.vmsize \in Nat, cmd.filesize \in Nat,
           cmd.filesize <= cmd.vmsize, NEW m
    PROVE  /\ DOMAIN Place(cmd, t) = SegmentRange(t, cmd)
           /\ SegmentAt(Store(Place(cmd, t), m), t, cmd)
<1>1. DOMAIN Place(cmd, t) = {t + cmd.vmaddr + b : b \in 0 .. cmd.vmsize - 1}
  BY PlaceWrites, Zenon
<1>2. \A b \in 0 .. cmd.vmsize - 1 :
         Place(cmd, t)[t + cmd.vmaddr + b] =
            IF b < cmd.filesize THEN <<"init", cmd.fileoff + b>> ELSE <<"zero", 0>>
  BY PlaceWrites, Zenon
<1>3. ASSUME NEW b \in 0 .. cmd.vmsize - 1
      PROVE  LET a == t + cmd.vmaddr + b
             IN  /\ a \in DOMAIN Store(Place(cmd, t), m)
                 /\ Store(Place(cmd, t), m)[a] = Place(cmd, t)[a]
  <2>1. t + cmd.vmaddr + b \in DOMAIN Place(cmd, t)
    BY <1>1, Zenon
  <2>2. QED
    BY <2>1, Stored, Zenon
<1>4. QED
  BY <1>1, <1>2, <1>3, Zenon DEF SegmentRange, Span, SegmentAt

\* A step leaves alone the kernel of core d and what d has loaded.
Spares(d, W) ==
    /\ pc'[d] # "off" => pc[d] # "off" /\ \A a \in KernelRange(d) : a \notin W
    /\ pc'[d] \in {"load", "init"} =>
          /\ Loadable(input.init)
          /\ \/ at'[d] = 1
             \/ /\ pc[d] \in {"load", "init"} /\ at'[d] = at[d] /\ slide'[d] = slide[d]
                /\ \A j \in Segments(input.init) : j < at[d] =>
                      \A a \in SegmentRange(slide[d], Commands(input.init)[j]) : a \notin W

\* What was in place for a core stays so when a step of another core spares it.
LEMMA ImagesKept ==
    ASSUME input \in Inputs, input' = input, NEW d \in Cores, ImagesOK(d), NEW W,
           Keeps(mem, mem', W), Spares(d, W)
    PROVE  ImagesOK(d)'
<1> USE DEF Keeps, Spares
<1>1. pc'[d] # "off" => KernelAt(mem', KernelOf(d)', input.kernel_len)
  <2> SUFFICES ASSUME pc'[d] # "off", NEW k \in 0 .. input.kernel_len - 1
               PROVE  /\ KernelOf(d) + k \in DOMAIN mem'
                      /\ mem'[KernelOf(d) + k] = <<"kernel", k>>
    BY SameInput, Zenon DEF KernelAt
  <2>1. KernelOf(d) + k \in DOMAIN mem /\ mem[KernelOf(d) + k] = <<"kernel", k>>
    BY Zenon DEF ImagesOK, KernelAt
  <2>2. KernelOf(d) + k \notin W
    BY Zenon DEF KernelRange, Span
  <2>3. QED
    BY <2>1, <2>2, Zenon
<1>2. ASSUME pc'[d] \in {"load", "init"}, NEW j \in Segments(input.init), j < at'[d]
      PROVE  SegmentAt(mem', slide'[d], Commands(input.init)[j])
  <2> DEFINE cmd == Commands(input.init)[j]
  <2>1. j \in Nat \ {0}
    <3>1. /\ DOMAIN Commands(input.init) = 1 .. Len(Commands(input.init))
          /\ Len(Commands(input.init)) \in Nat
      BY <1>2, Sizes, Zenon DEF LinkedAt
    <3>2. QED
      BY <3>1, Counting, Zenon DEF Segments
  <2>2. /\ pc[d] \in {"load", "init"} /\ at'[d] = at[d] /\ slide'[d] = slide[d]
        /\ \A a \in SegmentRange(slide[d], cmd) : a \notin W
    BY <1>2, <2>1, Counting, Zenon
  <2>3. SegmentAt(mem, slide[d], cmd)
    BY <1>2, <2>2, Zenon DEF ImagesOK
  <2> HIDE DEF cmd
  <2>4. SegmentAt(mem', slide[d], cmd)
    <3> SUFFICES ASSUME NEW b \in 0 .. cmd.vmsize - 1
                 PROVE  LET a == slide[d] + cmd.vmaddr + b
                        IN  a \in DOMAIN mem' /\ mem'[a] = mem[a]
      BY <2>3, Zenon DEF SegmentAt
    <3>1. slide[d] + cmd.vmaddr + b \in DOMAIN mem
      BY <2>3, Zenon DEF SegmentAt
    <3>2. slide[d] + cmd.vmaddr + b \notin W
      BY <2>2, Zenon DEF SegmentRange, Span
    <3>3. QED
      BY <3>1, <3>2, Zenon
  <2>5. QED
    BY <2>2, <2>4, Zenon DEF cmd
<1>3. QED
  BY <1>1, <1>2, Zenon DEF ImagesOK

\* What is at stake in IInv.
Safe == ~Shared /\ (Arm \/ SlotsHold)

\* Under Safe, the images of the cores that have been started are at stake.
LEMMA StartedAtStake ==
    ASSUME Control, Safe, NEW c \in Cores, pc[c] # "off"
    PROVE  AtStake(c)
BY Zenon DEF Control, CoreOK, AtStake, Safe

\* A step of one core's control that writes nothing.
LEMMA QuietStep ==
    ASSUME IInv, Control', input' = input, mem' = mem, at' = at, slide' = slide,
           written' = written,
           \A d \in Cores : pc'[d] # pc[d] =>
              pc[d] # "off" /\ (pc'[d] \in {"load", "init"} => pc[d] \in {"load", "init"} \/ Shared)
    PROVE  IInv'
<1>1. Safe' <=> Safe
  BY SameInput, Zenon DEF Safe
<1>2. ASSUME Safe, NEW d \in Cores PROVE ImagesOK(d)'
  <2>1. input \in Inputs /\ ImagesOK(d)
    BY <1>2, Zenon DEF IInv, Control, Safe
  <2>2. pc'[d] \in {"load", "init"} => Loadable(input.init)
    <3>1. CoreOK(d)' /\ ~Shared'
      BY <1>2, <1>1, Zenon DEF Control, Safe
    <3>2. QED
      BY <3>1, ZenonT(40) DEF CoreOK
  <2>3. /\ pc'[d] # "off" => pc[d] # "off"
        /\ pc'[d] \in {"load", "init"} => pc[d] \in {"load", "init"}
    BY <1>2, Zenon DEF Safe
  <2>4. Keeps(mem, mem', {}) /\ Spares(d, {})
    BY <2>2, <2>3, Zenon DEF Keeps, Spares
  <2>5. QED
    BY <2>1, <2>4, ImagesKept, Zenon
<1>3. ArmApStaysInSlot'
  BY SameInput, Zenon DEF IInv, ArmApStaysInSlot, Cores
<1>4. QED
  BY <1>1, <1>2, <1>3, Zenon DEF IInv, Safe

\* What a load command of core c writes.
LoadWrite(c) ==
    LET cmd == Commands(input.init)[at[c]]
    IN  IF Copied(cmd) THEN Place(cmd, slide[c]) ELSE Nothing

\* It is a segment, where that segment belongs, or nothing.
LEMMA LoadWrites ==
    ASSUME Control, NEW c \in Cores, LoadCommand(c)
    PROVE  LET n == at[c]
               cmd == Commands(input.init)[n]
           IN  /\ mem' = Store(LoadWrite(c), mem)
               /\ n \in Segments(input.init) =>
                     /\ DOMAIN LoadWrite(c) = SegmentRange(Displacement(c), cmd)
                     /\ SegmentAt(mem', slide[c], cmd)
               /\ n \notin Segments(input.init) => DOMAIN LoadWrite(c) = {}
<1> DEFINE cmds == Commands(input.init)
           n == at[c]
           w == LoadWrite(c)
<1>1. pc[c] = "load" /\ n <= Len(cmds) /\ mem' = Store(w, mem)
  BY Zenon DEF LoadCommand, LoadWrite
<1>2. /\ input \in Inputs /\ ~Shared /\ Loadable(input.init) /\ slide[c] = Displacement(c)
      /\ LinkedAt(input.init, InitLoadBase[arch]) /\ n \in Nat \ {0}
  BY <1>1, Sizes, Zenon DEF Control, CoreOK
<1>3. n \in DOMAIN cmds
  BY <1>1, <1>2, Counting, Zenon DEF LinkedAt
<1>5. Copied(cmds[n]) <=> n \in Segments(input.init)
  <2>1. Copied(cmds[n]) => n \in Segments(input.init)
    BY <1>3, Zenon DEF Copied, Segments
  <2>2. n \in Segments(input.init) => Copied(cmds[n])
    BY <1>2, Sizes, SegmentInside, Zenon
  <2>3. QED
    BY <2>1, <2>2, Zenon
<1>6. n \in Segments(input.init) =>
         /\ DOMAIN w = SegmentRange(Displacement(c), cmds[n])
         /\ SegmentAt(mem', slide[c], cmds[n])
  <2> SUFFICES ASSUME n \in Segments(input.init)
               PROVE  /\ DOMAIN w = SegmentRange(Displacement(c), cmds[n])
                      /\ SegmentAt(mem', slide[c], cmds[n])
    BY Zenon
  <2>1. /\ cmds[n].vmaddr \in Nat /\ cmds[n].vmsize \in Nat /\ cmds[n].filesize \in Nat
        /\ slide[c] \in Int
    BY <1>2, <1>3, Fields, DisplacementType, ZenonT(40)
  <2>2. cmds[n].filesize <= cmds[n].vmsize
    BY <1>2, Zenon DEF LinkedAt
  <2>3. w = Place(cmds[n], slide[c])
    BY <1>5, Zenon DEF LoadWrite
  <2> HIDE DEF w, n, cmds
  <2>4. /\ DOMAIN w = SegmentRange(slide[c], cmds[n])
        /\ SegmentAt(mem', slide[c], cmds[n])
    BY <1>1, <2>1, <2>2, <2>3, PlaceStored, ZenonT(40)
  <2>5. QED
    BY <1>2, <2>4, Zenon
<1>7. n \notin Segments(input.init) => DOMAIN w = {}
  BY <1>5, Zenon DEF Nothing, LoadWrite
<1>8. QED
  BY <1>1, <1>6, <1>7, Zenon

\* A load command of core c.
LEMMA LoadStep ==
    ASSUME IInv, Control', NEW c \in Cores, LoadCommand(c)
    PROVE  IInv'
<1> DEFINE cmds == Commands(input.init)
           n == at[c]
           w == LoadWrite(c)
<1>1. /\ pc[c] = "load" /\ mem' = Store(w, mem)
      /\ written' = [written EXCEPT ![c] = @ \cup DOMAIN w]
      /\ at' = [at EXCEPT ![c] = @ + 1]
      /\ input' = input /\ pc' = pc /\ slide' = slide
  BY Zenon DEF LoadCommand, LoadWrite
<1>2. /\ input \in Inputs /\ ~Shared /\ Loadable(input.init) /\ slide[c] = Displacement(c)
      /\ LinkedAt(input.init, InitLoadBase[arch]) /\ n \in Nat \ {0}
  BY <1>1, Sizes, ZenonT(40) DEF IInv, Control, CoreOK
<1>3. /\ at'[c] = n + 1 /\ \A d \in Cores : d # c => at'[d] = at[d]
      /\ written'[c] = written[c] \cup DOMAIN w
      /\ \A d \in Cores : d # c => written'[d] = written[d]
  BY <1>1, Zenon DEF IInv, Control
<1>4. n \in Segments(input.init) =>
         /\ DOMAIN w = SegmentRange(Displacement(c), cmds[n])
         /\ SegmentAt(mem', slide[c], cmds[n])
  BY LoadWrites, Zenon DEF IInv
<1>5. n \notin Segments(input.init) => DOMAIN w = {}
  BY LoadWrites, Zenon DEF IInv
<1> HIDE DEF w
<1>6. Keeps(mem, mem', DOMAIN w)
  BY <1>1, StoreKeeps, Zenon
<1>7. ASSUME Safe, NEW d \in Cores PROVE ImagesOK(d)'
  <2>0. AtStake(c) /\ ImagesOK(d) /\ Control
    BY <1>1, <1>7, StartedAtStake, Zenon DEF IInv, Safe
  <2>1. pc'[d] # "off" => pc[d] # "off" /\ \A a \in KernelRange(d) : a \notin DOMAIN w
    <3> SUFFICES ASSUME pc[d] # "off", NEW a \in DOMAIN w, a \in KernelRange(d) PROVE FALSE
      BY <1>1, Zenon
    <3>1. n \in Segments(input.init) /\ a \in SegmentRange(Displacement(c), cmds[n])
      BY <1>4, <1>5, Zenon
    <3>2. AtStake(d)
      BY <1>7, <2>0, StartedAtStake, Zenon
    <3>3. QED
      BY <1>2, <2>0, <3>1, <3>2, SegmentKernelApart, Zenon
  <2>2. pc[d] \in {"load", "init"} => Loadable(input.init) /\ slide[d] = Displacement(d)
    BY <1>2, <2>0, Zenon DEF Control, CoreOK
  <2>3. ASSUME pc[d] \in {"load", "init"}, NEW j \in Segments(input.init), d # c \/ j # n,
               NEW a \in SegmentRange(slide[d], cmds[j])
        PROVE  a \notin DOMAIN w
    <3> SUFFICES ASSUME a \in DOMAIN w PROVE FALSE
      BY Zenon
    <3>1. n \in Segments(input.init) /\ a \in SegmentRange(Displacement(c), cmds[n])
      BY <1>4, <1>5, Zenon
    <3>2. AtStake(d) /\ a \in SegmentRange(Displacement(d), cmds[j])
      BY <1>7, <2>0, <2>2, <2>3, StartedAtStake, Zenon
    <3>3. QED
      BY <1>2, <2>0, <2>3, <3>1, <3>2, SegmentsApart, Zenon
  <2>4. CASE d # c
    <3>1. Spares(d, DOMAIN w)
      BY <1>1, <1>3, <2>1, <2>2, <2>3, <2>4, Zenon DEF Spares
    <3>2. QED
      BY <1>1, <1>2, <1>6, <2>0, <3>1, ImagesKept, Zenon
  <2>5. CASE d = c
    <3>1. KernelAt(mem', KernelOf(c), input.kernel_len)
      <4> SUFFICES ASSUME NEW k \in 0 .. input.kernel_len - 1
                   PROVE  /\ KernelOf(c) + k \in DOMAIN mem'
                          /\ mem'[KernelOf(c) + k] = <<"kernel", k>>
        BY Zenon DEF KernelAt
      <4>1. KernelOf(c) + k \in DOMAIN mem /\ mem[KernelOf(c) + k] = <<"kernel", k>>
        BY <1>1, <2>0, <2>5, Zenon DEF ImagesOK, KernelAt
      <4>2. KernelOf(c) + k \notin DOMAIN w
        BY <1>1, <2>1, <2>5, Zenon DEF KernelRange, Span
      <4>3. QED
        BY <1>6, <4>1, <4>2, Zenon DEF Keeps
    <3>2. ASSUME NEW j \in Segments(input.init), j < n + 1
          PROVE  SegmentAt(mem', slide[c], cmds[j])
      <4>1. CASE j = n
        BY <1>4, <4>1, Zenon
      <4>2. CASE j # n
        <5>1. j \in Nat
          <6>1. DOMAIN cmds = 1 .. Len(cmds) /\ Len(cmds) \in Nat
            BY <1>2, Zenon DEF LinkedAt
          <6>2. j \in DOMAIN cmds
            BY Zenon DEF Segments
          <6>3. QED
            BY <6>1, <6>2, Counting, Zenon
        <5>2. SegmentAt(mem, slide[c], cmds[j])
          <6>1. \A k, m \in Nat : (k < m + 1 /\ k # m) => k < m
            BY SMT
          <6>2. j < at[c]
            BY <1>2, <3>2, <4>2, <5>1, <6>1, Zenon
          <6>3. QED
            BY <1>1, <2>0, <2>5, <6>2, Zenon DEF ImagesOK
        <5>3. \A a \in SegmentRange(slide[c], cmds[j]) : a \notin DOMAIN w
          BY <1>1, <2>3, <2>5, <4>2, Zenon
        <5>4. QED
          BY <1>6, <5>2, <5>3, Zenon DEF Keeps, SegmentAt, SegmentRange, Span
      <4>3. QED
        BY <4>1, <4>2, Zenon
    <3>3. QED
      BY <1>1, <1>3, <2>5, <3>1, <3>2, SameInput, ZenonT(40) DEF ImagesOK
  <2>6. QED
    BY <2>4, <2>5, Zenon
<1>8. ArmApStaysInSlot'
  <2> SUFFICES ASSUME Arm, NEW d \in Aps
               PROVE  written'[d] \subseteq Span(RegionOf(d) + InitOffset, InitMax)
    BY <1>1, SameInput, Sizes, Zenon DEF ArmApStaysInSlot, IInv, Control
  <2>1. d \in Cores /\ d # Bsp
    BY <1>2, Sizes, Zenon DEF Bsp
  <2>2. written[d] \subseteq Span(RegionOf(d) + InitOffset, InitMax)
    BY Zenon DEF IInv, ArmApStaysInSlot
  <2>3. CASE d = c
    <3>1. SlotsHold
      BY <1>1, <1>2, <2>1, <2>3, Zenon DEF IInv, Control, CoreOK
    <3>2. SlotBase(arch, c) = RegionOf(c) + InitOffset
      BY <1>2, <2>1, <2>3, Zenon DEF SlotBase, RegionOf, Bsp, Arm
    <3>3. \A a \in DOMAIN w : a \in Span(RegionOf(c) + InitOffset, InitMax)
      BY <1>2, <1>4, <1>5, <3>1, <3>2, SegmentInSlot, Zenon
    <3>4. QED
      BY <1>3, <2>2, <2>3, <3>3, Zenon
  <2>4. QED
    BY <1>3, <2>1, <2>2, <2>3, Zenon
<1>9. QED
  BY <1>1, <1>7, <1>8, SameInput, Zenon DEF IInv, Safe

\* The page tables of a core lie in its region, above its discovery record.
LEMMA TablesInWindow ==
    ASSUME input \in Inputs, ~Arm, NEW c \in Aps, NEW a \in DOMAIN PageTables(c)
    PROVE  a \in Span(Region(arch, c) + PgtableOffset, 4 * TableSize)
<1> DEFINE t == Region(arch, c) + PgtableOffset
<1>1. /\ TableSize \in Nat \ {0} /\ PgtableOffset \in Nat /\ RegionSize \in Nat \ {0}
      /\ c \in Nat /\ RegionBase[arch] \in Nat
  BY Sizes, LayoutFacts, Zenon
<1>2. (c - 1) * RegionSize \in Int
  BY <1>1, Multiples
<1>3. t \in Int
  BY <1>1, <1>2 DEF Region
<1>4. DOMAIN PageTables(c) = DOMAIN BuildApPageTables(t, TableSize)
  BY Zenon DEF PageTables, RegionOf
<1> HIDE DEF t
<1>5. DOMAIN PageTables(c) = {t, t + TableSize, t + 2 * TableSize, t + 3 * TableSize}
  BY <1>4, Zenon DEF BuildApPageTables
<1>6. \E k \in 0 .. 4 * TableSize - 1 : a = t + k
  <2>1. CASE a = t
    BY <1>1, <1>3, <2>1
  <2>2. CASE a = t + TableSize
    BY <1>1, <1>3, <2>2
  <2>3. CASE a = t + 2 * TableSize
    <3>1. 2 * TableSize \in 0 .. 4 * TableSize - 1
      BY <1>1
    <3>2. QED
      BY <2>3, <3>1, Zenon
  <2>4. CASE a = t + 3 * TableSize
    <3>1. 3 * TableSize \in 0 .. 4 * TableSize - 1
      BY <1>1
    <3>2. QED
      BY <2>4, <3>1, Zenon
  <2>5. QED
    BY <1>5, <2>1, <2>2, <2>3, <2>4, Zenon
<1>7. QED
  BY <1>6, Zenon DEF t, Span

\* What init and a starting core put above the discovery record's offset is
\* no image of any core.
LEMMA WindowSpared ==
    ASSUME input \in Inputs, SlotsHold, NEW c \in Aps, NEW off \in Nat, NEW len \in Nat,
           DiscoveryOffset <= off, off + len <= RegionSize,
           NEW a \in Span(Region(arch, c) + off, len), NEW d \in Cores
    PROVE  /\ a \notin KernelRange(d)
           /\ Loadable(input.init) =>
                 \A j \in Segments(input.init) :
                     a \notin SegmentRange(Displacement(d), Commands(input.init)[j])
<1>1. arch \in Arches /\ c \in Nat \ {0} /\ d \in Nat
  BY Sizes, Zenon
<1>2. a \notin Span(KernelBase(arch, d), KernelMax) /\ a \notin Span(SlotBase(arch, d), InitMax)
  BY <1>1, WindowApart, Zenon
<1>3. a \notin KernelRange(d)
  BY <1>2, KernelInSlot, Zenon
<1>4. Loadable(input.init) =>
        \A j \in Segments(input.init) :
            a \notin SegmentRange(Displacement(d), Commands(input.init)[j])
  BY <1>2, SegmentInSlot, Zenon
<1>5. QED
  BY <1>3, <1>4, Zenon

\* macho_load is called, by the BSP or by a core that has built its tables.
LEMMA StartStep ==
    ASSUME IInv, Control', input' = input, NEW c \in Cores, pc[c] = "start", ~Shared,
           NEW w, CallMachoLoad(c, Displacement(c), w),
           Arm \/ c = Bsp => DOMAIN w = {},
           ~Arm /\ c # Bsp => w = PageTables(c)
    PROVE  IInv'
<1>1. /\ mem' = Store(w, mem) /\ at' = at
      /\ pc' = [pc EXCEPT ![c] = IF Loadable(input.init) THEN "load" ELSE "halt"]
      /\ slide' = [slide EXCEPT ![c] = Displacement(c)]
      /\ written' = [written EXCEPT ![c] = @ \cup DOMAIN w]
  BY Zenon DEF CallMachoLoad
<1>2. /\ pc'[c] = IF Loadable(input.init) THEN "load" ELSE "halt"
      /\ written'[c] = written[c] \cup DOMAIN w
      /\ at'[c] = 1 /\ input \in Inputs
      /\ \A d \in Cores : d # c => /\ pc'[d] = pc[d] /\ slide'[d] = slide[d]
                                   /\ written'[d] = written[d]
  BY <1>1, Zenon DEF IInv, Control, CoreOK
<1>3. Keeps(mem, mem', DOMAIN w)
  BY <1>1, StoreKeeps, Zenon
<1>4. ASSUME Safe, NEW d \in Cores PROVE ImagesOK(d)'
  <2>1. ImagesOK(d)
    BY <1>4, Zenon DEF IInv, Safe
  <2>2. ASSUME NEW a \in DOMAIN w
        PROVE  /\ a \notin KernelRange(d)
               /\ Loadable(input.init) =>
                     \A j \in Segments(input.init) :
                         a \notin SegmentRange(Displacement(d), Commands(input.init)[j])
    <3>1. ~Arm /\ c # Bsp /\ c \in Aps /\ SlotsHold /\ a \in DOMAIN PageTables(c)
      BY <1>4, <2>2, Zenon DEF Safe, Cores
    <3>2. a \in Span(Region(arch, c) + PgtableOffset, 4 * TableSize)
      BY <1>2, <3>1, TablesInWindow, Zenon
    <3>3. /\ PgtableOffset \in Nat /\ 4 * TableSize \in Nat
          /\ DiscoveryOffset <= PgtableOffset /\ PgtableOffset + 4 * TableSize <= RegionSize
      BY Windows, Zenon
    <3>4. QED
      BY <1>2, <3>1, <3>2, <3>3, WindowSpared, Zenon
  <2>3. pc[d] \in {"load", "init"} => Loadable(input.init) /\ slide[d] = Displacement(d)
    BY Zenon DEF IInv, Control, CoreOK
  <2>4. Spares(d, DOMAIN w)
    <3>1. CASE d = c
      BY <1>2, <2>2, <3>1, Zenon DEF Spares
    <3>2. CASE d # c
      <4>1. pc'[d] = pc[d] /\ at'[d] = at[d] /\ slide'[d] = slide[d]
        BY <1>1, <1>2, <3>2, Zenon
      <4>2. QED
        BY <2>2, <2>3, <4>1, Zenon DEF Spares
    <3>3. QED
      BY <3>1, <3>2, Zenon
  <2>5. QED
    BY <1>2, <1>3, <2>1, <2>4, ImagesKept, Zenon
<1>5. ArmApStaysInSlot'
  <2> SUFFICES ASSUME Arm, NEW d \in Aps
               PROVE  written'[d] \subseteq Span(RegionOf(d) + InitOffset, InitMax)
    BY SameInput, Sizes, Zenon DEF ArmApStaysInSlot, IInv, Control
  <2>1. written[d] \subseteq Span(RegionOf(d) + InitOffset, InitMax) /\ d \in Cores
    BY Zenon DEF IInv, ArmApStaysInSlot, Cores
  <2>2. written'[d] = written[d]
    BY <1>2, <2>1, Zenon
  <2>3. QED
    BY <2>1, <2>2, Zenon
<1>6. QED
  BY <1>4, <1>5, SameInput, Zenon DEF IInv, Safe

\* init copies the kernel into a region and starts its core.
LEMMA BringUpStep ==
    ASSUME IInv, Control', NEW c \in Aps, BringUp(c), ~Shared
    PROVE  IInv'
<1> DEFINE image == Write("kernel", RegionOf(c), input.kernel_len)
           record == [a \in {RegionOf(c) + DiscoveryOffset} |-> <<"discovery", c>>]
           W == DOMAIN image \cup DOMAIN record
<1>1. /\ pc[Bsp] = "init" /\ pc[c] = "off" /\ pc' = [pc EXCEPT ![c] = "start"]
      /\ info[Bsp].kernel_boot_ap_addr # 0 /\ info[Bsp].kernel_image_len # 0
      /\ mem' = Store(Write("kernel", RegionOf(c), info[Bsp].kernel_image_len), Store(record, mem))
      /\ input' = input /\ at' = at /\ slide' = slide /\ written' = written
  BY Zenon DEF BringUp
<1>2. /\ input \in Inputs /\ c \in Cores /\ c # Bsp /\ input.kernel_len \in Nat
      /\ info[Bsp].kernel_image_len = input.kernel_len /\ (Arm => SlotsHold)
  BY <1>1, Sizes, Zenon DEF IInv, Control, BspSays, Bsp
<1>3. mem' = Store(image, Store(record, mem))
  BY <1>1, <1>2, Zenon
<1>4. /\ pc'[c] = "start" /\ \A d \in Cores : d # c => pc'[d] = pc[d]
  BY <1>1, <1>2, Zenon DEF IInv, Control
<1>5. DOMAIN image = KernelRange(c) /\ KernelOf(c) = RegionOf(c)
  BY <1>2, Zenon DEF KernelRange, KernelOf, Write
<1>6. Keeps(mem, mem', W)
  <2> HIDE DEF image, record
  <2>1. Keeps(mem, Store(record, mem), DOMAIN record)
    BY StoreKeeps, Zenon
  <2>2. Keeps(Store(record, mem), mem', DOMAIN image)
    BY <1>3, StoreKeeps, Zenon
  <2>3. QED
    BY <2>1, <2>2, Zenon DEF Keeps
<1>7. KernelAt(mem', KernelOf(c), input.kernel_len)
  <2> SUFFICES ASSUME NEW k \in 0 .. input.kernel_len - 1
               PROVE  /\ RegionOf(c) + k \in DOMAIN mem'
                      /\ mem'[RegionOf(c) + k] = <<"kernel", k>>
    BY <1>5, Zenon DEF KernelAt
  <2>1. RegionOf(c) \in Int
    BY <1>2, <1>5, Bases, Zenon
  <2>2. /\ RegionOf(c) + k \in DOMAIN image
        /\ image[RegionOf(c) + k] = <<"kernel", (RegionOf(c) + k) - RegionOf(c)>>
    BY Zenon DEF Write, Span
  <2>3. (RegionOf(c) + k) - RegionOf(c) = k
    BY <2>1
  <2> HIDE DEF image, record
  <2>4. QED
    BY <1>3, <2>2, <2>3, Stored, Zenon
<1>8. ASSUME Safe, NEW d \in Cores PROVE ImagesOK(d)'
  <2>1. ImagesOK(d) /\ SlotsHold
    BY <1>2, <1>8, Zenon DEF IInv, Safe
  <2>2. CASE d = c
    BY <1>1, <1>4, <1>7, <2>2, SameInput, Zenon DEF ImagesOK
  <2>3. CASE d # c
    <3>1. ASSUME NEW a \in DOMAIN record
          PROVE  /\ a \notin KernelRange(d)
                 /\ Loadable(input.init) =>
                       \A j \in Segments(input.init) :
                           a \notin SegmentRange(Displacement(d), Commands(input.init)[j])
      <4>1. /\ DiscoveryOffset \in Nat /\ DiscoveryOffset + 1 <= RegionSize
            /\ 1 \in Nat /\ DiscoveryOffset <= DiscoveryOffset
        BY Windows, Zenon
      <4>2. a = Region(arch, c) + DiscoveryOffset + 0
        <5>1. Region(arch, c) \in Int
          BY <1>2, <1>5, Bases, Zenon
        <5>2. QED
          BY <3>1, <4>1, <5>1 DEF RegionOf
      <4>3. a \in Span(Region(arch, c) + DiscoveryOffset, 1)
        BY <4>2 DEF Span
      <4>4. QED
        BY <1>2, <2>1, <4>1, <4>3, WindowSpared, ZenonT(40)
    <3>2. ASSUME NEW a \in DOMAIN image
          PROVE  /\ a \notin KernelRange(d)
                 /\ Loadable(input.init) =>
                       \A j \in Segments(input.init) :
                           a \notin SegmentRange(Displacement(d), Commands(input.init)[j])
      <4> HIDE DEF image
      <4>1. a \in KernelRange(c) /\ AtStake(c) /\ AtStake(d)
        BY <1>5, <2>1, <3>2, Zenon DEF AtStake
      <4>2. a \in Span(KernelBase(arch, c), KernelMax)
        BY <1>2, <2>1, <4>1, KernelInSlot, Zenon
      <4>3. a \notin KernelRange(d)
        BY <1>2, <2>1, <2>3, <4>2, KernelInSlot, KernelsApart, Sizes, ZenonT(40)
      <4>4. QED
        BY <1>2, <4>1, <4>3, SegmentKernelApart, Zenon
    <3> HIDE DEF image, record
    <3>3. pc[d] \in {"load", "init"} => Loadable(input.init) /\ slide[d] = Displacement(d)
      BY Zenon DEF IInv, Control, CoreOK
    <3>4. Spares(d, W)
      BY <1>1, <1>4, <2>3, <3>1, <3>2, <3>3, ZenonT(40) DEF Spares
    <3>5. QED
      BY <1>1, <1>2, <1>6, <2>1, <3>4, ImagesKept, Zenon
  <2>4. QED
    BY <2>2, <2>3, Zenon
<1>9. ArmApStaysInSlot'
  BY <1>1, SameInput, Zenon DEF IInv, ArmApStaysInSlot, Cores
<1>10. QED
  BY <1>1, <1>8, <1>9, SameInput, Zenon DEF IInv, Safe

-----------------------------------------------------------------------------
\* The theorems.

\* The invariant holds at kernel entry, with the BSP's kernel in memory.
LEMMA IInvInit == Init => IInv
<1> SUFFICES ASSUME Init PROVE IInv
  BY Zenon
<1>1. Control
  BY ControlInit, Zenon
<1>2. \A c \in Cores : pc[c] = IF c = Bsp THEN "start" ELSE "off"
  BY Zenon DEF Init
<1>3. input \in Inputs /\ KernelOf(Bsp) = KernelLoadBase[arch]
  BY <1>1, Zenon DEF Control, KernelOf
<1>4. KernelAt(mem, KernelLoadBase[arch], input.kernel_len)
  <2> SUFFICES ASSUME NEW k \in 0 .. input.kernel_len - 1
               PROVE  /\ KernelLoadBase[arch] + k \in DOMAIN mem
                      /\ mem[KernelLoadBase[arch] + k] = <<"kernel", k>>
    BY Zenon DEF KernelAt
  <2>1. mem = Write("kernel", KernelLoadBase[arch], input.kernel_len)
    BY Zenon DEF Init
  <2>2. KernelLoadBase[arch] \in Nat
    BY <1>3, Sizes, LayoutFacts, Zenon
  <2>3. (KernelLoadBase[arch] + k) - KernelLoadBase[arch] = k
    BY <2>2
  <2>4. QED
    BY <2>1, <2>3, Zenon DEF Write, Span
<1>5. \A c \in Cores : ImagesOK(c)
  BY <1>2, <1>3, <1>4, Zenon DEF ImagesOK
<1>6. ArmApStaysInSlot
  BY Zenon DEF Init, ArmApStaysInSlot, Cores
<1>7. QED
  BY <1>1, <1>5, <1>6, Zenon DEF IInv

\* Every step keeps the invariant: it adds to one core's image and spares the others'.
LEMMA IInvStep == IInv /\ [Next]_vars => IInv'
<1> SUFFICES ASSUME IInv, [Next]_vars PROVE IInv'
  BY Zenon
<1>0. /\ Control /\ Control' /\ Bsp \in Cores /\ \A c \in Aps : c \in Cores /\ c # Bsp
  BY ControlStep, Sizes, Zenon DEF IInv, Control, Bsp
<1>1. CASE StartBsp
  <2>1. /\ pc[Bsp] = "start" /\ ~Shared /\ input' = input
        /\ CallMachoLoad(Bsp, Displacement(Bsp), Nothing)
    BY <1>1, Zenon DEF StartBsp, Displacement
  <2>2. DOMAIN Nothing = {}
    BY Zenon DEF Nothing
  <2>3. QED
    BY <1>0, <2>1, <2>2, StartStep, Zenon
<1>2. ASSUME NEW c \in Cores, pc[c] = "load" \/ (pc[c] = "start" /\ Shared), input' = input,
             Halt(c) \/ \E i, e : EnterInit(c, i, e)
      PROVE  IInv'
  <2>1. mem' = mem /\ at' = at /\ slide' = slide /\ written' = written
    BY <1>2, Zenon DEF Halt, EnterInit
  <2>2. pc' = [pc EXCEPT ![c] = "halt"] \/ pc' = [pc EXCEPT ![c] = "init"]
    BY <1>2, Zenon DEF Halt, EnterInit
  <2>3. \A d \in Cores : pc'[d] # pc[d] =>
           pc[d] # "off" /\ (pc'[d] \in {"load", "init"} => pc[d] \in {"load", "init"} \/ Shared)
    BY <1>0, <1>2, <2>2, Zenon DEF Control
  <2>4. QED
    BY <1>0, <1>2, <2>1, <2>3, QuietStep, Zenon
<1>3. CASE FinishBsp
  <2>1. /\ pc[Bsp] = "load" /\ input' = input
        /\ Halt(Bsp) \/ \E i, e : EnterInit(Bsp, i, e)
    BY <1>3, Zenon DEF FinishBsp, Loaded
  <2>2. QED
    BY <1>0, <1>2, <2>1, Zenon
<1>4. CASE BootProtocol
  <2>1. /\ pc[Bsp] = "start" /\ Shared /\ input' = input
        /\ Halt(Bsp) \/ \E i, e : EnterInit(Bsp, i, e)
    BY <1>4, Zenon DEF BootProtocol
  <2>2. QED
    BY <1>0, <1>2, <2>1, Zenon
<1>5. CASE \E c \in Cores : LoadCommand(c)
  BY <1>0, <1>5, LoadStep, Zenon
<1>6. CASE \E c \in Aps : BringUp(c)
  <2> SUFFICES ASSUME NEW c \in Aps, BringUp(c) PROVE IInv'
    BY <1>6, Zenon
  <2>1. CASE ~Shared
    BY <1>0, <2>1, BringUpStep, Zenon
  <2>2. CASE Shared
    <3>1. written' = written /\ input' = input
      BY Zenon DEF BringUp
    <3>2. ArmApStaysInSlot'
      BY <3>1, <1>0, SameInput, Zenon DEF IInv, ArmApStaysInSlot
    <3>3. QED
      BY <1>0, <2>2, <3>1, <3>2, SameInput, Zenon DEF IInv
  <2>3. QED
    BY <2>1, <2>2, Zenon
<1>7. CASE \E c \in Aps : StartAp(c)
  <2> SUFFICES ASSUME NEW c \in Aps, StartAp(c) PROVE IInv'
    BY <1>7, Zenon
  <2>1. /\ pc[c] = "start" /\ ~Shared /\ input' = input
        /\ CallMachoLoad(c, Displacement(c), PageTables(c))
    BY Zenon DEF StartAp, Displacement
  <2>2. Arm => DOMAIN PageTables(c) = {}
    BY Zenon DEF PageTables, Nothing
  <2>3. QED
    BY <1>0, <2>1, <2>2, StartStep, Zenon
<1>8. CASE \E c \in Aps : FinishAp(c)
  <2> SUFFICES ASSUME NEW c \in Aps, FinishAp(c) PROVE IInv'
    BY <1>8, Zenon
  <2>1. pc[c] = "load" /\ input' = input /\ (Halt(c) \/ \E i, e : EnterInit(c, i, e))
    BY Zenon DEF FinishAp, Loaded
  <2>2. QED
    BY <1>0, <1>2, <2>1, Zenon
<1>9. CASE \E c \in Aps : StartSharedAp(c)
  <2> SUFFICES ASSUME NEW c \in Aps, StartSharedAp(c) PROVE IInv'
    BY <1>9, Zenon
  <2>1. /\ pc[c] = "start" /\ Shared /\ input' = input
        /\ Halt(c) \/ \E i, e : EnterInit(c, i, e)
    BY Zenon DEF StartSharedAp
  <2>2. QED
    BY <1>0, <1>2, <2>1, Zenon
<1>10. CASE UNCHANGED vars
  <2>1. /\ mem' = mem /\ at' = at /\ slide' = slide /\ written' = written /\ pc' = pc
        /\ input' = input
    BY <1>10, Zenon DEF vars
  <2>2. QED
    BY <1>0, <2>1, QuietStep, Zenon
<1>11. QED
  BY <1>1, <1>3, <1>4, <1>5, <1>6, <1>7, <1>8, <1>9, <1>10, ZenonT(40) DEF Next, Settled

\* What the invariant says of a core that has entered init.
LEMMA IInvIntact == IInv => HandedOffIntact
<1> SUFFICES ASSUME IInv, NEW c \in Cores, pc[c] = "init", ~Shared, Arm \/ SlotsHold
             PROVE  /\ \A k \in 0 .. input.kernel_len - 1 : mem[KernelOf(c) + k] = <<"kernel", k>>
                    /\ \A cmd \in Range(Commands(input.init)) : Copied(cmd) =>
                          \A b \in 0 .. cmd.vmsize - 1 :
                             mem[slide[c] + cmd.vmaddr + b] =
                                IF b < cmd.filesize THEN <<"init", cmd.fileoff + b>>
                                ELSE <<"zero", 0>>
                    /\ mem[entry[c]] = <<"init", EntryOff(input.init)>>
  BY Zenon DEF HandedOffIntact
<1> DEFINE cmds == Commands(input.init)
<1>1. /\ input \in Inputs /\ Loadable(input.init) /\ slide[c] \in Int /\ at[c] > Len(cmds)
      /\ entry[c] = Entry(input.init, slide[c]) /\ entry[c] # 0 /\ ImagesOK(c) /\ at[c] \in Nat
  BY Zenon DEF IInv, Control, CoreOK
<1>2. LinkedAt(input.init, InitLoadBase[arch]) /\ InitLoadBase[arch] \in Nat
  BY <1>1, Sizes, Zenon
<1>3. Len(cmds) \in Nat /\ DOMAIN cmds = 1 .. Len(cmds)
  BY <1>2, Zenon DEF LinkedAt
<1>4. \A j \in Segments(input.init) : SegmentAt(mem, slide[c], cmds[j])
  <2>1. \A j \in Segments(input.init) : j < at[c]
    BY <1>1, <1>3 DEF Segments
  <2>2. QED
    BY <1>1, <2>1, Zenon DEF ImagesOK
<1>5. \A k \in 0 .. input.kernel_len - 1 : mem[KernelOf(c) + k] = <<"kernel", k>>
  BY <1>1, Zenon DEF ImagesOK, KernelAt
<1>6. ASSUME NEW cmd \in Range(cmds), Copied(cmd), NEW b \in 0 .. cmd.vmsize - 1
      PROVE  mem[slide[c] + cmd.vmaddr + b] =
                IF b < cmd.filesize THEN <<"init", cmd.fileoff + b>> ELSE <<"zero", 0>>
  <2>1. PICK j \in DOMAIN cmds : cmd = cmds[j]
    BY Zenon DEF Range
  <2>2. j \in Segments(input.init)
    BY <1>6, <2>1, Zenon DEF Copied, Segments
  <2>3. SegmentAt(mem, slide[c], cmd)
    BY <1>4, <2>1, <2>2, Zenon
  <2>4. QED
    BY <1>6, <2>3, Zenon DEF SegmentAt
<1>7. mem[entry[c]] = <<"init", EntryOff(input.init)>>
  <2>1. PICK j \in Segments(input.init), b \in Nat :
           /\ b < cmds[j].filesize
           /\ entry[c] = slide[c] + cmds[j].vmaddr + b
           /\ cmds[j].fileoff + b = EntryOff(input.init)
    <3>1. Entry(input.init, slide[c]) # 0
      BY <1>1, Zenon
    <3>2. \E j \in Segments(input.init), b \in Nat :
             /\ b < Commands(input.init)[j].filesize
             /\ Entry(input.init, slide[c]) = slide[c] + Commands(input.init)[j].vmaddr + b
             /\ Commands(input.init)[j].fileoff + b = EntryOff(input.init)
      BY <1>1, <1>2, <3>1, EntryInSegment, ZenonT(40)
    <3>3. QED
      BY <1>1, <3>2, Zenon
  <2>2. /\ cmds[j].filesize \in Nat /\ cmds[j].vmsize \in Nat
        /\ cmds[j].filesize <= cmds[j].vmsize
    BY <1>1, <1>2, SegmentInside, Fields, Zenon DEF Segments
  <2>3. b \in 0 .. cmds[j].vmsize - 1
    BY <2>1, <2>2
  <2>4. SegmentAt(mem, slide[c], cmds[j])
    BY <1>4, Zenon
  <2>5. mem[slide[c] + cmds[j].vmaddr + b] = <<"init", cmds[j].fileoff + b>>
    BY <2>1, <2>3, <2>4, Zenon DEF SegmentAt
  <2>6. QED
    BY <2>1, <2>5, Zenon
<1>8. QED
  BY <1>5, <1>6, <1>7, Zenon

\* The inductive invariant holds in every reachable state.
THEOREM Invariant == Spec => []IInv
BY IInvInit, IInvStep, PTL DEF Spec

\* For any number of cores and any images kernel_boot_aarch64 admits (on
\* x86_64: that fit their slots), the kernel and the init of every core that
\* has entered init are byte for byte what was loaded, and stay so while the
\* other cores are started and load theirs.
THEOREM HandedOffStaysIntact == Spec => []HandedOffIntact
BY Invariant, IInvIntact, PTL

\* On ARM no core that is started writes outside the init slot of its region.
THEOREM ArmCoresStayInSlots == Spec => []ArmApStaysInSlot
<1>1. IInv => ArmApStaysInSlot
  BY Zenon DEF IInv
<1>2. QED
  BY <1>1, Invariant, PTL

\* A core's tables are no image, no discovery record and no other core's.
LEMMA TablesSpared ==
    ASSUME input \in Inputs, ~Arm, SlotsHold, NEW d \in Aps, NEW a \in DOMAIN PageTables(d)
    PROVE  /\ \A c \in Cores :
                 /\ a \notin KernelRange(c)
                 /\ Loadable(input.init) =>
                       \A j \in Segments(input.init) :
                           a \notin SegmentRange(Displacement(c), Commands(input.init)[j])
           /\ \A c \in Aps : /\ a # RegionOf(c) + DiscoveryOffset
                             /\ c # d => a \notin DOMAIN PageTables(c)
<1>1. a \in Span(Region(arch, d) + PgtableOffset, 4 * TableSize)
  BY TablesInWindow, Zenon
<1>2. /\ PgtableOffset \in Nat /\ 4 * TableSize \in Nat /\ DiscoveryOffset \in Nat
      /\ DiscoveryOffset < PgtableOffset /\ PgtableOffset + 4 * TableSize <= RegionSize
      /\ DiscoveryOffset + 1 <= RegionSize /\ 1 \in Nat /\ DiscoveryOffset <= PgtableOffset
  BY Windows, Zenon
<1>3. arch \in Arches /\ d \in Nat \ {0} /\ \A c \in Aps : c \in Nat \ {0} /\ c \in Cores
  BY Sizes, Zenon
<1>4. \A c \in Cores :
         /\ a \notin KernelRange(c)
         /\ Loadable(input.init) =>
               \A j \in Segments(input.init) :
                   a \notin SegmentRange(Displacement(c), Commands(input.init)[j])
  BY <1>1, <1>2, WindowSpared, Zenon
<1>5. ASSUME NEW c \in Aps PROVE a # RegionOf(c) + DiscoveryOffset
  <2> SUFFICES ASSUME a = RegionOf(c) + DiscoveryOffset PROVE FALSE
    BY Zenon
  <2>1. Region(arch, c) \in Int /\ RegionOf(c) = Region(arch, c)
    BY <1>3, Bases, Zenon DEF RegionOf, KernelBase
  <2>2. a = Region(arch, c) + DiscoveryOffset + 0
    BY <1>2, <2>1
  <2>3. a \in Span(Region(arch, c) + DiscoveryOffset, 1)
    BY <2>2 DEF Span
  <2>4. QED
    BY <1>1, <1>3, <2>3, TablesApart, Zenon
<1>6. ASSUME NEW c \in Aps, c # d PROVE a \notin DOMAIN PageTables(c)
  <2> SUFFICES ASSUME a \in DOMAIN PageTables(c) PROVE FALSE
    BY Zenon
  <2>1. a \in Span(Region(arch, c) + PgtableOffset, 4 * TableSize)
    BY TablesInWindow, Zenon
  <2>2. QED
    BY <1>1, <1>3, <1>6, <2>1, TablesApart, Zenon
<1>7. QED
  BY <1>4, <1>5, <1>6, Zenon

-----------------------------------------------------------------------------
\* Every core on x86_64 runs mapped.

TablesAt(m, T) == \A p \in DOMAIN T : p \in DOMAIN m /\ m[p] = T[p]

\* The tables a core runs under, and that its own stay as it built them.
Mapped(c) ==
    /\ pc[c] \in {"off", "start"} => slide[c] = 0
    /\ (c = Bsp \/ pc[c] \in {"off", "start"}) => cr3[c] = BootPml4
    /\ (c # Bsp /\ pc[c] \in {"load", "init"}) =>
          cr3[c] = RegionOf(c) + PgtableOffset /\ TablesAt(mem, PageTables(c))
    /\ pc[c] = "init" => info[c].pml4_phys = cr3[c]

MInv ==
    /\ IInv
    /\ DOMAIN cr3 = Cores
    /\ (~Arm /\ SlotsHold) => \A c \in Cores : Mapped(c)

\* A step that touches neither a core's control nor its tables.
LEMMA MappedKept ==
    ASSUME input' = input, NEW d \in Cores, Mapped(d), pc'[d] = pc[d], slide'[d] = slide[d],
           cr3'[d] = cr3[d], info'[d] = info[d], NEW W, Keeps(mem, mem', W),
           (d # Bsp /\ pc[d] \in {"load", "init"}) => \A a \in DOMAIN PageTables(d) : a \notin W
    PROVE  Mapped(d)'
<1>1. RegionOf(d)' = RegionOf(d) /\ PageTables(d)' = PageTables(d)
  BY SameInput, Zenon
<1>2. (d # Bsp /\ pc[d] \in {"load", "init"}) => TablesAt(mem', PageTables(d))
  BY Zenon DEF Mapped, TablesAt, Keeps
<1>3. QED
  BY <1>1, <1>2, Zenon DEF Mapped

\* x86_64 has no shared path.
LEMMA X86Separate ==
    ASSUME input \in Inputs, ~Arm
    PROVE  ~Shared
BY InputsAssumption, Zenon DEF Arm, arch, Shared

\* At kernel entry every core is to run under the tables of boot.S.
LEMMA MInvInit == Init => MInv
<1> SUFFICES ASSUME Init PROVE MInv
  BY Zenon
<1>1. \A c \in Cores : Mapped(c)
  BY Zenon DEF Init, Mapped
<1>2. QED
  BY <1>1, IInvInit, Zenon DEF Init, MInv

\* Steps in which one core changes and memory does not.
LEMMA MappedQuiet ==
    ASSUME input' = input, mem' = mem, slide' = slide, cr3' = cr3, NEW c \in Cores,
           \A d \in Cores : Mapped(d) /\ (d # c => pc'[d] = pc[d] /\ info'[d] = info[d]),
           pc[c] = "load", pc'[c] \in {"init", "halt"},
           pc'[c] = "init" => info'[c].pml4_phys = cr3[c]
    PROVE  \A d \in Cores : Mapped(d)'
<1> SUFFICES ASSUME NEW d \in Cores PROVE Mapped(d)'
  BY Zenon
<1>1. CASE d # c
  <2>1. Keeps(mem, mem', {})
    BY Zenon DEF Keeps
  <2>2. QED
    BY <1>1, <2>1, MappedKept, Zenon
<1>2. CASE d = c
  <2>1. RegionOf(d)' = RegionOf(d) /\ PageTables(d)' = PageTables(d)
    BY SameInput, Zenon
  <2>2. QED
    BY <1>2, <2>1, Zenon DEF Mapped
<1>3. QED
  BY <1>1, <1>2, Zenon

\* The page table address in the two boot_infos.
LEMMA InfoTables ==
    /\ BspInfoX86.pml4_phys = BootPml4
    /\ \A c \in Aps : ~Arm => ApInfo(c).pml4_phys = RegionOf(c) + PgtableOffset
<1>1. "pml4_phys" \in Info /\ "pml4_phys" \notin Services
  BY Zenon DEF Info, Services
<1>2. BspInfoX86.pml4_phys = BootPml4
  BY <1>1, Zenon DEF BspInfoX86, ZeroInfo
<1>3. \A c \in Aps : ~Arm => ApInfo(c).pml4_phys = RegionOf(c) + PgtableOffset
  BY <1>1, Zenon DEF ApInfo
<1>4. QED
  BY <1>2, <1>3, Zenon

\* kernel_boot_ap builds its tables where no other core's lie.
LEMMA MappedStart ==
    ASSUME Control, ~Arm, SlotsHold, \A d \in Cores : Mapped(d), DOMAIN cr3 = Cores,
           NEW c \in Aps, StartAp(c)
    PROVE  \A d \in Cores : Mapped(d)'
<1> SUFFICES ASSUME NEW d \in Cores PROVE Mapped(d)'
  BY Zenon
<1>1. /\ input \in Inputs /\ input' = input /\ c \in Cores /\ c # Bsp
      /\ cr3' = [cr3 EXCEPT ![c] = RegionOf(c) + PgtableOffset]
      /\ mem' = Store(PageTables(c), mem) /\ info' = info
      /\ pc' = [pc EXCEPT ![c] = IF Loadable(input.init) THEN "load" ELSE "halt"]
      /\ slide' = [slide EXCEPT ![c] = ApSlide(c)]
  BY Zenon DEF StartAp, CallMachoLoad, Control, Cores
<1>2. RegionOf(c)' = RegionOf(c) /\ PageTables(c)' = PageTables(c)
  BY <1>1, SameInput, Zenon
<1>3. CASE d = c
  <2>1. TablesAt(mem', PageTables(c))
    BY <1>1, Stored, Zenon DEF TablesAt
  <2>2. pc'[c] \in {"load", "halt"} /\ cr3'[c] = RegionOf(c) + PgtableOffset
    BY <1>1, Zenon DEF Control
  <2>3. QED
    BY <1>1, <1>2, <1>3, <2>1, <2>2, ZenonT(40) DEF Mapped
<1>4. CASE d # c
  <2>1. pc'[d] = pc[d] /\ slide'[d] = slide[d] /\ cr3'[d] = cr3[d] /\ info'[d] = info[d]
    BY <1>1, <1>4, Zenon DEF Control
  <2>2. Keeps(mem, mem', DOMAIN PageTables(c))
    BY <1>1, StoreKeeps, Zenon
  <2>3. d # Bsp => \A a \in DOMAIN PageTables(d) : a \notin DOMAIN PageTables(c)
    BY <1>1, <1>4, TablesSpared, ZenonT(40) DEF Cores
  <2>4. QED
    BY <1>1, <2>1, <2>2, <2>3, MappedKept, ZenonT(40)
<1>5. QED
  BY <1>3, <1>4, Zenon

\* The kernel copy and the discovery record init writes spare every core's tables.
LEMMA MappedBringUp ==
    ASSUME Control, ~Arm, SlotsHold, \A d \in Cores : Mapped(d), NEW c \in Aps, BringUp(c), ~Shared
    PROVE  \A d \in Cores : Mapped(d)'
<1> SUFFICES ASSUME NEW d \in Cores PROVE Mapped(d)'
  BY Zenon
<1> DEFINE image == Write("kernel", RegionOf(c), input.kernel_len)
           record == [a \in {RegionOf(c) + DiscoveryOffset} |-> <<"discovery", c>>]
           W == DOMAIN image \cup DOMAIN record
<1>1. /\ pc[Bsp] = "init" /\ pc[c] = "off" /\ pc' = [pc EXCEPT ![c] = "start"]
      /\ info[Bsp].kernel_boot_ap_addr # 0 /\ info[Bsp].kernel_image_len # 0
      /\ mem' = Store(Write("kernel", RegionOf(c), info[Bsp].kernel_image_len), Store(record, mem))
      /\ input' = input /\ slide' = slide /\ cr3' = cr3 /\ info' = info
  BY Zenon DEF BringUp
<1>2. /\ input \in Inputs /\ c \in Cores /\ c # Bsp
      /\ info[Bsp].kernel_image_len = input.kernel_len
  BY <1>1, Sizes, Zenon DEF Control, BspSays, Bsp
<1>3. mem' = Store(image, Store(record, mem))
  BY <1>1, <1>2, Zenon
<1>4. CASE d = c
  <2>1. pc'[c] = "start"
    BY <1>1, <1>2, Zenon DEF Control
  <2>2. QED
    BY <1>1, <1>2, <1>4, <2>1, Zenon DEF Mapped
<1>5. CASE d # c
  <2>1. Keeps(mem, mem', W)
    <3> HIDE DEF image, record
    <3>1. Keeps(mem, Store(record, mem), DOMAIN record)
      BY StoreKeeps, Zenon
    <3>2. Keeps(Store(record, mem), mem', DOMAIN image)
      BY <1>3, StoreKeeps, Zenon
    <3>3. QED
      BY <3>1, <3>2, Zenon DEF Keeps
  <2>2. DOMAIN image = KernelRange(c)
    BY <1>2, Zenon DEF KernelRange, KernelOf, Write
  <2>3. d # Bsp => \A a \in DOMAIN PageTables(d) : a \notin W
    BY <1>2, <2>2, TablesSpared, Zenon DEF Cores
  <2>4. pc'[d] = pc[d]
    BY <1>1, <1>5, Zenon DEF Control
  <2> HIDE DEF W
  <2>5. QED
    BY <1>1, <2>1, <2>3, <2>4, MappedKept, Zenon
<1>6. QED
  BY <1>4, <1>5, Zenon

\* A load command of macho_load spares every core's tables.
LEMMA MappedLoad ==
    ASSUME Control, ~Arm, SlotsHold, \A d \in Cores : Mapped(d), NEW c \in Cores, LoadCommand(c)
    PROVE  \A d \in Cores : Mapped(d)'
<1> SUFFICES ASSUME NEW d \in Cores PROVE Mapped(d)'
  BY Zenon
<1> DEFINE w == LoadWrite(c)
           n == at[c]
<1>1. /\ input \in Inputs /\ input' = input /\ pc' = pc /\ slide' = slide /\ cr3' = cr3
      /\ info' = info /\ pc[c] = "load"
  BY Zenon DEF LoadCommand, Control
<1>2. Loadable(input.init)
  BY <1>1, Zenon DEF Control, CoreOK
<1>3. /\ mem' = Store(w, mem)
      /\ n \in Segments(input.init) =>
            DOMAIN w = SegmentRange(Displacement(c), Commands(input.init)[n])
      /\ n \notin Segments(input.init) => DOMAIN w = {}
  BY LoadWrites, Zenon
<1> HIDE DEF w, n
<1>4. Keeps(mem, mem', DOMAIN w)
  BY <1>3, StoreKeeps, Zenon
<1>5. d # Bsp => \A a \in DOMAIN PageTables(d) : a \notin DOMAIN w
  BY <1>1, <1>2, <1>3, TablesSpared, Zenon DEF Cores
<1>6. QED
  BY <1>1, <1>4, <1>5, MappedKept, Zenon

\* Every step keeps the cores mapped.
LEMMA MInvStep == MInv /\ [Next]_vars => MInv'
<1> SUFFICES ASSUME MInv, [Next]_vars PROVE MInv'
  BY Zenon
<1>1. IInv' /\ IInv /\ Control /\ Bsp \in Cores /\ \A c \in Aps : c \in Cores /\ c # Bsp
  BY IInvStep, Sizes, Zenon DEF MInv, IInv, Control, Bsp
<1>2. input' = input
  BY ZenonT(40) DEF Next, vars, Settled, StartBsp, FinishBsp, BootProtocol, LoadCommand, BringUp, StartAp,
         FinishAp, StartSharedAp
<1>3. DOMAIN cr3' = Cores
  BY ZenonT(40) DEF Next, vars, Settled, StartBsp, FinishBsp, BootProtocol, LoadCommand, BringUp, StartAp,
         FinishAp, StartSharedAp, MInv
<1>4. ASSUME ~Arm, SlotsHold PROVE \A c \in Cores : Mapped(c)'
  <2>0. ~Shared /\ (\A c \in Cores : Mapped(c)) /\ DOMAIN cr3 = Cores
    BY <1>1, <1>4, X86Separate, Zenon DEF MInv, Control
  <2>1. CASE StartBsp
    <3> SUFFICES ASSUME NEW d \in Cores PROVE Mapped(d)'
      BY Zenon
    <3>1. /\ mem' = Store(Nothing, mem) /\ cr3' = cr3 /\ info' = info
          /\ pc' = [pc EXCEPT ![Bsp] = IF Loadable(input.init) THEN "load" ELSE "halt"]
          /\ slide' = [slide EXCEPT ![Bsp] = 0]
      BY <2>1, Zenon DEF StartBsp, CallMachoLoad
    <3>2. CASE d # Bsp
      <4>1. pc'[d] = pc[d] /\ slide'[d] = slide[d] /\ cr3'[d] = cr3[d] /\ info'[d] = info[d]
        BY <1>1, <3>1, <3>2, Zenon DEF Control
      <4>2. Keeps(mem, mem', DOMAIN Nothing) /\ DOMAIN Nothing = {}
        BY <3>1, StoreKeeps, Zenon DEF Nothing
      <4>3. QED
        BY <1>2, <2>0, <4>1, <4>2, MappedKept, Zenon
    <3>3. CASE d = Bsp
      <4>1. pc'[Bsp] \in {"load", "halt"}
        BY <1>1, <3>1, Zenon DEF Control
      <4>2. QED
        BY <2>0, <3>1, <3>3, <4>1, Zenon DEF Mapped
    <3>4. QED
      BY <3>2, <3>3, Zenon
  <2>2. ASSUME NEW c \in Cores, pc[c] = "load", cr3' = cr3,
               Halt(c) \/ \E i, e : EnterInit(c, i, e) /\ i.pml4_phys = cr3[c]
        PROVE  \A d \in Cores : Mapped(d)'
    <3>1. mem' = mem /\ slide' = slide
      BY <2>2, Zenon DEF Halt, EnterInit
    <3>2. \A d \in Cores : d # c => pc'[d] = pc[d] /\ info'[d] = info[d]
      BY <1>1, <2>2, Zenon DEF Halt, EnterInit, Control
    <3>3. pc'[c] \in {"init", "halt"} /\ (pc'[c] = "init" => info'[c].pml4_phys = cr3[c])
      BY <1>1, <2>2, ZenonT(40) DEF Halt, EnterInit, Control
    <3>4. QED
      BY <1>2, <2>0, <2>2, <3>1, <3>2, <3>3, MappedQuiet, ZenonT(40)
  <2>3. CASE FinishBsp
    <3>1. /\ pc[Bsp] = "load" /\ cr3' = cr3
          /\ Halt(Bsp) \/ EnterInit(Bsp, BspInfoX86, Entry(input.init, 0))
      BY <1>4, <2>3, Zenon DEF FinishBsp, Loaded
    <3>2. BspInfoX86.pml4_phys = cr3[Bsp]
      BY <1>1, <2>0, InfoTables, Zenon DEF Mapped
    <3>3. QED
      BY <1>1, <2>2, <3>1, <3>2, Zenon
  <2>4. CASE \E c \in Cores : LoadCommand(c)
    BY <1>1, <1>4, <2>0, <2>4, MappedLoad, Zenon
  <2>5. CASE \E c \in Aps : BringUp(c)
    BY <1>1, <1>4, <2>0, <2>5, MappedBringUp, ZenonT(40)
  <2>6. CASE \E c \in Aps : StartAp(c)
    BY <1>1, <1>4, <2>0, <2>6, MappedStart, Zenon
  <2>7. CASE \E c \in Aps : FinishAp(c)
    <3> SUFFICES ASSUME NEW c \in Aps, FinishAp(c) PROVE \A d \in Cores : Mapped(d)'
      BY <2>7, Zenon
    <3>1. /\ pc[c] = "load" /\ cr3' = cr3
          /\ Halt(c) \/ EnterInit(c, ApInfo(c), Entry(input.init, slide[c]))
      BY Zenon DEF FinishAp, Loaded
    <3>2. ApInfo(c).pml4_phys = cr3[c]
      BY <1>1, <1>4, <2>0, <3>1, InfoTables, Zenon DEF Mapped
    <3>3. QED
      BY <1>1, <2>2, <3>1, <3>2, Zenon
  <2>8. CASE UNCHANGED vars
    <3> SUFFICES ASSUME NEW d \in Cores PROVE Mapped(d)'
      BY Zenon
    <3>1. Keeps(mem, mem', {})
      BY <2>8, Zenon DEF vars, Keeps
    <3>2. QED
      BY <2>8, <2>0, <3>1, MappedKept, Zenon DEF vars
  <2>9. ~BootProtocol /\ ~(\E c \in Aps : StartSharedAp(c))
    BY <2>0, Zenon DEF BootProtocol, StartSharedAp
  <2>10. QED
    BY <2>1, <2>3, <2>4, <2>5, <2>6, <2>7, <2>8, <2>9, ZenonT(40) DEF Next, Settled
<1>5. QED
  BY <1>1, <1>2, <1>3, <1>4, SameInput, Zenon DEF MInv

\* Regions end where the last one ends.
LEMMA RegionEnds ==
    ASSUME input \in Inputs, NEW c \in Aps
    PROVE  /\ Region(arch, c) \in Nat
           /\ Region(arch, c) + RegionSize <= RegionBase[arch] + MaxAps * RegionSize
<1>1. /\ RegionSize \in Nat \ {0} /\ RegionBase[arch] \in Nat /\ MaxAps \in Nat
      /\ c \in Nat \ {0} /\ c <= MaxAps
  BY Sizes, LayoutFacts, ApsAssumption
<1>2. (c - 1) * RegionSize \in Nat /\ (c - 1) * RegionSize + RegionSize = c * RegionSize
  BY <1>1
<1>3. c * RegionSize <= MaxAps * RegionSize
  BY <1>1
<1>4. MaxAps * RegionSize \in Nat
  BY <1>1
<1>5. QED
  BY <1>1, <1>2, <1>3, <1>4 DEF Region

\* What a core touches lies in the two gigabytes its own tables map.
LEMMA TouchedReached ==
    ASSUME input \in Inputs, ~Arm, SlotsHold, NEW c \in Cores, slide[c] \in {0, Displacement(c)},
           NEW a \in Touched(c)
    PROVE  \E g \in {0, 3} : a \in g * Gigabyte .. (g + 1) * Gigabyte - 1
<1> DEFINE top == RegionBase[arch] + MaxAps * RegionSize + InitLoadBase[arch]
<1>1. arch \in Arches /\ arch = "x86_64" /\ Bsp \in Cores /\ Bsp = 0
  BY Sizes, Zenon DEF Bsp
<1>2. /\ RegionSize \in Nat \ {0} /\ RegionBase[arch] \in Nat /\ MaxAps \in Nat
      /\ InitLoadBase[arch] \in Nat /\ InitOffset \in Nat /\ InitMax \in Nat
      /\ InitOffset + InitMax <= RegionSize /\ KernelLoadBase[arch] \in Nat
  BY <1>1, LayoutFacts
<1>3. MaxAps * RegionSize \in Nat
  BY <1>2
<1>4. Gigabyte \in Nat /\ top <= Gigabyte /\ top \in Nat /\ Lapic \in 3 * Gigabyte .. 4 * Gigabyte - 1
  BY <1>1, <1>2, <1>3, ReachAssumption, PagingAssumption DEF Gigabyte
<1>5. ASSUME a \in Int, 0 <= a, a < top
      PROVE  \E g \in {0, 3} : a \in g * Gigabyte .. (g + 1) * Gigabyte - 1
  <2>1. a \in 0 * Gigabyte .. (0 + 1) * Gigabyte - 1
    BY <1>4, <1>5
  <2>2. QED
    BY <2>1, Zenon
<1>6. CASE a = Lapic
  <2>1. a \in 3 * Gigabyte .. (3 + 1) * Gigabyte - 1
    BY <1>4, <1>6
  <2>2. QED
    BY <2>1, Zenon
<1>7. CASE c # Bsp /\ a \in Span(RegionOf(c), RegionSize)
  <2>1. c \in Aps /\ RegionOf(c) = Region(arch, c)
    BY <1>7, Bases, Zenon DEF Cores
  <2>2. Region(arch, c) \in Nat /\ Region(arch, c) + RegionSize <= RegionBase[arch] + MaxAps * RegionSize
    BY <2>1, RegionEnds, Zenon
  <2>3. PICK k \in 0 .. RegionSize - 1 : a = Region(arch, c) + k
    BY <1>7, <2>1, Zenon DEF Span
  <2>4. a \in Int /\ 0 <= a /\ a < top
    BY <1>2, <1>3, <2>2, <2>3
  <2>5. QED
    BY <1>5, <2>4, Zenon
<1>8. CASE a \in Span(KernelLoadBase[arch], input.kernel_len)
  <2>1. KernelOf(Bsp) = KernelLoadBase[arch] /\ KernelBase(arch, Bsp) = KernelLoadBase[arch]
    BY <1>1, Bases, Zenon DEF KernelOf
  <2>2. a \in Span(KernelBase(arch, 0), KernelMax)
    BY <1>1, <1>8, <2>1, KernelInSlot, Zenon DEF KernelRange
  <2>3. a \in Int /\ a < RegionBase[arch]
    BY <1>1, <2>2, BspBelow, Zenon
  <2>4. PICK k \in 0 .. input.kernel_len - 1 : a = KernelLoadBase[arch] + k
    BY <1>8, Zenon DEF Span
  <2>5. a \in Int /\ 0 <= a /\ a < top
    BY <1>2, <1>3, <2>3, <2>4
  <2>6. QED
    BY <1>5, <2>5, Zenon
<1>9. ASSUME NEW cmd \in Range(Commands(input.init)), Copied(cmd), a \in DOMAIN Place(cmd, slide[c])
      PROVE  \E g \in {0, 3} : a \in g * Gigabyte .. (g + 1) * Gigabyte - 1
  <2>1. PICK d \in Cores : slide[c] = Displacement(d)
    BY <1>1, Zenon DEF Displacement
  <2>2. Loadable(input.init)
    BY DEF SlotsHold, ImageSize
  <2>3. PICK j \in DOMAIN Commands(input.init) : cmd = Commands(input.init)[j]
    BY Zenon DEF Range
  <2>4. j \in Segments(input.init)
    BY <1>9, <2>3, Zenon DEF Copied, Segments
  <2>5. LinkedAt(input.init, InitLoadBase[arch]) /\ Displacement(d) \in Int
    BY <2>2, Sizes, DisplacementType, Zenon
  <2>6. /\ cmd.vmaddr \in Nat /\ cmd.vmsize \in Nat /\ cmd.filesize \in Nat
        /\ cmd.filesize <= cmd.vmsize
    BY <1>2, <2>2, <2>3, <2>4, <2>5, SegmentInside, Fields, ZenonT(40) DEF Segments
  <2>7. a \in SegmentRange(Displacement(d), Commands(input.init)[j])
    BY <1>9, <2>1, <2>3, <2>5, <2>6, PlaceStored, ZenonT(40)
  <2>8. /\ a \in Int /\ SlotBase(arch, d) <= a /\ a \in Span(SlotBase(arch, d), InitMax)
        /\ SlotBase(arch, d) = Displacement(d) + InitLoadBase[arch]
    BY <2>2, <2>4, <2>7, SegmentInSlot, Bases, Zenon
  <2>9. CASE d = Bsp
    <3>1. a < RegionBase[arch]
      BY <1>1, <2>8, <2>9, BspBelow, Zenon
    <3>2. 0 <= a
      BY <1>2, <2>8, <2>9, SMTT(30) DEF Displacement
    <3>3. a < top
      BY <1>2, <1>3, <2>8, <3>1
    <3>4. QED
      BY <1>5, <2>8, <3>2, <3>3, Zenon
  <2>10. CASE d # Bsp
    <3>1. d \in Aps
      BY <2>10, Zenon DEF Cores
    <3>2. /\ Region(arch, d) \in Nat
          /\ Region(arch, d) + RegionSize <= RegionBase[arch] + MaxAps * RegionSize
          /\ RegionOf(d) = Region(arch, d)
      BY <2>10, <3>1, RegionEnds, Bases, Zenon
    <3>3. SlotBase(arch, d) = Region(arch, d) + InitOffset + InitLoadBase[arch]
      BY <2>8, <2>10, <3>2, Zenon DEF Displacement, ApSlide
    <3>4. PICK k \in 0 .. InitMax - 1 : a = SlotBase(arch, d) + k
      BY <2>8, Zenon DEF Span
    <3>5. 0 <= a /\ a < top
      <4>1. k \in Nat /\ k < InitMax
        BY <1>2, Counting, Zenon
      <4>2. QED
        BY <1>2, <1>3, <3>2, <3>3, <3>4, <4>1, InReach, ZenonT(40)
    <3>6. QED
      BY <1>5, <2>8, <3>5, Zenon
  <2>11. QED
    BY <2>9, <2>10, Zenon
<1> DEFINE A == IF c = Bsp THEN {} ELSE Span(RegionOf(c), RegionSize)
           K == Span(KernelLoadBase[arch], input.kernel_len)
           C == UNION {DOMAIN Place(cmd, slide[c]) :
                          cmd \in {x \in Range(Commands(input.init)) : Copied(x)}}
<1>10. Touched(c) = A \cup K \cup {Lapic} \cup C
  BY Zenon DEF Touched
<1>11. a \in A => c # Bsp /\ a \in Span(RegionOf(c), RegionSize)
  BY Zenon
<1>12. a \in C => \E cmd \in Range(Commands(input.init)) : Copied(cmd) /\ a \in DOMAIN Place(cmd, slide[c])
  BY Zenon
<1>13. a \in K => a \in Span(KernelLoadBase[arch], input.kernel_len)
  OBVIOUS
<1> HIDE DEF A, K, C
<1>14. a \in A \/ a \in K \/ a \in C \/ a = Lapic
  BY <1>10, Zenon
<1>15. QED
  BY <1>6, <1>7, <1>8, <1>9, <1>11, <1>12, <1>13, <1>14, Zenon

\* A core with its own tables in place finds itself mapped, and its tables in
\* its region.
LEMMA OwnTablesMap ==
    ASSUME input \in Inputs, ~Arm, NEW c \in Aps, cr3[c] = RegionOf(c) + PgtableOffset,
           TablesAt(mem, PageTables(c)),
           NEW g \in {0, 3}, NEW a \in g * Gigabyte .. (g + 1) * Gigabyte - 1
    PROVE  /\ Walk(TablesOf(c), cr3[c], a) = a
           /\ Walked(TablesOf(c), cr3[c], a) \subseteq Span(RegionOf(c), RegionSize)
<1> DEFINE pml4 == RegionOf(c) + PgtableOffset
           B == BuildApPageTables(pml4, TableSize)
           T == [p \in {x \in DOMAIN mem : mem[x][1] = "table"} |-> mem[p][2]]
<1>1. /\ RegionOf(c) = Region(arch, c) /\ Region(arch, c) \in Nat /\ arch \in Arches
      /\ RegionSize \in Nat \ {0} /\ PgtableOffset \in Nat /\ DiscoveryOffset \in Nat
      /\ DiscoveryOffset < PgtableOffset
      /\ TableSize \in Nat \ {0} /\ PgtableOffset + 4 * TableSize <= RegionSize
      /\ RegionBase[arch] \in Nat \ {0} /\ c \in Nat \ {0} /\ c \in Cores
  BY Sizes, LayoutFacts, RegionEnds, Zenon DEF RegionOf
<1>2. Region(arch, c) >= 1
  <2>1. (c - 1) * RegionSize \in Nat
    BY <1>1
  <2>2. QED
    BY <1>1, <2>1 DEF Region
<1>3. pml4 \in Int /\ pml4 # BootPml4
  BY <1>1, <1>2 DEF BootPml4
<1>4. TablesOf(c) = T
  BY <1>3, Zenon DEF TablesOf
<1>5. PageTables(c) = [p \in DOMAIN B |-> <<"table", B[p]>>]
  BY Zenon DEF PageTables
<1>6. \A p \in DOMAIN B : p \in DOMAIN mem /\ mem[p] = <<"table", B[p]>>
  BY <1>5, Zenon DEF TablesAt
<1>7. \A p \in DOMAIN B : p \in DOMAIN T /\ T[p] = B[p]
  BY <1>6
<1> HIDE DEF T
<1>8. Walk(T, pml4, a) = a /\ Walked(T, pml4, a) \subseteq DOMAIN B
  BY <1>1, <1>3, <1>7, ApMap, Zenon
<1>9. ASSUME NEW p \in DOMAIN B PROVE p \in Span(RegionOf(c), RegionSize)
  <2>1. p \in DOMAIN PageTables(c)
    BY <1>5, Zenon
  <2>2. p \in Span(Region(arch, c) + PgtableOffset, 4 * TableSize)
    BY <2>1, TablesInWindow, Zenon
  <2>3. PICK k \in 0 .. 4 * TableSize - 1 : p = Region(arch, c) + PgtableOffset + k
    BY <2>2, Zenon DEF Span
  <2>4. PgtableOffset + k \in 0 .. RegionSize - 1 /\ p = Region(arch, c) + (PgtableOffset + k)
    BY <1>1, <2>3
  <2>5. QED
    BY <1>1, <2>4, Zenon DEF Span
<1>10. QED
  BY <1>4, <1>8, <1>9, Zenon

\* Under either set of tables, whatever a core touches is mapped to itself.
LEMMA MInvMapped == MInv => RunsMapped
<1> SUFFICES ASSUME MInv, NEW c \in Cores, ~Arm, SlotsHold, pc[c] \in {"start", "load", "init"}
             PROVE  /\ \A a \in Touched(c) : Walk(TablesOf(c), cr3[c], a) = a
                    /\ (c # Bsp /\ pc[c] # "start") =>
                          \A a \in Touched(c) :
                             Walked(TablesOf(c), cr3[c], a) \subseteq Span(RegionOf(c), RegionSize)
                    /\ pc[c] = "init" => info[c].pml4_phys = cr3[c]
  BY Zenon DEF RunsMapped
<1>1. input \in Inputs /\ Mapped(c) /\ ~Shared
  BY X86Separate, Zenon DEF MInv, IInv, Control
<1>2. slide[c] \in {0, Displacement(c)}
  BY <1>1, Zenon DEF Mapped, MInv, IInv, Control, CoreOK
<1>3. \A a \in Touched(c) : \E g \in {0, 3} : a \in g * Gigabyte .. (g + 1) * Gigabyte - 1
  BY <1>1, <1>2, TouchedReached, Zenon
<1>4. CASE c = Bsp \/ pc[c] = "start"
  <2>1. cr3[c] = BootPml4 /\ TablesOf(c) = SetupIdentityMap32
    BY <1>1, <1>4, Zenon DEF Mapped, TablesOf
  <2>2. \A g \in {0, 3} : g \in 0 .. 3
    OBVIOUS
  <2>3. \A a \in Touched(c) : Walk(SetupIdentityMap32, BootPml4, a) = a
    BY <1>3, <2>2, BootMap, Zenon
  <2>4. QED
    BY <1>1, <1>4, <2>1, <2>3, Zenon DEF Mapped
<1>5. CASE c # Bsp /\ pc[c] \in {"load", "init"}
  <2>1. c \in Aps /\ cr3[c] = RegionOf(c) + PgtableOffset /\ TablesAt(mem, PageTables(c))
    BY <1>1, <1>5, Zenon DEF Mapped, Cores
  <2>2. \A a \in Touched(c) : /\ Walk(TablesOf(c), cr3[c], a) = a
                              /\ Walked(TablesOf(c), cr3[c], a) \subseteq Span(RegionOf(c), RegionSize)
    BY <1>1, <1>3, <2>1, OwnTablesMap, Zenon
  <2>3. QED
    BY <1>1, <2>2, Zenon DEF Mapped
<1>6. QED
  BY <1>4, <1>5, Zenon

\* On x86_64, with images that fit their slots, every core runs mapped: its
\* image, its region and the local APIC are mapped to themselves, under the
\* boot tables and from the switch to its own on; no other core's load ever
\* reaches its tables, and boot_info names the ones in use.
THEOREM CoresRunMapped == Spec => []RunsMapped
BY MInvInit, MInvStep, MInvMapped, PTL DEF Spec

=============================================================================

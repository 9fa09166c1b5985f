----------------------------- MODULE FdtProofs ------------------------------
(***************************************************************************)
(* What is proved of the device tree walks for every blob, every depth of  *)
(* the search's stack and every compatible string: a listing returns the   *)
(* children of a node, a search the first match, serial_init the console   *)
(* the tree asks for, and the lookups what nesting says.                   *)
(*                                                                         *)
(* The invariants are Listing, Searching, and Choosing on top of it; what  *)
(* a call answers comes from FdtTreeProofs.                                *)
(***************************************************************************)
EXTENDS FdtClient, FdtTreeProofs

-----------------------------------------------------------------------------
\* Listing the children of a node.

\* Nothing writes the blob, so the tree stays what it is.
LEMMA SameTree ==
    ASSUME tree' = tree
    PROVE  /\ blob' = blob /\ header' = header /\ size' = size
           /\ (Blob' <=> Blob) /\ (WellFormed' <=> WellFormed) /\ (Shallow' <=> Shallow)
           /\ Nodes' = Nodes
           /\ \A n : /\ Level(n)' = Level(n) /\ Close(n)' = Close(n)
                    /\ TreeChildren(n)' = TreeChildren(n)
           /\ \A w : TreeMatches(w)' = TreeMatches(w)
<1>1. blob' = blob /\ header' = header /\ size' = size
  BY Zenon DEF tree
<1>2. Nodes' = Nodes /\ Ends' = Ends /\ Props' = Props
  BY <1>1, Zenon DEF Nodes, Ends, Props
<1>3. \A n : Level(n)' = Level(n)
  <2>1. Nesting' = Nesting
    BY <1>1, Zenon DEF Nesting
  <2>2. QED
    BY <1>1, <2>1, Zenon DEF Level, SumBefore
<1>4. \A n : Close(n)' = Close(n)
  BY <1>2, <1>3, Zenon DEF Close
<1>5. /\ \A n : TreeChildren(n)' = TreeChildren(n)
      /\ \A n : TreeProps(n)' = TreeProps(n)
  BY <1>2, <1>3, <1>4, Zenon DEF TreeChildren, TreeProps
<1>6. \A w : TreeMatches(w)' = TreeMatches(w)
  BY <1>1, <1>2, <1>5, Zenon DEF TreeMatches
<1>7. (Blob' <=> Blob) /\ (Shallow' <=> Shallow)
  BY <1>1, <1>2, <1>3, Zenon DEF Blob, Shallow
<1>8. WellFormed' <=> WellFormed
  <2>1. CtxInit(header)' <=> CtxInit(header)
    BY <1>1, Zenon DEF CtxInit
  <2>2. QED
    BY <1>1, <1>2, <1>3, <1>5, <2>1, Zenon DEF WellFormed
<1>9. QED
  BY <1>1, <1>2, <1>3, <1>4, <1>5, <1>6, <1>7, <1>8, Zenon

\* What a caller has been given so far: nodes in document order, the last of
\* them its cursor, and in a well-formed tree exactly the children up to there.
Listing ==
    /\ Blob
    /\ seen \in Seq(Nat)
    /\ \A i, j \in 1 .. Len(seen) : i < j => seen[i] < seen[j]
    /\ parent # 0 => parent \in Nodes /\ pc \in {"list", "done"}
    /\ parent = 0 => seen = <<>> /\ pc # "list"
    /\ pc = "list" => cursor = IF seen = <<>> THEN 0 ELSE Top(seen)
    /\ (parent # 0 /\ WellFormed /\ Shallow) =>
          Range(seen) = IF pc = "list" THEN {c \in TreeChildren(parent) : c <= cursor}
                        ELSE TreeChildren(parent)

LEMMA ListingInit == Init => Listing
<1> SUFFICES ASSUME Init PROVE Listing
  BY Zenon
<1>1. PICK c \in Cases : header = c.header /\ blob = c.items
  BY Zenon DEF Init
<1>2. Blob
  BY <1>1, CasesAssumption, Zenon DEF Blob
<1>3. seen = <<>> /\ parent = 0 /\ pc = "idle"
  BY Zenon DEF Init
<1>4. QED
  BY <1>2, <1>3, NoneSeen, Zenon DEF Listing

\* The step that asks for one more child.
LEMMA ListingCall ==
    ASSUME Listing, CallNextChild
    PROVE  Listing'
<1> DEFINE c == NextChild(parent, cursor)
<1>1. /\ pc = "list" /\ cursor' = c /\ parent' = parent /\ tree' = tree
      /\ IF c = 0 THEN pc' = "done" /\ seen' = seen ELSE pc' = pc /\ seen' = Append(seen, c)
  BY Zenon DEF CallNextChild, tree
<1> HIDE DEF c
<1>2. /\ blob' = blob /\ (Blob' <=> Blob) /\ (WellFormed' <=> WellFormed) /\ (Shallow' <=> Shallow)
      /\ Nodes' = Nodes /\ TreeChildren(parent)' = TreeChildren(parent)
  BY <1>1, SameTree, Zenon
<1>3. /\ Blob /\ seen \in Seq(Nat) /\ parent # 0 /\ parent \in Nodes
      /\ \A i, j \in 1 .. Len(seen) : i < j => seen[i] < seen[j]
      /\ cursor = IF seen = <<>> THEN 0 ELSE Top(seen)
      /\ (WellFormed /\ Shallow) => Range(seen) = {x \in TreeChildren(parent) : x <= cursor}
  BY <1>1, Zenon DEF Listing
<1>4. seen # <<>> => Len(seen) \in 1 .. Len(seen) /\ Top(seen) = seen[Len(seen)]
  BY <1>3 DEF Top
<1>5. Len(seen) \in Nat /\ \A i \in 1 .. Len(seen) : seen[i] \in Nat /\ seen[i] <= cursor
  <2>1. Len(seen) \in Nat /\ \A i \in 1 .. Len(seen) : seen[i] \in Nat
    BY <1>3
  <2>2. ASSUME NEW i \in 1 .. Len(seen) PROVE seen[i] <= cursor
    <3>1. seen # <<>>
      OBVIOUS
    <3>2. CASE i = Len(seen)
      BY <1>3, <1>4, <2>1, <3>1, <3>2
    <3>3. CASE i # Len(seen)
      <4>1. i < Len(seen)
        BY <2>1, <3>3
      <4>2. seen[i] < seen[Len(seen)] /\ cursor = seen[Len(seen)] /\ seen[i] \in Nat
        BY <1>3, <1>4, <2>1, <3>1, <4>1, Zenon
      <4>3. cursor \in Nat
        BY <1>4, <2>1, <3>1, <4>2, Zenon
      <4>4. QED
        BY <4>2, <4>3
    <3>4. QED
      BY <3>2, <3>3, Zenon
  <2>3. QED
    BY <2>1, <2>2, Zenon
<1>6. cursor \in Nat /\ (cursor = 0 \/ cursor \in Range(seen))
  <2>1. CASE seen = <<>>
    BY <1>3, <2>1
  <2>2. CASE seen # <<>>
    <3>1. cursor = seen[Len(seen)] /\ Len(seen) \in 1 .. Len(seen) /\ DOMAIN seen = 1 .. Len(seen)
      BY <1>3, <1>4, <2>2
    <3>2. QED
      BY <1>5, <3>1, Zenon DEF Range
  <2>3. QED
    BY <2>1, <2>2, Zenon
<1>7. (WellFormed /\ Shallow) =>
         LET later == {x \in TreeChildren(parent) : cursor < x}
         IN  IF later = {} THEN c = 0 ELSE c \in later /\ \A x \in later : c <= x
  <2> SUFFICES ASSUME WellFormed, Shallow
               PROVE  LET later == {x \in TreeChildren(parent) : cursor < x}
                      IN  IF later = {} THEN c = 0 ELSE c \in later /\ \A x \in later : c <= x
    BY Zenon
  <2>1. cursor = 0 \/ cursor \in TreeChildren(parent)
    BY <1>3, <1>6, Zenon
  <2>2. QED
    BY <1>3, <2>1, NextChildIs, Zenon DEF c
<1>8. (WellFormed /\ Shallow) => \A x \in TreeChildren(parent) : x \in Nat /\ (x <= cursor <=> ~(cursor < x))
  <2> SUFFICES ASSUME WellFormed, NEW x \in TreeChildren(parent)
               PROVE  x \in Nat /\ (x <= cursor <=> ~(cursor < x))
    BY Zenon
  <2>1. x \in Nat
    BY <1>3, ChildInside, Zenon
  <2>2. QED
    BY <1>6, <2>1
<1>9. CASE c = 0
  <2>1. (WellFormed /\ Shallow) => Range(seen) = TreeChildren(parent)
    <3> SUFFICES ASSUME WellFormed, Shallow PROVE Range(seen) = TreeChildren(parent)
      BY Zenon
    <3>1. ASSUME NEW x \in TreeChildren(parent) PROVE ~(cursor < x)
      <4> SUFFICES ASSUME cursor < x PROVE FALSE
        BY Zenon
      <4>1. c \in TreeChildren(parent) /\ cursor < c
        BY <1>7, Zenon
      <4>2. QED
        BY <1>6, <1>9, <4>1
    <3>2. QED
      BY <1>3, <1>8, <3>1, Zenon
  <2>2. seen' = seen /\ pc' = "done" /\ parent' = parent
    BY <1>1, <1>9, Zenon
  <2>3. QED
    BY <1>2, <1>3, <2>1, <2>2, Zenon DEF Listing
<1>10. CASE c # 0
  <2>1. c \in Nodes /\ c \in Nat /\ cursor < c
    BY <1>3, <1>6, <1>10, NextForward, Zenon DEF c
  <2>2. /\ seen' \in Seq(Nat) /\ Len(seen') = Len(seen) + 1 /\ seen'[Len(seen) + 1] = c
        /\ \A i \in 1 .. Len(seen) : seen'[i] = seen[i]
        /\ seen' # <<>> /\ Top(seen') = c /\ Range(seen') = Range(seen) \cup {c}
    <3>1. seen' = Append(seen, c)
      BY <1>1, <1>10, Zenon
    <3>2. QED
      BY <1>3, <2>1, <3>1, RangeAppend, Zenon
  <2>3. ASSUME NEW i \in 1 .. Len(seen'), NEW j \in 1 .. Len(seen'), i < j
        PROVE  seen'[i] < seen'[j]
    <3>1. i \in 1 .. Len(seen)
      BY <1>5, <2>2, <2>3
    <3>2. CASE j = Len(seen) + 1
      <4>1. seen'[i] = seen[i] /\ seen[i] \in Nat /\ seen[i] <= cursor /\ seen'[j] = c
        BY <1>5, <2>2, <3>1, <3>2, Zenon
      <4>2. QED
        BY <1>6, <2>1, <4>1
    <3>3. CASE j # Len(seen) + 1
      <4>1. j \in 1 .. Len(seen)
        BY <1>5, <2>2, <3>3
      <4>2. QED
        BY <1>3, <2>2, <2>3, <3>1, <4>1, Zenon
    <3>4. QED
      BY <3>2, <3>3, Zenon
  <2>4. (WellFormed /\ Shallow) => Range(seen') = {x \in TreeChildren(parent) : x <= c}
    <3> SUFFICES ASSUME WellFormed, Shallow
                 PROVE  Range(seen') = {x \in TreeChildren(parent) : x <= c}
      BY Zenon
    <3>1. c \in TreeChildren(parent) /\ \A x \in TreeChildren(parent) : cursor < x => c <= x
      BY <1>7, <1>10, Zenon
    <3>2. ASSUME NEW x \in TreeChildren(parent) PROVE x <= c <=> x <= cursor \/ x = c
      <4>1. x \in Nat /\ (cursor < x => c <= x)
        BY <1>8, <3>1, Zenon
      <4>2. QED
        BY <1>6, <2>1, <4>1
    <3>3. QED
      BY <1>3, <2>2, <3>1, <3>2, Zenon
  <2>5. pc' = "list" /\ parent' = parent /\ cursor' = c
    BY <1>1, <1>10, Zenon
  <2>6. QED
    BY <1>2, <1>3, <2>2, <2>3, <2>4, <2>5, Zenon DEF Listing
<1>11. QED
  BY <1>9, <1>10, Zenon

\* A step that lists nothing.
LEMMA ListingQuiet ==
    ASSUME Listing, tree' = tree, parent' = parent, seen' = seen,
           \/ pc' = pc /\ cursor' = cursor
           \/ parent = 0 /\ pc' # "list"
    PROVE  Listing'
<1>1. /\ (Blob' <=> Blob) /\ (WellFormed' <=> WellFormed) /\ (Shallow' <=> Shallow)
      /\ Nodes' = Nodes /\ TreeChildren(parent)' = TreeChildren(parent)
  BY SameTree, Zenon
<1>2. CASE pc' = pc /\ cursor' = cursor
  BY <1>1, <1>2, Zenon DEF Listing
<1>3. CASE parent = 0 /\ pc' # "list"
  BY <1>1, <1>3, Zenon DEF Listing
<1>4. QED
  BY <1>2, <1>3, Zenon

LEMMA ListingStep ==
    ASSUME Listing, [Next]_vars
    PROVE  Listing'
<1>1. ASSUME NEW n \in {i \in DOMAIN blob : blob[i].tok = "BEGIN_NODE"}, StartList(n)
      PROVE  Listing'
  <2>1. pc = "idle" /\ pc' = "list" /\ parent' = n /\ cursor' = 0 /\ tree' = tree /\ seen' = seen
    BY <1>1, Zenon DEF StartList, tree
  <2>2. Blob /\ seen = <<>> /\ n \in Nodes
    BY <2>1, Zenon DEF Listing, Nodes
  <2>3. n # 0
    BY <2>2 DEF Nodes, Blob
  <2>4. /\ (Blob' <=> Blob) /\ (WellFormed' <=> WellFormed) /\ (Shallow' <=> Shallow)
        /\ Nodes' = Nodes /\ TreeChildren(n)' = TreeChildren(n)
    BY <2>1, SameTree, Zenon
  <2>5. WellFormed => \A c \in TreeChildren(n) : ~(c <= 0)
    <3> SUFFICES ASSUME WellFormed, NEW c \in TreeChildren(n) PROVE ~(c <= 0)
      BY Zenon
    <3>1. c \in Nat /\ n \in Nat /\ n < c
      BY <2>2, ChildInside, Zenon
    <3>2. QED
      BY <3>1
  <2>6. (WellFormed /\ Shallow) => Range(seen) = {c \in TreeChildren(n) : c <= 0}
    BY <2>2, <2>5, NoneSeen, Zenon
  <2>7. QED
    BY <2>1, <2>2, <2>3, <2>4, <2>6, NoneSeen, Zenon DEF Listing
<1>2. CASE CallNextChild
  BY <1>2, ListingCall, Zenon
<1>3. CASE StartSearch \/ Visit \/ Climb \/ StartSerialInit \/ Found
  <2>1. pc # "list" /\ pc # "done"
    BY <1>3, Zenon DEF StartSearch, Visit, Climb, StartSerialInit, Found
  <2>2. parent = 0
    BY <2>1, Zenon DEF Listing
  <2>3. tree' = tree /\ parent' = parent /\ seen' = seen
    BY <1>3, Zenon DEF StartSearch, Visit, Climb, StartSerialInit, Found, tree
  <2>4. pc' # "list"
    BY <1>3, <2>1, ZenonT(40) DEF StartSearch, Visit, Climb, StartSerialInit, Found, Search, Return
  <2>5. QED
    BY <2>2, <2>3, <2>4, ListingQuiet, Zenon
<1>4. CASE UNCHANGED vars
  BY <1>4, ListingQuiet, Zenon DEF vars, tree
<1>5. CASE Finished
  BY <1>5, ListingQuiet, Zenon DEF Finished, vars, tree
<1>6. QED
  BY <1>1, <1>2, <1>3, <1>4, <1>5, Zenon DEF Next

LEMMA ListingOrdered == Listing => ChildrenInOrder
<1> SUFFICES ASSUME Listing PROVE ChildrenInOrder
  BY Zenon
<1>1. DOMAIN seen = 1 .. Len(seen)
  BY DEF Listing
<1>2. QED
  BY <1>1, Zenon DEF Listing, ChildrenInOrder

\* The sizes are numbers, so that the differences of ctx_init are what they
\* seem.
LEMMA WordsFit ==
    ASSUME Words, size \in Nat
    PROVE  ValidBlocksInside
<1>1. \A x \in Word : x \in Nat
  BY FdtAssumption DEF Word
<1>2. /\ header.totalsize \in Nat /\ header.off_struct \in Nat
      /\ header.size_struct \in Nat /\ header.off_strings \in Nat
      /\ header.size_strings \in Nat
  BY <1>1, Zenon DEF Words
<1>3. QED
  BY <1>2 DEF ValidBlocksInside, FdtValid, CtxInit

\* No step writes to the blob.
LEMMA TreeKept ==
    ASSUME [Next]_vars
    PROVE  tree' = tree
BY ZenonT(40) DEF Next, vars, tree, StartList, CallNextChild, StartSearch, Visit, Climb,
                  StartSerialInit, Found, Finished

LEMMA WordsInit == Init => Words /\ size \in Nat
<1> SUFFICES ASSUME Init PROVE Words /\ size \in Nat
  BY Zenon
<1>1. PICK c \in Cases : header = c.header /\ blob = c.items /\ rsvmap = c.rsvmap /\ size = c.size
  BY Zenon DEF Init
<1>2. QED
  BY <1>1, CasesAssumption, Zenon DEF Words

LEMMA WordsStep ==
    ASSUME Words, [Next]_vars
    PROVE  Words' /\ size' = size
<1>1. header' = header /\ size' = size /\ blob' = blob /\ rsvmap' = rsvmap
  BY TreeKept, Zenon DEF tree
<1>2. QED
  BY <1>1, Zenon DEF Words

\* fdt_valid answers yes only for a blob whose structure and strings blocks lie
\* inside the bytes the caller has, whatever the offsets and sizes in its
\* header: the differences that ctx_init compares cannot wrap around.
THEOREM ValidBlocks == Spec => []ValidBlocksInside
<1> DEFINE Inv == Words /\ size \in Nat
<1>1. Init => Inv
  BY WordsInit
<1>2. Inv /\ [Next]_vars => Inv'
  BY WordsStep
<1>3. Inv => ValidBlocksInside
  BY WordsFit
<1>4. QED
  BY <1>1, <1>2, <1>3, PTL DEF Spec
\* Listing is an invariant: on any blob, damaged or not, the cursor of
\* fdt_next_child only moves forward, and in a well-formed tree that fits
\* FDT_MAX_DEPTH it has passed exactly the children it has returned.
THEOREM ListingInvariant == Spec => []Listing
BY ListingInit, ListingStep, PTL DEF Spec

\* Every enumeration with fdt_next_child answers nodes in document order, each
\* once, on any blob; and when it is over, in a well-formed tree that fits
\* FDT_MAX_DEPTH, it has answered the children of the node and nothing else.
THEOREM ChildrenAreListed == Spec => []ChildrenInOrder
BY ListingInvariant, ListingOrdered, PTL

-----------------------------------------------------------------------------
\* The search for a compatible string.

\* What the search has established when it is at a node, when it looks for
\* the next sibling of one, and when it is over: the stack leads from the root
\* to the node, and no match has been passed.
Searching ==
    /\ Blob
    /\ pc \in {"idle", "list"} => result = 0
    /\ (WellFormed /\ Shallow) =>
         /\ pc = "visit" => Path(stack) /\ \A m \in TreeMatches(want) : Top(stack) <= m
         /\ pc = "climb" => Path(stack) /\ \A m \in TreeMatches(want) : Close(Top(stack)) < m
         /\ (pc = "found" \/ (pc = "done" /\ result # 0)) =>
              result = IF TreeMatches(want) = {} THEN Err ELSE Min(TreeMatches(want))

\* The three ways a step of the search leaves it.
LEMMA ToVisit ==
    ASSUME Blob, tree' = tree, pc' = "visit", NEW s, stack' = s, NEW w, want' = w,
           (WellFormed /\ Shallow) => Path(s) /\ \A m \in TreeMatches(w) : Top(s) <= m
    PROVE  Searching'
<1>1. /\ (Blob' <=> Blob) /\ (WellFormed' <=> WellFormed) /\ (Shallow' <=> Shallow)
      /\ Nodes' = Nodes /\ TreeMatches(w)' = TreeMatches(w)
      /\ \A n : Level(n)' = Level(n) /\ TreeChildren(n)' = TreeChildren(n)
  BY SameTree, Zenon
<1>2. TreeMatches(want)' = TreeMatches(w)
  BY <1>1, Zenon
<1>3. Path(s) => Path(stack)'
  BY <1>1, Zenon DEF Path
<1>4. QED
  BY <1>1, <1>2, <1>3, Zenon DEF Searching

LEMMA ToClimb ==
    ASSUME Blob, tree' = tree, pc' = "climb", NEW s, stack' = s, NEW w, want' = w,
           (WellFormed /\ Shallow) => Path(s) /\ \A m \in TreeMatches(w) : Close(Top(s)) < m
    PROVE  Searching'
<1>1. /\ (Blob' <=> Blob) /\ (WellFormed' <=> WellFormed) /\ (Shallow' <=> Shallow)
      /\ Nodes' = Nodes /\ TreeMatches(w)' = TreeMatches(w)
      /\ \A n : Level(n)' = Level(n) /\ TreeChildren(n)' = TreeChildren(n) /\ Close(n)' = Close(n)
  BY SameTree, Zenon
<1>2. TreeMatches(want)' = TreeMatches(w) /\ Close(Top(stack))' = Close(Top(s))
  BY <1>1, Zenon
<1>3. Path(s) => Path(stack)'
  BY <1>1, Zenon DEF Path
<1>4. QED
  BY <1>1, <1>2, <1>3, Zenon DEF Searching

LEMMA ToAnswer ==
    ASSUME Blob, tree' = tree, pc' \in {"done", "found"}, NEW r, result' = r, NEW w, want' = w,
           (WellFormed /\ Shallow) =>
               r = IF TreeMatches(w) = {} THEN Err ELSE Min(TreeMatches(w))
    PROVE  Searching'
<1>1. /\ (Blob' <=> Blob) /\ (WellFormed' <=> WellFormed) /\ (Shallow' <=> Shallow)
      /\ TreeMatches(w)' = TreeMatches(w)
  BY SameTree, Zenon
<1>2. TreeMatches(want)' = TreeMatches(w)
  BY <1>1, Zenon
<1>3. pc' # "visit" /\ pc' # "climb" /\ pc' # "idle" /\ pc' # "list"
  BY Zenon
<1>4. QED
  BY <1>1, <1>2, <1>3, Zenon DEF Searching

LEMMA SearchingQuiet ==
    ASSUME Searching, tree' = tree, result' = result, want' = want,
           \/ pc' = pc /\ stack' = stack
           \/ result = 0 /\ pc' \in {"list", "done"}
           \/ pc = "found" /\ pc' = "done"
    PROVE  Searching'
<1>1. /\ (Blob' <=> Blob) /\ (WellFormed' <=> WellFormed) /\ (Shallow' <=> Shallow)
      /\ Nodes' = Nodes /\ TreeMatches(want)' = TreeMatches(want)
      /\ \A n : Level(n)' = Level(n) /\ TreeChildren(n)' = TreeChildren(n) /\ Close(n)' = Close(n)
  BY SameTree, Zenon
<1>2. CASE pc' = pc /\ stack' = stack
  <2>1. Path(stack) => Path(stack)'
    BY <1>1, <1>2, Zenon DEF Path
  <2>2. Close(Top(stack))' = Close(Top(stack))
    BY <1>1, <1>2, Zenon
  <2>3. QED
    BY <1>1, <1>2, <2>1, <2>2, Zenon DEF Searching
<1>3. CASE result = 0 /\ pc' \in {"list", "done"}
  BY <1>1, <1>3, Zenon DEF Searching
<1>4. CASE pc = "found" /\ pc' = "done"
  BY <1>1, <1>4, Zenon DEF Searching
<1>5. QED
  BY <1>2, <1>3, <1>4, Zenon

\* The call of the search.
LEMMA SearchCall ==
    ASSUME Blob, tree' = tree, NEW w, Search(w)
    PROVE  Searching'
<1>1. want' = w
  BY Zenon DEF Search
<1>2. CASE IsNode(1) /\ pc' = "visit" /\ stack' = <<1>>
  <2>1. ASSUME WellFormed PROVE Path(<<1>>) /\ \A m \in TreeMatches(w) : Top(<<1>>) <= m
    <3>1. 1 \in Nodes /\ Level(1) = 0
      BY <2>1, Places, Zenon DEF WellFormed
    <3>2. Path(<<1>>)
      <4>1. /\ <<1>> \in Seq(Nat) /\ Len(<<1>>) >= 1 /\ <<1>>[1] = 1
            /\ \A k \in 1 .. Len(<<1>>) : k = 1
            /\ \A k \in 1 .. Len(<<1>>) - 1 : FALSE
            /\ 1 - 1 = 0
        OBVIOUS
      <4>2. QED
        BY <3>1, <4>1, Zenon DEF Path
    <3>3. Top(<<1>>) = 1
      BY DEF Top
    <3>4. \A m \in TreeMatches(w) : m \in Nat /\ m >= 1
      BY <2>1, Places, Zenon DEF TreeMatches
    <3>5. \A m \in Nat : m >= 1 => 1 <= m
      BY SMT
    <3>6. QED
      BY <3>2, <3>3, <3>4, <3>5, Zenon
  <2>2. QED
    BY <1>1, <1>2, <2>1, ToVisit, Zenon
<1>3. CASE ~IsNode(1) /\ Return(Err)
  <2>1. ~WellFormed
    BY <1>3, Zenon DEF WellFormed, IsNode, Inside, Nodes
  <2>2. pc' \in {"done", "found"}
    BY <1>3, Zenon DEF Return
  <2>3. QED
    BY <1>1, <2>1, <2>2, ToAnswer, Zenon
<1>4. QED
  BY <1>2, <1>3, Zenon DEF Search

\* One iteration of the outer loop.
LEMMA SearchVisit ==
    ASSUME Searching, Visit
    PROVE  Searching'
<1> DEFINE cur == Top(stack)
           ch == FirstChild(cur)
           hits == TreeMatches(want)
<1>1. /\ pc = "visit" /\ tree' = tree /\ want' = want
      /\ \/ /\ Matches(cur, want)
            /\ Return(cur)
         \/ /\ ~Matches(cur, want) /\ ch # Err /\ Len(stack) < MaxDepth
            /\ stack' = Append(stack, ch)
            /\ pc' = pc /\ result' = result
         \/ /\ ~Matches(cur, want) /\ ch # Err /\ Len(stack) >= MaxDepth
            /\ IF Len(stack) = 1 THEN Return(Err)
               ELSE stack' = Pop(stack) /\ pc' = pc /\ result' = result
         \/ /\ ~Matches(cur, want) /\ ch = Err
            /\ pc' = "climb"
            /\ stack' = stack /\ result' = result
  BY Zenon DEF Visit, tree
<1>2. Blob
  BY Zenon DEF Searching
<1> DEFINE good == WellFormed /\ Shallow
<1>3. ASSUME good
      PROVE  /\ Path(stack) /\ \A m \in hits : cur <= m /\ m \in Nodes /\ m \in Nat
             /\ cur \in Nodes /\ cur \in Nat /\ Len(stack) \in Nat \ {0}
             /\ Level(cur) = Len(stack) - 1
             /\ Close(cur) \in Nat /\ cur < Close(cur)
             /\ Matches(cur, want) <=> cur \in hits
  <2>1. Path(stack) /\ \A m \in hits : cur <= m
    BY <1>1, <1>3, Zenon DEF Searching
  <2>2. \A m \in hits : m \in Nodes
    BY Zenon DEF TreeMatches
  <2>3. /\ cur \in Nodes /\ cur \in Nat /\ Len(stack) \in Nat \ {0}
        /\ Level(cur) = Len(stack) - 1
    BY <1>2, <1>3, <2>1, PathEnd, Zenon
  <2>4. Close(cur) \in Nat /\ cur < Close(cur)
    BY <1>2, <1>3, <2>3, CloseIs, Places, Zenon
  <2>5. QED
    BY <1>2, <1>3, <2>1, <2>2, <2>3, <2>4, MatchesIs, Places, Zenon
\* Every later match inside the node lies at or behind a child of it.
<1>4. ASSUME good, ~Matches(cur, want), NEW m \in hits
      PROVE  \/ Close(cur) < m
             \/ \E c \in TreeChildren(cur) : c <= m
  <2>1. m # cur
    BY <1>3, <1>4, Zenon
  <2>2. /\ cur <= m /\ m \in Nodes /\ m \in Nat /\ cur \in Nodes /\ cur \in Nat
        /\ Close(cur) \in Nat /\ cur < Close(cur) /\ Close(cur) \in Ends /\ m \notin Ends
    BY <1>2, <1>3, <1>4, CloseIs, Places, Zenon
  <2>3. m # Close(cur)
    BY <2>2, Zenon
  <2>4. cur + 1 <= m /\ cur + 1 \in cur + 1 .. Close(cur)
    BY <2>1, <2>2
  <2>5. CASE Close(cur) < m
    BY <2>5, Zenon
  <2>6. CASE ~(Close(cur) < m)
    <3>1. m < Close(cur)
      BY <2>2, <2>3, <2>6
    <3>2. Level(cur + 1) = Level(cur) + 1
      <4>1. cur \in DOMAIN blob
        BY <1>2, <1>4, <2>2, Places, Zenon
      <4>2. QED
        BY <1>2, <2>2, <4>1, LevelSteps, Zenon
    <3>3. QED
      BY <1>2, <1>4, <2>2, <2>4, <3>1, <3>2, ChildAfter, Zenon
  <2>7. QED
    BY <2>5, <2>6, Zenon
<1>5. ASSUME good
      PROVE  /\ TreeChildren(cur) = {} => ch = Err
             /\ TreeChildren(cur) # {} => /\ ch \in TreeChildren(cur)
                                          /\ \A c \in TreeChildren(cur) : ch <= c /\ c \in Nat
                                          /\ Level(ch) < MaxDepth /\ Level(ch) = Level(cur) + 1
                                          /\ ch < Close(cur) /\ ch \in Nat
  <2>1. /\ TreeChildren(cur) = {} => ch = Err
        /\ TreeChildren(cur) # {} => /\ ch \in TreeChildren(cur)
                                     /\ \A c \in TreeChildren(cur) : ch <= c
    BY <1>2, <1>3, <1>5, FirstChildIs, Zenon
  <2>2. \A c \in TreeChildren(cur) : /\ c \in Nodes /\ c \in Nat /\ Level(c) = Level(cur) + 1
                                     /\ c < Close(cur)
    BY <1>2, <1>3, <1>5, ChildInside, Zenon DEF TreeChildren
  <2>3. QED
    BY <1>5, <2>1, <2>2, Zenon DEF Shallow
<1>6. good => (ch # Err <=> TreeChildren(cur) # {})
  <2> SUFFICES ASSUME good PROVE ch # Err <=> TreeChildren(cur) # {}
    BY Zenon
  <2>1. \A x \in Nat : x # Err
    BY SMT DEF Err
  <2>2. QED
    BY <1>5, <2>1, Zenon
<1> HIDE DEF cur, ch, hits, good
<1>7. CASE Matches(cur, want) /\ Return(cur)
  <2>1. pc' \in {"done", "found"} /\ result' = cur
    BY <1>7, Zenon DEF Return
  <2>2. good => hits # {} /\ Min(hits) = cur
    <3> SUFFICES ASSUME good PROVE hits # {} /\ Min(hits) = cur
      BY Zenon
    <3>1. cur \in hits /\ \A m \in hits : cur <= m /\ m \in Nat
      BY <1>3, <1>7, Zenon
    <3>2. \A m \in Nat : m \in Int
      BY SMT
    <3>3. QED
      BY <3>1, <3>2, MinIs, Zenon
  <2>3. QED
    BY <1>1, <1>2, <2>1, <2>2, ToAnswer, Zenon DEF hits, good
<1>8. CASE ~Matches(cur, want) /\ ch # Err /\ Len(stack) < MaxDepth
           /\ stack' = Append(stack, ch) /\ pc' = pc
  <2>1. ASSUME good
        PROVE  Path(Append(stack, ch)) /\ \A m \in hits : Top(Append(stack, ch)) <= m
    <3>1. ch \in TreeChildren(cur) /\ ch \in Nat /\ ch < Close(cur)
      BY <1>5, <1>6, <1>8, <2>1, Zenon
    <3>2. Path(Append(stack, ch)) /\ Top(Append(stack, ch)) = ch
      BY <1>2, <1>3, <2>1, <3>1, PathPush, Zenon DEF cur, good
    <3>3. ASSUME NEW m \in hits PROVE ch <= m
      <4>1. m \in Nat /\ Close(cur) \in Nat
        BY <1>3, <2>1, Zenon
      <4>2. Close(cur) < m \/ \E c \in TreeChildren(cur) : c <= m /\ ch <= c /\ c \in Nat
        BY <1>4, <1>5, <1>6, <1>8, <2>1, Zenon
      <4>3. \A a, c, d, x \in Nat : (c <= x /\ a <= c => a <= x) /\ (a < d /\ d < x => a <= x)
        BY SMT
      <4>4. QED
        BY <3>1, <4>1, <4>2, <4>3, Zenon
    <3>4. QED
      BY <3>2, <3>3, Zenon
  <2>2. QED
    BY <1>1, <1>2, <1>8, <2>1, ToVisit, Zenon DEF hits, good
<1>9. CASE ~Matches(cur, want) /\ ch # Err /\ Len(stack) >= MaxDepth
           /\ IF Len(stack) = 1 THEN Return(Err)
              ELSE stack' = Pop(stack) /\ pc' = pc /\ result' = result
  <2>1. ~good
    <3> SUFFICES ASSUME good PROVE FALSE
      BY Zenon
    <3>1. Len(stack) \in Nat /\ Level(cur) = Len(stack) - 1 /\ Level(ch) < MaxDepth /\ Level(ch) = Level(cur) + 1
      BY <1>3, <1>5, <1>6, <1>9, Zenon
    <3>2. MaxDepth \in Nat
      BY FdtAssumption, Zenon
    <3>3. \A l, d \in Nat : ~(l - 1 + 1 < d /\ l >= d)
      BY SMT
    <3>4. QED
      BY <1>9, <3>1, <3>2, <3>3, Zenon
  <2>2. CASE Return(Err)
    <3>1. pc' \in {"done", "found"} /\ result' = Err
      BY <2>2, Zenon DEF Return
    <3>2. QED
      BY <1>1, <1>2, <2>1, <3>1, ToAnswer, Zenon DEF good
  <2>3. CASE stack' = Pop(stack) /\ pc' = pc
    BY <1>1, <1>2, <2>1, <2>3, ToVisit, Zenon DEF good
  <2>4. QED
    BY <1>9, <2>2, <2>3, Zenon
<1>10. CASE ~Matches(cur, want) /\ ch = Err /\ pc' = "climb" /\ stack' = stack
  <2>1. ASSUME good PROVE Path(stack) /\ \A m \in hits : Close(Top(stack)) < m
    BY <1>3, <1>4, <1>6, <1>10, <2>1, Zenon DEF cur
  <2>2. QED
    BY <1>1, <1>2, <1>10, <2>1, ToClimb, Zenon DEF hits, good
<1>11. QED
  BY <1>1, <1>7, <1>8, <1>9, <1>10, Zenon

\* One iteration of the inner loop.
LEMMA SearchClimb ==
    ASSUME Searching, Climb
    PROVE  Searching'
<1> DEFINE top == Len(stack)
           t == stack[top]
           p == stack[top - 1]
           sib == IF top = 1 THEN Err ELSE NextSibling(p, t)
           hits == TreeMatches(want)
           good == WellFormed /\ Shallow
           later == {c \in TreeChildren(p) : t < c}
<1>1. /\ pc = "climb" /\ tree' = tree /\ want' = want
      /\ \/ top = 1 /\ Return(Err)
         \/ /\ top > 1 /\ sib # Err
            /\ stack' = [stack EXCEPT ![top] = sib] /\ pc' = "visit"
         \/ /\ top > 1 /\ sib = Err
            /\ stack' = Pop(stack) /\ pc' = pc
  BY Zenon DEF Climb, tree
<1>2. Blob
  BY Zenon DEF Searching
<1>3. ASSUME good
      PROVE  /\ Path(stack) /\ top \in Nat \ {0} /\ t = Top(stack) /\ t \in Nodes
             /\ \A m \in hits : Close(t) < m /\ m \in Nodes /\ m \in Nat
             /\ top > 1 => p \in Nodes /\ t \in TreeChildren(p)
             /\ top = 1 => t = 1
  <2>1. Path(stack) /\ \A m \in hits : Close(Top(stack)) < m
    BY <1>1, <1>3, Zenon DEF Searching
  <2>2. \A m \in hits : m \in Nodes
    BY Zenon DEF TreeMatches
  <2>3. /\ t = Top(stack) /\ t \in Nodes /\ top \in Nat \ {0}
        /\ top > 1 => p \in Nodes /\ t \in TreeChildren(p)
        /\ top = 1 => t = 1
    BY <1>2, <1>3, <2>1, PathEnd, Zenon
  <2>4. QED
    BY <1>2, <1>3, <2>1, <2>2, <2>3, Places, Zenon
<1>4. ASSUME good, top > 1
      PROVE  /\ p \in Nodes /\ t \in TreeChildren(p) /\ p \in Nat /\ t \in Nat
             /\ Close(t) \in Nat /\ Close(p) \in Nat /\ p < t /\ t < Close(t) /\ Close(t) < Close(p)
             /\ Close(p) \in Ends /\ Level(Close(t) + 1) = Level(p) + 1
             /\ top # 1
  <2>1. p \in Nodes /\ t \in TreeChildren(p) /\ top \in Nat
    BY <1>3, <1>4, Zenon
  <2>2. \A x \in Nat : x > 1 => x # 1
    BY SMT
  <2>3. QED
    BY <1>2, <1>4, <2>1, <2>2, ChildInside, CloseIs, Zenon
<1>5. ASSUME good, top > 1
      PROVE  IF later = {} THEN sib = Err
             ELSE sib \in later /\ \A c \in later : sib <= c
  BY <1>2, <1>4, <1>5, NextSiblingIs, Zenon
<1> HIDE DEF top, t, p, sib, hits
\* Every match inside the parent lies at or behind a later child of it.
<1>6. ASSUME good, top > 1, NEW m \in hits
      PROVE  Close(p) < m \/ \E c \in later : c <= m /\ c \in Nat
  <2>1. /\ p \in Nodes /\ p \in Nat /\ t \in Nat /\ Close(t) \in Nat /\ Close(p) \in Nat
        /\ p < t /\ t < Close(t) /\ Close(t) < Close(p)
        /\ Close(p) \in Ends /\ Level(Close(t) + 1) = Level(p) + 1
        /\ Close(t) < m /\ m \in Nodes /\ m \in Nat
    BY <1>3, <1>4, <1>6, Zenon
  <2>2. m # Close(p)
    BY <1>2, <1>6, <2>1, Places, Zenon
  <2>3. /\ \A a, b, c, d \in Nat : a < b /\ b < c /\ c < d => c + 1 \in a + 1 .. d
        /\ \A b, c, y \in Nat : b < c /\ c + 1 <= y => b < y
        /\ \A c, x \in Nat : c < x => c + 1 <= x
        /\ \A d, x \in Nat : x # d => x < d \/ d < x
    BY SMT
  <2>4. /\ Close(t) + 1 \in p + 1 .. Close(p) /\ Close(t) + 1 <= m
        /\ m < Close(p) \/ Close(p) < m
        /\ \A y \in Nat : Close(t) + 1 <= y => t < y
    <3>1. Close(t) + 1 \in p + 1 .. Close(p)
      BY <2>1, <2>3, Zenon
    <3>2. Close(t) + 1 <= m
      BY <2>1, <2>3, Zenon
    <3>3. m < Close(p) \/ Close(p) < m
      BY <2>1, <2>2, <2>3, Zenon
    <3>4. \A y \in Nat : Close(t) + 1 <= y => t < y
      BY <2>1, <2>3, Zenon
    <3>5. QED
      BY <3>1, <3>2, <3>3, <3>4, Zenon
  <2>5. CASE m < Close(p)
    <3>1. \E c \in TreeChildren(p) : Close(t) + 1 <= c /\ c <= m
      BY <1>2, <1>6, <2>1, <2>4, <2>5, ChildAfter, Zenon
    <3>2. \A c \in TreeChildren(p) : c \in Nat
      BY <1>2, <1>6, <2>1, ChildInside, Zenon
    <3>3. QED
      BY <2>4, <3>1, <3>2, Zenon
  <2>6. QED
    BY <2>4, <2>5, Zenon
<1> HIDE DEF good, later
<1>7. CASE top = 1 /\ Return(Err)
  <2>1. pc' \in {"done", "found"} /\ result' = Err
    BY <1>7, Zenon DEF Return
  <2>2. good => hits = {}
    BY <1>2, <1>3, <1>7, RootCloses, Zenon DEF good
  <2>3. QED
    BY <1>1, <1>2, <2>1, <2>2, ToAnswer, Zenon DEF hits, good
<1>8. CASE top > 1 /\ sib # Err /\ stack' = [stack EXCEPT ![top] = sib] /\ pc' = "visit"
  <2>1. ASSUME good
        PROVE  /\ Path([stack EXCEPT ![top] = sib])
               /\ \A m \in hits : Top([stack EXCEPT ![top] = sib]) <= m
    <3>1. sib \in later /\ \A c \in later : sib <= c
      BY <1>5, <1>8, <2>1, Zenon
    <3>2. sib \in TreeChildren(p)
      BY <3>1, Zenon DEF later
    <3>3. /\ Path([stack EXCEPT ![top] = sib])
          /\ Top([stack EXCEPT ![top] = sib]) = sib
      BY <1>2, <1>3, <1>8, <2>1, <3>2, PathAside, Zenon DEF top, p, good
    <3>4. sib \in Nat /\ Close(p) \in Nat /\ sib < Close(p)
      BY <1>2, <1>4, <1>8, <2>1, <3>2, ChildInside, Zenon DEF good, TreeChildren
    <3>5. ASSUME NEW m \in hits PROVE sib <= m
      <4>1. Close(p) < m \/ \E c \in later : c <= m /\ c \in Nat /\ sib <= c
        BY <1>6, <1>8, <2>1, <3>1, Zenon
      <4>2. m \in Nat
        BY <1>3, <2>1, Zenon
      <4>3. \A a, c, d, x \in Nat : (c <= x /\ a <= c => a <= x) /\ (a < d /\ d < x => a <= x)
        BY SMT
      <4>4. QED
        BY <3>4, <4>1, <4>2, <4>3, Zenon
    <3>6. QED
      BY <3>3, <3>5, Zenon
  <2>2. QED
    BY <1>1, <1>2, <1>8, <2>1, ToVisit, Zenon DEF hits, good
<1>9. CASE top > 1 /\ sib = Err /\ stack' = Pop(stack) /\ pc' = pc
  <2>1. ASSUME good PROVE Path(Pop(stack)) /\ \A m \in hits : Close(Top(Pop(stack))) < m
    <3>1. Path(Pop(stack)) /\ Top(Pop(stack)) = p
      BY <1>2, <1>3, <1>9, <2>1, PathPop, Zenon DEF top, p, good
    <3>2. later = {}
      <4> SUFFICES ASSUME later # {} PROVE FALSE
        BY Zenon
      <4>1. Err \in TreeChildren(p)
        BY <1>5, <1>9, <2>1, Zenon DEF later
      <4>2. Err \in Nat
        BY <1>2, <1>4, <1>9, <2>1, <4>1, ChildInside, Zenon DEF good
      <4>3. Err \notin Nat
        BY SMT DEF Err
      <4>4. QED
        BY <4>2, <4>3, Zenon
    <3>3. QED
      BY <1>6, <1>9, <2>1, <3>1, <3>2, Zenon
  <2>2. QED
    BY <1>1, <1>2, <1>9, <2>1, ToClimb, Zenon DEF hits, good
<1>10. QED
  BY <1>1, <1>7, <1>8, <1>9, Zenon

LEMMA SearchingStep ==
    ASSUME Searching, [Next]_vars
    PROVE  Searching'
<1>0. Blob
  BY Zenon DEF Searching
<1>1. ASSUME NEW n \in {i \in DOMAIN blob : blob[i].tok = "BEGIN_NODE"}, StartList(n)
      PROVE  Searching'
  <2>1. pc = "idle" /\ pc' = "list" /\ tree' = tree /\ result' = result /\ want' = want
    BY <1>1, Zenon DEF StartList, tree
  <2>2. QED
    BY <2>1, SearchingQuiet, Zenon DEF Searching
<1>2. CASE CallNextChild
  <2>1. /\ pc = "list" /\ tree' = tree /\ result' = result /\ want' = want
        /\ pc' \in {"list", "done"}
    BY <1>2, Zenon DEF CallNextChild, tree
  <2>2. QED
    BY <2>1, SearchingQuiet, Zenon DEF Searching
<1>3. CASE StartSearch
  BY <1>0, <1>3, SearchCall, Zenon DEF StartSearch, tree
<1>4. CASE StartSerialInit
  <2>1. tree' = tree /\ pc = "idle"
    BY <1>4, Zenon DEF StartSerialInit, tree
  <2>2. \/ pc' = "done" /\ want' = want /\ result' = result
        \/ Search(Cdns)
    BY <1>4, Zenon DEF StartSerialInit
  <2>3. QED
    BY <1>0, <2>1, <2>2, SearchCall, SearchingQuiet, Zenon DEF Searching
<1>5. CASE Found
  <2>1. tree' = tree /\ pc = "found"
    BY <1>5, Zenon DEF Found, tree
  <2>2. \/ pc' = "done" /\ want' = want /\ result' = result
        \/ \E w \in {Zynqmp, Pl011} : Search(w)
    BY <1>5, Zenon DEF Found
  <2>3. QED
    BY <1>0, <2>1, <2>2, SearchCall, SearchingQuiet, Zenon
<1>6. CASE Visit
  BY <1>6, SearchVisit, Zenon
<1>7. CASE Climb
  BY <1>7, SearchClimb, Zenon
<1>8. CASE UNCHANGED vars
  BY <1>8, SearchingQuiet, Zenon DEF vars, tree
<1>9. CASE Finished
  BY <1>9, SearchingQuiet, Zenon DEF Finished, vars, tree
<1>10. QED
  BY <1>1, <1>2, <1>3, <1>4, <1>5, <1>6, <1>7, <1>8, <1>9, Zenon DEF Next

\* In every reachable state the stack of fdt_node_by_compatible is a path from
\* the root to the node it is at, and no node it has passed matches.
THEOREM SearchInvariant == Spec => []Searching
<1>1. Init => Searching
  <2> SUFFICES ASSUME Init PROVE Searching
    BY Zenon
  <2>1. PICK c \in Cases : header = c.header /\ blob = c.items
    BY Zenon DEF Init
  <2>2. Blob
    BY <2>1, CasesAssumption, Zenon DEF Blob
  <2>3. pc = "idle" /\ result = 0
    BY Zenon DEF Init
  <2>4. QED
    BY <2>2, <2>3, Zenon DEF Searching
<1>2. Searching /\ [Next]_vars => Searching'
  BY SearchingStep, Zenon
<1>3. QED
  BY <1>1, <1>2, PTL DEF Spec

\* fdt_node_by_compatible answers the first node in document order that is
\* compatible with the wanted string, and "not found" only when there is none,
\* in every well-formed tree no deeper than FDT_MAX_DEPTH.
THEOREM SearchFindsTheFirst == Spec => []SearchFindsFirst
<1>1. Searching => SearchFindsFirst
  BY Zenon DEF Searching, SearchFindsFirst
<1>2. QED
  BY <1>1, SearchInvariant, PTL

-----------------------------------------------------------------------------
\* Memory ranges.

\* The entries read with two widths are ranges.
LEMMA EntriesType ==
    ASSUME NEW v \in Seq(Word), NEW ac \in Nat \ {0}, NEW sc \in Nat
    PROVE  LET s == [k \in 1 .. Len(v) \div (ac + sc) |-> RegEntry(v, ac, sc, k - 1)]
           IN  /\ s \in Seq(MemRange) /\ Len(s) = Len(v) \div (ac + sc)
               /\ DOMAIN s = 1 .. Len(s)
<1> DEFINE e == ac + sc
           m == Len(v) \div e
           V(k) == RegEntry(v, ac, sc, k - 1)
<1>1. Len(v) \in Nat /\ e \in Nat \ {0} /\ m \in Nat
  <2>1. Len(v) \in Nat /\ e \in Nat \ {0}
    OBVIOUS
  <2> HIDE DEF e
  <2>2. QED
    BY <2>1
<1>2. ASSUME NEW k \in 1 .. m PROVE V(k) \in MemRange
  <2> HIDE DEF e
  <2>1. k \in Nat /\ (k - 1) * e \in Nat /\ (k - 1) * e + e <= Len(v)
    BY <1>1, EntryInside, Zenon
  <2> DEFINE x == (k - 1) * e
  <2>2. V(k) = [base |-> RdCells(v, x + 1, ac),
                size |-> IF sc = 0 THEN 0 ELSE RdCells(v, x + ac + 1, sc)]
    BY Zenon DEF RegEntry, e
  <2>3. x \in Nat /\ x + (ac + sc) <= Len(v)
    BY <2>1, Zenon DEF e
  <2> HIDE DEF x, V
  <2>4. /\ x + 1 \in Nat \ {0} /\ x + 1 + ac - 1 <= Len(v)
        /\ sc # 0 => sc \in Nat \ {0} /\ x + ac + 1 \in Nat \ {0} /\ x + ac + 1 + sc - 1 <= Len(v)
    BY <1>1, <2>3
  <2>5. RdCells(v, x + 1, ac) \in Nat
    BY <2>4, RdCellsType, Zenon
  <2>6. sc # 0 => RdCells(v, x + ac + 1, sc) \in Nat
    BY <2>4, RdCellsType, Zenon
  <2>7. QED
    BY <2>2, <2>5, <2>6 DEF MemRange
<1> HIDE DEF m, V, MemRange
<1>3. [k \in 1 .. m |-> V(k)] \in Seq(MemRange) /\ Len([k \in 1 .. m |-> V(k)]) = m
  BY <1>1, <1>2
<1>4. QED
  BY <1>3, Zenon DEF m, V

LEMMA BankEntriesType ==
    ASSUME Blob, Words, NEW n \in Int
    PROVE  BankEntries(n) \in Seq(MemRange)
<1> DEFINE ac == ParentCells(n, "#address-cells")
           sc == ParentCells(n, "#size-cells")
           v == Value(n, "reg")
<1>1. CASE GetProp(n, "reg") = Err \/ ac = 0
  <2>1. BankEntries(n) = <<>>
    BY <1>1, Zenon DEF BankEntries
  <2>2. <<>> \in Seq(MemRange)
    OBVIOUS
  <2>3. QED
    BY <2>1, <2>2, Zenon
<1>2. CASE ~(GetProp(n, "reg") = Err \/ ac = 0)
  <2>1. {"#address-cells", "#size-cells"} \subseteq CellNames /\ "reg" \notin {"compatible", "status"}
    BY DEF CellNames
  <2>2. v \in Seq(Word) /\ ac \in Nat \ {0} /\ sc \in Nat
    BY <1>2, <2>1, ValueIs, ParentCellsType, Zenon
  <2>3. BankEntries(n) = [k \in 1 .. Len(v) \div (ac + sc) |-> RegEntry(v, ac, sc, k - 1)]
    BY <1>2, Zenon DEF BankEntries
  <2> HIDE DEF ac, sc, v
  <2>4. QED
    BY <2>2, <2>3, EntriesType, ZenonT(40)
<1>3. QED
  BY <1>1, <1>2, Zenon

\* One round of the loop of fdt_memory_ranges.
LEMMA BanksStep ==
    ASSUME Blob, Words, NEW ch \in Spots, NEW got \in Seq(MemRange)
    PROVE  Banks[ch][got] =
              IF ch = Err THEN got
              ELSE Banks[NextSibling(1, ch)][IF blob[ch].whole /\ blob[ch].name \in Memory
                                             THEN got \o BankEntries(ch) ELSE got]
<1> DEFINE S == Seq(MemRange)
           More(x, d) == IF blob[x].whole /\ blob[x].name \in Memory
                         THEN d \o BankEntries(x) ELSE d
           Body(f, x, d) == IF x = Err THEN d ELSE f[NextSibling(1, x)][More(x, d)]
           D == Spots \X S
           stop == {y \in D : y[1] = Err}
           val == [y \in D |-> y[2]]
           to == [y \in D |-> NextSibling(1, y[1])]
           nxt == [y \in D |-> More(y[1], y[2])]
           rank == [y \in D |-> Left(y[1])]
<1>1. ASSUME NEW x \in Spots, NEW d \in S
      PROVE  /\ <<x, d>> \in stop <=> x = Err
             /\ val[<<x, d>>] = d
             /\ to[<<x, d>>] = NextSibling(1, x)
             /\ nxt[<<x, d>>] = More(x, d)
             /\ rank[<<x, d>>] = Left(x)
  <2> HIDE DEF More, S
  <2>1. <<x, d>> \in D /\ <<x, d>>[1] = x /\ <<x, d>>[2] = d
    BY SMT
  <2> HIDE DEF D
  <2>2. QED
    BY <2>1, Zenon
<1> HIDE DEF stop, val, to, nxt, rank
<1>2. ASSUME NEW x \in Spots, NEW d \in S PROVE More(x, d) \in S
  <2>1. x \in Int
    BY SpotsAre, Zenon
  <2>2. BankEntries(x) \in Seq(MemRange)
    BY <2>1, BankEntriesType, Zenon
  <2>3. d \o BankEntries(x) \in Seq(MemRange)
    <3> HIDE DEF MemRange
    <3>1. QED
      BY <2>2
  <2>4. QED
    BY <2>3, Zenon
<1> HIDE DEF More
<1>3. \A x \in Spots : \A d \in S : rank[<<x, d>>] \in 0 .. Len(blob) + 1
  BY <1>1, SiblingSpot, Zenon
<1>4. ASSUME NEW x \in Spots, NEW d \in S, <<x, d>> \notin stop
      PROVE  /\ to[<<x, d>>] \in Spots /\ nxt[<<x, d>>] \in S
             /\ rank[<<to[<<x, d>>], nxt[<<x, d>>]>>] < rank[<<x, d>>]
  <2> DEFINE p == NextSibling(1, x)
             t == More(x, d)
  <2>1. p \in Spots /\ Left(p) < Left(x) /\ t \in S
    <3>1. x # Err
      BY <1>1, <1>4, Zenon
    <3>2. QED
      BY <1>2, <3>1, SiblingSpot, Zenon
  <2>2. to[<<x, d>>] = p /\ nxt[<<x, d>>] = t /\ rank[<<x, d>>] = Left(x)
    BY <1>1, Zenon
  <2> HIDE DEF p, t
  <2>3. rank[<<p, t>>] = Left(p)
    BY <1>1, <2>1, Zenon
  <2>4. QED
    BY <2>1, <2>2, <2>3, Zenon
<1>5. PICK g : Rounds2(g, Spots, S, stop, val, to, nxt)
  <2>1. Len(blob) + 1 \in Nat
    BY SpotsAre
  <2>2. \A x \in Spots : \A d \in S : <<x, d>> \notin stop =>
           /\ to[<<x, d>>] \in Spots /\ nxt[<<x, d>>] \in S
           /\ rank[<<to[<<x, d>>], nxt[<<x, d>>]>>] < rank[<<x, d>>]
    BY <1>4, Zenon
  <2> HIDE DEF S
  <2>3. QED
    BY <1>3, <2>1, <2>2, Rounds2Exist, ZenonT(40)
<1>6. g = [x \in Spots |-> [d \in S |-> Body(g, x, d)]]
  <2>1. g = [x \in Spots |-> [d \in S |-> IF <<x, d>> \in stop THEN val[<<x, d>>]
                                           ELSE g[to[<<x, d>>]][nxt[<<x, d>>]]]]
    BY <1>5, Zenon DEF Rounds2
  <2>2. ASSUME NEW x \in Spots, NEW d \in S
        PROVE  (IF <<x, d>> \in stop THEN val[<<x, d>>] ELSE g[to[<<x, d>>]][nxt[<<x, d>>]])
                  = Body(g, x, d)
    BY <1>1, Zenon
  <2> HIDE DEF Body
  <2>3. ASSUME NEW x \in Spots
        PROVE  [d \in S |-> IF <<x, d>> \in stop THEN val[<<x, d>>]
                              ELSE g[to[<<x, d>>]][nxt[<<x, d>>]]] = [d \in S |-> Body(g, x, d)]
    BY <2>2, Zenon
  <2>4. [x \in Spots |-> [d \in S |-> IF <<x, d>> \in stop THEN val[<<x, d>>]
                                       ELSE g[to[<<x, d>>]][nxt[<<x, d>>]]]]
           = [x \in Spots |-> [d \in S |-> Body(g, x, d)]]
    BY <2>3, Zenon
  <2>5. QED
    BY <2>1, <2>4, Zenon
<1>7. Banks = CHOOSE f : f = [x \in Spots |-> [d \in S |-> Body(f, x, d)]]
  BY Zenon DEF Banks, More
<1> HIDE DEF Body
<1>8. Banks = [x \in Spots |-> [d \in S |-> Body(Banks, x, d)]]
  BY <1>6, <1>7, Zenon
<1>9. Banks[ch] = [d \in S |-> Body(Banks, ch, d)]
  BY <1>8, ZenonT(40)
<1>10. Banks[ch][got] = Body(Banks, ch, got)
  BY <1>9, Zenon
<1>11. QED
  BY <1>10, Zenon DEF Body, More

\* What a memory node says, read as a tree.
LEMMA BankIs ==
    ASSUME Blob, Words, WellFormed, Shallow, NEW n \in Nodes
    PROVE  /\ BankEntries(n) = TreeEntries(n) /\ TreeEntries(n) \in Seq(MemRange)
           /\ DOMAIN TreeEntries(n) = 1 .. Len(TreeEntries(n)) /\ Len(TreeEntries(n)) \in Nat
<1> DEFINE ac == TreeCells(n, "#address-cells")
           sc == TreeCells(n, "#size-cells")
           regs == {p \in TreeProps(n) : blob[p].name = "reg"}
<1>1. ParentCells(n, "#address-cells") = ac /\ ParentCells(n, "#size-cells") = sc
  BY ParentCellsIs, Zenon DEF CellNames
<1>2. BankEntries(n) = TreeEntries(n)
  <2>1. CASE regs = {}
    <3>1. GetProp(n, "reg") = Err
      BY <2>1, GetPropIs, Zenon
    <3>2. BankEntries(n) = <<>> /\ TreeEntries(n) = <<>>
      BY <2>1, <3>1, Zenon DEF BankEntries, TreeEntries
    <3>3. QED
      BY <3>2, Zenon
  <2>2. CASE regs # {}
    <3>1. PICK p \in regs : TRUE
      BY <2>2, Zenon
    <3>2. GetProp(n, "reg") = p /\ p # Err
      BY <3>1, GetPropIs, Zenon
    <3>3. regs = {p}
      <4>1. \A y \in TreeProps(n) : blob[y].name = "reg" => y = p
        BY <3>1, OneOfAName, Zenon
      <4>2. QED
        BY <3>1, <4>1, Zenon
    <3>4. Min(regs) = p
      <4>1. p \in Nat
        BY DEF TreeProps, Props, Blob
      <4>2. p \in regs /\ (\A y \in regs : y \in Int) /\ (\A y \in regs : p <= y)
        BY <3>1, <3>3, <4>1
      <4> HIDE DEF regs
      <4>3. QED
        BY <4>2, MinIs, Zenon
    <3>5. blob[Min(regs)].val = Value(n, "reg")
      BY <3>2, <3>4, Zenon DEF Value
    <3>6. CASE ac = 0
      <4>1. BankEntries(n) = <<>> /\ TreeEntries(n) = <<>>
        BY <1>1, <3>6, Zenon DEF BankEntries, TreeEntries
      <4>2. QED
        BY <4>1, Zenon
    <3>7. CASE ac # 0
      <4> DEFINE v == Value(n, "reg")
                 s == [k \in 1 .. Len(v) \div (ac + sc) |-> RegEntry(v, ac, sc, k - 1)]
      <4>1. BankEntries(n) = s
        BY <1>1, <3>2, <3>7, Zenon DEF BankEntries
      <4>2. TreeEntries(n) = s
        BY <2>2, <3>5, <3>7, Zenon DEF TreeEntries
      <4>3. QED
        BY <4>1, <4>2, Zenon
    <3>8. QED
      BY <3>6, <3>7, Zenon
  <2>3. QED
    BY <2>1, <2>2, Zenon
<1>3. BankEntries(n) \in Seq(MemRange)
  <2>1. n \in Nat
    BY Places, Zenon
  <2>2. n \in Int
    BY <2>1
  <2>3. QED
    BY <2>2, BankEntriesType, Zenon
<1>4. \A s \in Seq(MemRange) : DOMAIN s = 1 .. Len(s) /\ Len(s) \in Nat
  OBVIOUS
<1>5. QED
  BY <1>2, <1>3, <1>4, Zenon

\* The list holds what the memory nodes before item i say and nothing else,
\* each entry in its place.
Covers(got, i) ==
    /\ got \in Seq(MemRange) /\ Len(got) = TreePlace(i)
    /\ \A n \in TreeBanks : \A k \in DOMAIN TreeEntries(n) :
          n < i => /\ TreePlace(n) + k \in 1 .. Len(got)
                   /\ got[TreePlace(n) + k] = TreeEntries(n)[k]

\* It goes on to do so as far as no memory node follows.
LEMMA CoversOn ==
    ASSUME Blob, NEW got, NEW i \in 1 .. Len(blob), NEW j \in i .. Len(blob), Covers(got, i),
           \A n \in TreeBanks : n \in Nat /\ (n < j => n < i)
    PROVE  Covers(got, j)
<1> DEFINE Wrong == {k \in i .. j : TreePlace(k) # TreePlace(i)}
<1>1. Len(blob) \in Nat /\ DOMAIN blob = 1 .. Len(blob)
  BY Zenon DEF Blob
<1>2. Wrong = {}
  <2> SUFFICES ASSUME Wrong # {} PROVE FALSE
    BY Zenon
  <2>1. PICK k \in Wrong : \A y \in Wrong : k <= y
    <3>1. \A y \in Wrong : y \in Nat
      BY <1>1
    <3> HIDE DEF Wrong
    <3>2. QED
      BY <3>1, LeastExists, Zenon
  <2>2. k \in i .. j /\ TreePlace(k) # TreePlace(i) /\ k # i
    BY <2>1, Zenon
  <2>3. /\ k - 1 \in i .. j /\ k - 1 \in DOMAIN blob /\ k - 1 + 1 = k /\ ~(k <= k - 1)
        /\ k - 1 < j /\ ~(k - 1 < i)
    BY <1>1, <2>2
  <2>4. TreePlace(k - 1) = TreePlace(i)
    BY <2>1, <2>3, Zenon
  <2>5. k - 1 \notin TreeBanks
    BY <2>3, Zenon
  <2>6. Listed[k - 1] = 0
    BY <2>3, <2>5, Zenon DEF Listed
  <2>7. TreePlace(k) = TreePlace(k - 1) + 0
    BY <2>3, <2>6, SumSteps, Zenon DEF TreePlace
  <2>8. TreePlace(i) \in Nat
    <3>1. got \in Seq(MemRange) /\ Len(got) = TreePlace(i)
      BY Zenon DEF Covers
    <3> HIDE DEF MemRange
    <3>2. QED
      BY <3>1
  <2>9. QED
    BY <2>2, <2>4, <2>7, <2>8
<1>3. TreePlace(j) = TreePlace(i)
  <2>1. j \in i .. j
    BY <1>1
  <2>2. QED
    BY <1>2, <2>1, Zenon
<1>4. QED
  BY <1>3, Zenon DEF Covers

\* One child of the root more.
LEMMA OneBank ==
    ASSUME Blob, Words, WellFormed, Shallow, NEW c \in TreeChildren(1), NEW got, Covers(got, c)
    PROVE  Covers(IF blob[c].whole /\ blob[c].name \in Memory THEN got \o BankEntries(c) ELSE got,
                  c + 1)
<1>1. 1 \in Nodes /\ c \in Nodes /\ c \in Nat /\ c \in DOMAIN blob /\ blob[c].whole
  <2>1. 1 \in Nodes /\ c \in Nodes
    BY RootIsTop, ChildInside, Zenon
  <2>2. c \in Nat /\ c \in DOMAIN blob
    BY <2>1, Places, Zenon
  <2>3. QED
    BY <2>1, <2>2, Zenon DEF WellFormed
<1>2. \A n \in TreeBanks : n \in Nat
  BY Places, Zenon DEF TreeBanks, TreeChildren
<1>3. \A n \in TreeBanks : n < c + 1 => n < c \/ n = c
  BY <1>1, <1>2
<1>4. TreePlace(c + 1) = TreePlace(c) + Listed[c]
  BY <1>1, SumSteps, Zenon DEF TreePlace
<1> DEFINE g == Len(got)
<1>5. got \in Seq(MemRange) /\ g = TreePlace(c) /\ g \in Nat
  <2>1. got \in Seq(MemRange) /\ g = TreePlace(c)
    BY Zenon DEF Covers
  <2> HIDE DEF MemRange
  <2>2. QED
    BY <2>1
<1>6. CASE blob[c].name \notin Memory
  <2>1. c \notin TreeBanks
    BY <1>6, Zenon DEF TreeBanks
  <2>2. Listed[c] = 0
    BY <1>1, <2>1, Zenon DEF Listed
  <2>3. TreePlace(c + 1) = TreePlace(c)
    BY <1>4, <1>5, <2>2
  <2>4. Covers(got, c + 1)
    BY <1>3, <2>1, <2>3, Zenon DEF Covers
  <2>5. QED
    BY <1>6, <2>4, Zenon
<1>7. CASE blob[c].name \in Memory
  <2> DEFINE E == TreeEntries(c)
             e == Len(E)
             both == got \o E
  <2>1. c \in TreeBanks
    BY <1>7, Zenon DEF TreeBanks
  <2>2. BankEntries(c) = E /\ E \in Seq(MemRange) /\ DOMAIN E = 1 .. e /\ e \in Nat
    BY <1>1, BankIs, Zenon
  <2>3. Listed[c] = e
    BY <1>1, <2>1, Zenon DEF Listed
  <2> HIDE DEF E
  <2>4. /\ both \in Seq(MemRange) /\ Len(both) = g + e
        /\ \A i \in 1 .. g : both[i] = got[i]
        /\ \A k \in 1 .. e : both[g + k] = E[k]
    <3> HIDE DEF MemRange
    <3>1. QED
      BY <1>5, <2>2
  <2> HIDE DEF both, e, g
  <2>5. Len(both) = TreePlace(c + 1)
    BY <1>4, <1>5, <2>3, <2>4, Zenon
  <2>6. ASSUME NEW n \in TreeBanks, NEW k \in DOMAIN TreeEntries(n), n < c + 1
        PROVE  /\ TreePlace(n) + k \in 1 .. Len(both)
               /\ both[TreePlace(n) + k] = TreeEntries(n)[k]
    <3> DEFINE at == TreePlace(n) + k
    <3>1. CASE n < c
      <4>1. at \in 1 .. g /\ got[at] = TreeEntries(n)[k]
        BY <3>1, Zenon DEF Covers, g
      <4> HIDE DEF at
      <4>2. at \in 1 .. Len(both)
        BY <1>5, <2>2, <2>4, <4>1
      <4>3. QED
        BY <2>4, <4>1, <4>2, Zenon DEF at
    <3>2. CASE n = c
      <4>1. k \in 1 .. e /\ at = g + k /\ TreeEntries(n)[k] = E[k]
        BY <1>5, <2>2, <3>2, Zenon DEF E
      <4>2. g + k \in 1 .. Len(both)
        BY <1>5, <2>2, <2>4, <4>1
      <4>3. QED
        BY <2>4, <4>1, <4>2, Zenon
    <3>3. QED
      BY <1>3, <2>6, <3>1, <3>2, Zenon
  <2>7. Covers(both, c + 1)
    BY <2>4, <2>5, <2>6, Zenon DEF Covers
  <2>8. QED
    BY <1>1, <1>7, <2>2, <2>7, Zenon DEF both
<1>8. QED
  BY <1>6, <1>7, Zenon

\* From child ch of the root on, the loop adds what is left to add.
LEMMA BanksCover ==
    ASSUME Blob, Words, WellFormed, Shallow, NEW ch \in TreeChildren(1), NEW got, Covers(got, ch)
    PROVE  Covers(Banks[ch][got], Len(blob))
<1> DEFINE More(c, g) == IF blob[c].whole /\ blob[c].name \in Memory
                         THEN g \o BankEntries(c) ELSE g
           L == Len(blob)
           Right(c) == \A g : Covers(g, c) => Covers(Banks[c][g], L)
           Wrong == {k \in Nat : \E c \in TreeChildren(1) : Left(c) = k /\ ~Right(c)}
<1>0. 1 \in Nodes /\ L \in Nat
  BY RootIsTop, Places, Zenon
<1>1. ASSUME NEW c \in TreeChildren(1)
      PROVE  /\ c \in Nodes /\ c \in Nat /\ c >= 1 /\ c < L
             /\ c \in Spots /\ c # Err /\ Left(c) \in Nat
  <2>1. c \in Nodes
    BY Zenon DEF TreeChildren
  <2>2. c \in Nat /\ c \in DOMAIN blob /\ c >= 1 /\ c < L
    BY <2>1, Places, Zenon
  <2>3. c \in Spots /\ c # Err
    <3>1. c # Err
      BY <2>2 DEF Err
    <3>2. QED
      BY <2>2, <3>1, Zenon DEF Spots
  <2>4. Left(c) \in 0 .. Len(blob) + 1
    BY <2>3, SiblingSpot, Zenon
  <2>5. Left(c) \in Nat
    BY <2>4, SpotsAre
  <2>6. QED
    BY <2>1, <2>2, <2>3, <2>5, Zenon
<1>2. ASSUME NEW c \in TreeChildren(1), NEW g, Covers(g, c)
      PROVE  Covers(More(c, g), c + 1) /\ Banks[c][g] = Banks[NextSibling(1, c)][More(c, g)]
  <2>1. Covers(More(c, g), c + 1)
    BY <1>2, OneBank, Zenon
  <2>2. g \in Seq(MemRange) /\ c \in Spots /\ c # Err
    BY <1>1, <1>2, Zenon DEF Covers
  <2>3. Banks[c][g] = IF c = Err THEN g ELSE Banks[NextSibling(1, c)][More(c, g)]
    BY <2>2, BanksStep, Zenon
  <2>4. QED
    BY <2>1, <2>2, <2>3, Zenon
<1>3. \A g : Covers(g, L) => Banks[Err][g] = g
  <2> SUFFICES ASSUME NEW g, Covers(g, L) PROVE Banks[Err][g] = g
    BY Zenon
  <2>1. g \in Seq(MemRange) /\ Err \in Spots
    BY SpotsAre, Zenon DEF Covers
  <2>2. QED
    BY <2>1, BanksStep, Zenon
<1>4. \A n \in TreeBanks : n \in TreeChildren(1)
  BY Zenon DEF TreeBanks
<1> HIDE DEF More
<1>5. Wrong = {}
  <2> SUFFICES ASSUME Wrong # {} PROVE FALSE
    BY Zenon
  <2>1. PICK k \in Wrong : \A y \in Wrong : k <= y
    <3>1. \A y \in Wrong : y \in Nat
      BY Zenon
    <3> HIDE DEF Wrong
    <3>2. QED
      BY <3>1, LeastExists, Zenon
  <2>2. PICK c \in TreeChildren(1) : Left(c) = k /\ ~Right(c)
    BY <2>1, Zenon
  <2>3. c \in Nat /\ c \in Spots /\ c # Err /\ c < L /\ \A d \in TreeChildren(1) : d \in Nat
    BY <1>1, Zenon
  <2>4. PICK g : Covers(g, c) /\ ~Covers(Banks[c][g], L)
    BY <2>2, Zenon
  <2> DEFINE n == NextSibling(1, c)
             h == More(c, g)
             later == {d \in TreeChildren(1) : c < d}
  <2>5. Covers(h, c + 1) /\ Banks[c][g] = Banks[n][h]
    BY <1>2, <2>4, Zenon
  <2>6. IF later = {} THEN n = Err ELSE n \in later /\ \A d \in later : n <= d
    BY <1>0, NextSiblingIs, Zenon
  <2>7. Left(n) < Left(c)
    BY <2>3, SiblingSpot, Zenon
  <2> HIDE DEF n, h
  <2>8. \A a, b \in Nat : (a < c + 1 <=> ~(c < a)) /\ (a < b => ~(b <= a))
    BY <2>3
  <2>9. c + 1 \in 1 .. L /\ \A j \in Nat : (c < j /\ j <= L) => j \in c + 1 .. L
    BY <1>0, <2>3
  <2>10. CASE later = {}
    <3>1. \A d \in TreeBanks : d \in Nat /\ (d < L => d < c + 1)
      BY <1>4, <2>3, <2>8, <2>10, Zenon
    <3>2. L \in c + 1 .. L
      BY <1>0, <2>3
    <3>3. Covers(h, L)
      BY <2>5, <2>9, <3>1, <3>2, CoversOn, Zenon
    <3>4. n = Err
      BY <2>6, <2>10, Zenon
    <3>5. QED
      BY <1>3, <2>4, <2>5, <3>3, <3>4, Zenon
  <2>11. CASE later # {}
    <3>1. n \in TreeChildren(1) /\ c < n /\ \A d \in TreeChildren(1) : c < d => n <= d
      BY <2>6, <2>11, Zenon
    <3>2. n \in Nat /\ n < L /\ Left(n) \in Nat /\ Left(c) \in Nat
      BY <1>1, <3>1, Zenon
    <3>3. Right(n)
      <4>1. Left(n) \notin Wrong
        BY <2>1, <2>2, <2>7, <2>8, <3>2, Zenon
      <4> HIDE DEF Right
      <4>2. QED
        BY <3>1, <3>2, <4>1, Zenon
    <3>4. \A d \in TreeBanks : d \in Nat /\ (d < n => d < c + 1)
      BY <1>4, <2>3, <2>8, <3>1, <3>2, Zenon
    <3>5. n \in c + 1 .. L
      BY <1>0, <2>3, <3>1, <3>2
    <3>6. Covers(h, n)
      BY <2>5, <2>9, <3>4, <3>5, CoversOn, Zenon
    <3>7. QED
      BY <2>4, <2>5, <3>3, <3>6, Zenon
  <2>12. QED
    BY <2>10, <2>11, Zenon
<1>6. Right(ch)
  <2> HIDE DEF Right
  <2>1. QED
    BY <1>1, <1>5, Zenon
<1>7. QED
  BY <1>6, Zenon

\* fdt_memory_ranges before the caller's array cuts it short.
LEMMA AllBanks ==
    ASSUME Blob, Words, WellFormed, Shallow
    PROVE  Covers(Banks[IF IsNode(1) THEN FirstChild(1) ELSE Err][<<>>], Len(blob))
<1> DEFINE L == Len(blob)
<1>1. 1 \in Nodes /\ 1 \in DOMAIN blob /\ 1 \in Nat /\ L \in Nat /\ L >= 3
  BY RootIsTop, Places, Zenon
<1>2. IsNode(1)
  BY <1>1, Zenon DEF IsNode, Inside, Nodes, WellFormed
<1>3. \A n \in TreeChildren(1) : n \in Nat /\ n > 1 /\ n < L
  <2>1. \A n \in TreeChildren(1) : n \in Nodes /\ 1 < n
    BY Zenon DEF TreeChildren
  <2>2. \A n \in Nodes : n \in Nat /\ n < L
    BY Places, Zenon
  <2>3. QED
    BY <2>1, <2>2
<1>4. \A n \in TreeBanks : n \in TreeChildren(1) /\ n \in Nat /\ ~(n < 1)
  <2>1. \A n \in TreeBanks : n \in TreeChildren(1)
    BY Zenon DEF TreeBanks
  <2>2. \A n \in Nat : n > 1 => ~(n < 1)
    OBVIOUS
  <2>3. QED
    BY <1>3, <2>1, <2>2, Zenon
<1>5. <<>> \in Seq(MemRange) /\ Len(<<>>) = 0
  <2> HIDE DEF MemRange
  <2>1. QED
    OBVIOUS
<1>6. Covers(<<>>, 1)
  <2>1. TreePlace(1) = 0
    BY SumSteps, Zenon DEF TreePlace
  <2>2. QED
    BY <1>4, <1>5, <2>1, Zenon DEF Covers
<1>7. 1 \in 1 .. L /\ \A j \in Nat : (1 < j /\ j <= L) => j \in 1 .. L
  BY <1>1
<1>8. CASE TreeChildren(1) = {}
  <2>1. FirstChild(1) = Err
    BY <1>1, <1>8, FirstChildIs, Zenon
  <2>2. L \in 1 .. L
    BY <1>1
  <2>3. Covers(<<>>, L)
    BY <1>4, <1>6, <1>7, <1>8, <2>2, CoversOn, Zenon
  <2>4. Banks[Err][<<>>] = <<>>
    BY <1>5, SpotsAre, BanksStep, Zenon
  <2>5. QED
    BY <1>2, <2>1, <2>3, <2>4, Zenon
<1>9. CASE TreeChildren(1) # {}
  <2> DEFINE c == FirstChild(1)
  <2>1. c \in TreeChildren(1) /\ \A d \in TreeChildren(1) : c <= d
    BY <1>1, <1>9, FirstChildIs, Zenon
  <2> HIDE DEF c
  <2>2. c \in Nat /\ c \in 1 .. L
    BY <1>1, <1>3, <2>1
  <2>3. \A a, b \in Nat : a <= b => ~(b < a)
    OBVIOUS
  <2>4. \A n \in TreeBanks : n \in Nat /\ (n < c => n < 1)
    BY <1>4, <2>1, <2>2, <2>3, Zenon
  <2>5. Covers(<<>>, c)
    BY <1>6, <1>7, <2>2, <2>4, CoversOn, Zenon
  <2>6. Covers(Banks[c][<<>>], L)
    BY <2>1, <2>5, BanksCover, Zenon
  <2>7. QED
    BY <1>2, <2>6, Zenon DEF c
<1>10. QED
  BY <1>8, <1>9, Zenon

LEMMA MemoryIs ==
    ASSUME Blob, Words, WellFormed, Shallow, NEW max \in Nat
    PROVE  /\ Len(MemoryRanges(max)) = Min({TreePlace(Len(blob)), max})
           /\ \A n \in TreeBanks : \A k \in DOMAIN TreeEntries(n) :
                 TreePlace(n) + k <= max =>
                    MemoryRanges(max)[TreePlace(n) + k] = TreeEntries(n)[k]
<1> DEFINE all == Banks[IF IsNode(1) THEN FirstChild(1) ELSE Err][<<>>]
           len == Len(all)
           most == IF len < max THEN len ELSE max
           got == SubSeq(all, 1, most)
<1>1. Covers(all, Len(blob))
  BY AllBanks, Zenon
<1>2. MemoryRanges(max) = got
  BY Zenon DEF MemoryRanges, Upto
<1> HIDE DEF all
<1>3. all \in Seq(MemRange) /\ TreePlace(Len(blob)) = len
  BY <1>1, Zenon DEF Covers
<1>4. len \in Nat
  <2> HIDE DEF MemRange
  <2>1. QED
    BY <1>3
<1>5. most \in Nat /\ most <= len /\ most <= max /\ most \in {len, max}
  <2> HIDE DEF len
  <2>1. QED
    BY <1>4
<1>6. Len(got) = most /\ \A i \in 1 .. most : got[i] = all[i]
  <2> HIDE DEF most, MemRange
  <2>1. QED
    BY <1>3, <1>4, <1>5
<1>7. Min({len, max}) = most
  <2> DEFINE S == {len, max}
  <2>1. most \in S /\ (\A y \in S : y \in Int) /\ \A y \in S : most <= y
    <3> HIDE DEF most, len
    <3>1. QED
      BY <1>4, <1>5
  <2> HIDE DEF S, most
  <2>2. Min(S) = most
    BY <2>1, MinIs, Zenon
  <2>3. QED
    BY <2>2, Zenon DEF S
<1>8. ASSUME NEW n \in TreeBanks, NEW k \in DOMAIN TreeEntries(n), TreePlace(n) + k <= max
      PROVE  got[TreePlace(n) + k] = TreeEntries(n)[k]
  <2> DEFINE at == TreePlace(n) + k
  <2>0. n < Len(blob)
    BY Places, Zenon DEF TreeBanks, TreeChildren
  <2>1. at \in 1 .. len /\ all[at] = TreeEntries(n)[k]
    BY <1>1, <2>0, Zenon DEF Covers
  <2>2. at \in 1 .. most
    <3>1. at <= max
      BY <1>8, Zenon
    <3> HIDE DEF at, len
    <3>2. QED
      BY <1>4, <2>1, <3>1
  <2> HIDE DEF at, most, got
  <2>3. got[at] = all[at]
    BY <1>6, <2>2, Zenon
  <2>4. QED
    BY <2>1, <2>3, Zenon DEF at
<1> HIDE DEF got, most, len
<1>9. QED
  BY <1>2, <1>3, <1>6, <1>7, <1>8, Zenon

-----------------------------------------------------------------------------
\* The console.

\* serial_init's tests of what a search answered.
LEMMA UsableIs ==
    ASSUME Blob, Words, WellFormed, Shallow, NEW ns \in SUBSET Nodes,
           \A n \in ns : OnBuses(n) /\ \A st \in TreeStatus(n) : IsText(st) /\ ~Overlong(st),
           NEW r, r = IF ns = {} THEN Err ELSE Min(ns)
    PROVE  /\ Usable(r) <=> TreeUsable(ns)
           /\ TreeUsable(ns) => RegToCpuAddr(r, 0) = TreeAddress(Min(ns))
<1>1. CASE ns = {}
  BY <1>1, Zenon DEF Usable, TreeUsable
<1>2. CASE ns # {}
  <2>1. r = Min(ns) /\ r \in ns
    <3>1. \A y \in ns : y \in Nat
      BY Places, Zenon
    <3>2. QED
      BY <1>2, <3>1, MinLeast, Zenon
  <2>2. r \in Nodes /\ OnBuses(r) /\ \A st \in TreeStatus(r) : IsText(st) /\ ~Overlong(st)
    BY <2>1, Zenon
  <2>3. r # Err
    <3>1. r \in Nat
      BY <2>2, Places, Zenon
    <3>2. QED
      BY <3>1 DEF Err
  <2>4. RegToCpuAddr(r, 0) = TreeAddress(r)
    BY <2>2, RegIs, Zenon
  <2>5. IsEnabled(r) <=> TreeStatus(r) \subseteq Okay
    BY <2>2, EnabledIs, Zenon
  <2>6. QED
    BY <1>2, <2>1, <2>3, <2>4, <2>5, Zenon DEF Usable, TreeUsable
<1>3. QED
  BY <1>1, <1>2, Zenon

PlainUarts == PlacedUarts /\ PlainStatuses

\* The tree as serial_init reads it stays what it is.
LEMMA SameReading ==
    ASSUME tree' = tree
    PROVE  /\ (FdtValid(header, size))' <=> FdtValid(header, size)
           /\ Cadences' = Cadences
           /\ PlainUarts' <=> PlainUarts
           /\ TreeUsable(Cadences)' <=> TreeUsable(Cadences)
           /\ TreeConsole' = TreeConsole
<1>1. blob' = blob /\ header' = header /\ size' = size
  BY Zenon DEF tree
<1>2. /\ Nodes' = Nodes /\ \A w : TreeMatches(w)' = TreeMatches(w)
      /\ \A n : Level(n)' = Level(n) /\ Close(n)' = Close(n)
  BY SameTree, Zenon
<1>3. (CtxInit(header)' <=> CtxInit(header)) /\ (FdtValid(header, size)' <=> FdtValid(header, size))
  BY <1>1, Zenon DEF FdtValid, CtxInit
<1>4. \A n, name : GetProp(n, name)' = GetProp(n, name)
  <2> DEFINE Stops(b, n, name) ==
               {j \in n + 1 .. Len(b) :
                  ~ \/ b[j].tok = "NOP"
                    \/ /\ b[j].tok = "PROP"
                       /\ b[j].whole
                       /\ b[j].name \notin {name, NoString}}
             Answer(b, after, j, s, name) ==
               IF /\ after # Err
                  /\ s # {}
                  /\ b[j].tok = "PROP" /\ b[j].whole /\ b[j].name = name
               THEN j ELSE Err
  <2>1. \A n : AfterName(n)' = AfterName(n)
    BY <1>1, <1>3, Zenon DEF AfterName, IsNode, Inside
  <2>2. \A n, name : GetProp(n, name) =
           Answer(blob, AfterName(n), Min(Stops(blob, n, name)), Stops(blob, n, name), name)
    BY Zenon DEF GetProp
  <2>3. \A n, name : GetProp(n, name)' =
           Answer(blob', AfterName(n)', Min(Stops(blob', n, name)), Stops(blob', n, name), name)
    BY Zenon DEF GetProp
  <2> HIDE DEF Stops, Answer
  <2>4. QED
    BY <1>1, <2>1, <2>2, <2>3, Zenon
<1>5. \A n, name : Value(n, name)' = Value(n, name)
  BY <1>1, <1>4, Zenon DEF Value
<1>6. \A n, name : OwnCells(n, name)' = OwnCells(n, name)
  BY <1>4, <1>5, Zenon DEF OwnCells
<1>7. Props' = Props
  BY <1>1, Zenon DEF Props
<1>8. \A n : TreeAncestors(n)' = TreeAncestors(n) /\ TreeProps(n)' = TreeProps(n)
  BY <1>2, <1>7, Zenon DEF TreeAncestors, TreeProps
<1>9. \A n, name : TreeCells(n, name)' = TreeCells(n, name)
  BY <1>1, <1>2, <1>8, ZenonT(40) DEF TreeCells
<1>10. \A n : TreeAddress(n)' = TreeAddress(n)
  <2>1. \A b : TreeParent(b)' = TreeParent(b)
    BY <1>8, Zenon DEF TreeParent
  <2>2. \A b : (HasWindows(b)' <=> HasWindows(b)) /\ BusWindows(b)' = BusWindows(b)
    BY <1>4, <1>5, <1>6, <1>9, Zenon DEF HasWindows, BusWindows
  <2>3. \A b, x : Outward(b, x)' = Outward(b, x)
    BY <2>2, Zenon DEF Outward
  <2>4. AtRoot' = AtRoot
    BY <1>2, <2>1, <2>3, Zenon DEF AtRoot
  <2>5. QED
    BY <1>5, <1>9, <2>1, <2>4, Zenon DEF TreeAddress
<1>11. \A n : OnBuses(n)' <=> OnBuses(n)
  <2>1. \A b : (HasWindows(b)' <=> HasWindows(b)) /\ BusWindows(b)' = BusWindows(b)
    BY <1>4, <1>5, <1>6, <1>9, Zenon DEF HasWindows, BusWindows
  <2>2. \A b : PlainBus(b)' <=> PlainBus(b)
    BY <1>6, <1>9, <2>1, Zenon DEF PlainBus
  <2>3. QED
    BY <1>4, <1>5, <1>8, <1>9, <2>2, Zenon DEF OnBuses
<1>12. \A n : TreeStatus(n)' = TreeStatus(n)
  BY <1>1, <1>8, Zenon DEF TreeStatus
<1>13. \A ns : TreeUsable(ns)' <=> TreeUsable(ns)
  BY <1>10, <1>12, Zenon DEF TreeUsable
<1>14. Cadences' = Cadences
  BY <1>2, Zenon DEF Cadences
<1>15. PlainUarts' <=> PlainUarts
  BY <1>2, <1>11, <1>12, <1>14, Zenon DEF PlainUarts, PlacedUarts, PlainStatuses
<1>16. TreeUsable(Cadences)' <=> TreeUsable(Cadences)
  BY <1>13, <1>14, Zenon
<1>17. TreeConsole' = TreeConsole
  BY <1>2, <1>10, <1>13, <1>14, Zenon DEF TreeConsole
<1>18. QED
  BY <1>3, <1>14, <1>15, <1>16, <1>17, Zenon

\* What serial_init has established before it settles: the name it searches
\* for under is one it turns to only when the names before it came to nothing.
Choosing ==
    /\ pc = "idle" => caller = "none"
    /\ pc = "list" => caller = "list"
    /\ pc # "done" => uart = [base |-> DefaultBase, cadence |-> FALSE]
    /\ (/\ caller = "serial_init" /\ FdtValid(header, size)
        /\ WellFormed /\ Shallow /\ PlainUarts) =>
          IF pc = "done" THEN uart = TreeConsole
          ELSE /\ want \in {Cdns, Zynqmp, Pl011}
               /\ want = Zynqmp => TreeMatches(Cdns) = {}
               /\ want = Pl011 => ~TreeUsable(Cadences)

\* A step that leaves the choice alone.
LEMMA ChoosingQuiet ==
    ASSUME Choosing, tree' = tree, caller' = caller, want' = want, uart' = uart,
           pc' = pc \/ (pc \notin {"idle", "list", "done"} /\ pc' \notin {"idle", "list", "done"})
    PROVE  Choosing'
<1>1. /\ (WellFormed' <=> WellFormed) /\ (Shallow' <=> Shallow)
      /\ TreeMatches(Cdns)' = TreeMatches(Cdns)
  BY SameTree, Zenon
<1>2. /\ (FdtValid(header, size))' <=> FdtValid(header, size)
      /\ PlainUarts' <=> PlainUarts
      /\ TreeUsable(Cadences)' <=> TreeUsable(Cadences)
      /\ TreeConsole' = TreeConsole
  BY SameReading, Zenon
<1>3. QED
  BY <1>1, <1>2, Zenon DEF Choosing

\* A step that settles, or goes on to a search, as the tree asks for it.
LEMMA ChoosingTo ==
    ASSUME Choosing, tree' = tree, pc' \notin {"idle", "list"},
           pc' # "done" => uart' = [base |-> DefaultBase, cadence |-> FALSE],
           (/\ caller' = "serial_init" /\ FdtValid(header, size)
            /\ WellFormed /\ Shallow /\ PlainUarts) =>
              IF pc' = "done" THEN uart' = TreeConsole
              ELSE /\ want' \in {Cdns, Zynqmp, Pl011}
                   /\ want' = Zynqmp => TreeMatches(Cdns) = {}
                   /\ want' = Pl011 => ~TreeUsable(Cadences)
    PROVE  Choosing'
<1>1. /\ (WellFormed' <=> WellFormed) /\ (Shallow' <=> Shallow)
      /\ TreeMatches(Cdns)' = TreeMatches(Cdns)
  BY SameTree, Zenon
<1>2. /\ (FdtValid(header, size))' <=> FdtValid(header, size)
      /\ PlainUarts' <=> PlainUarts
      /\ TreeUsable(Cadences)' <=> TreeUsable(Cadences)
      /\ TreeConsole' = TreeConsole
  BY SameReading, Zenon
<1>3. QED
  BY <1>1, <1>2, Zenon DEF Choosing

\* serial_init is given the answer of a search.
LEMMA ChoosingFound ==
    ASSUME Choosing, Searching, Words, Found
    PROVE  Choosing'
<1>1. pc = "found" /\ tree' = tree /\ caller' = caller
  BY Zenon DEF Found, tree
<1>2. uart = [base |-> DefaultBase, cadence |-> FALSE]
  BY <1>1, Zenon DEF Choosing
<1>3. ASSUME caller = "serial_init"
      PROVE  \A w : Search(w) => want' = w /\ pc' \in {"visit", "found"}
  BY <1>1, <1>3, Zenon DEF Search, Return
<1> DEFINE Clear == /\ FdtValid(header, size) /\ WellFormed /\ Shallow /\ PlainUarts
           First(ns) == IF ns = {} THEN Err ELSE Min(ns)
<1>4. ASSUME caller = "serial_init", Clear
      PROVE  /\ want \in {Cdns, Zynqmp, Pl011} /\ result = First(TreeMatches(want))
             /\ want = Zynqmp => TreeMatches(Cdns) = {}
             /\ want = Pl011 => ~TreeUsable(Cadences)
  BY <1>1, <1>4, Zenon DEF Choosing, Searching
<1>5. ASSUME Clear, NEW ns \in {Cadences, TreeMatches(Pl011)}
      PROVE  /\ Usable(First(ns)) <=> TreeUsable(ns)
             /\ TreeUsable(ns) => RegToCpuAddr(First(ns), 0) = TreeAddress(Min(ns))
  <2>1. ns \in SUBSET Nodes
    BY <1>5, Zenon DEF Cadences, TreeMatches
  <2>2. \A n \in ns : OnBuses(n) /\ \A st \in TreeStatus(n) : IsText(st) /\ ~Overlong(st)
    BY <1>5, Zenon DEF PlainUarts, PlacedUarts, PlainStatuses
  <2>3. Blob
    BY Zenon DEF Searching
  <2>4. QED
    BY <1>5, <2>1, <2>2, <2>3, UsableIs, Zenon
<1>6. ASSUME caller = "serial_init", Clear, want # Pl011, ~(want = Cdns /\ result = Err)
      PROVE  result = First(Cadences)
  <2>1. CASE want = Zynqmp
    BY <1>4, <1>6, <2>1, Zenon DEF Cadences
  <2>2. CASE want = Cdns
    <3>1. TreeMatches(Cdns) # {}
      BY <1>4, <1>6, <2>2, Zenon
    <3>2. QED
      BY <1>4, <1>6, <2>2, <3>1, Zenon DEF Cadences
  <2>3. QED
    BY <1>4, <1>6, <2>1, <2>2, Zenon
<1> HIDE DEF Clear, First
<1>7. CASE want = Cdns /\ result = Err /\ Search(Zynqmp) /\ UNCHANGED uart
  <2>1. ASSUME caller = "serial_init", Clear PROVE TreeMatches(Cdns) = {}
    <3>1. CASE TreeMatches(Cdns) # {}
      <4>1. \A y \in TreeMatches(Cdns) : y \in Nat
        BY <2>1, Places, Zenon DEF Clear, TreeMatches, Searching
      <4>2. Min(TreeMatches(Cdns)) \in Nat
        BY <3>1, <4>1, MinLeast, Zenon
      <4>3. Min(TreeMatches(Cdns)) # Err
        BY <4>2 DEF Err
      <4>4. QED
        BY <1>4, <1>7, <2>1, <3>1, <4>3, Zenon DEF First
    <3>2. QED
      BY <3>1, Zenon
  <2>2. pc' \notin {"idle", "list"} /\ want' = Zynqmp
    BY <1>7, Zenon DEF Search, Return
  <2>3. Zynqmp # Pl011 /\ (caller = "serial_init" => pc' # "done")
    BY <1>3, <1>7, NamesAssumption, Zenon
  <2>4. QED
    BY <1>1, <1>2, <1>7, <2>1, <2>2, <2>3, ChoosingTo, Zenon DEF Clear
<1>8. CASE /\ want # Pl011 /\ Usable(result)
           /\ uart' = [base |-> RegToCpuAddr(result, 0), cadence |-> TRUE]
           /\ pc' = "done"
  <2>1. ASSUME caller = "serial_init", Clear PROVE uart' = TreeConsole
    <3>1. result # Err
      BY <1>8, Zenon DEF Usable
    <3>2. result = First(Cadences)
      BY <1>6, <1>8, <2>1, <3>1, Zenon
    <3>3. TreeUsable(Cadences) /\ RegToCpuAddr(result, 0) = TreeAddress(Min(Cadences))
      BY <1>5, <1>8, <2>1, <3>2, Zenon
    <3>4. QED
      BY <1>8, <3>3, Zenon DEF TreeConsole
  <2>2. QED
    BY <1>1, <1>8, <2>1, ChoosingTo, Zenon DEF Clear
<1>9. CASE /\ want = Zynqmp \/ (want = Cdns /\ result # Err)
           /\ ~Usable(result) /\ Search(Pl011) /\ UNCHANGED uart
  <2>1. ASSUME caller = "serial_init", Clear PROVE ~TreeUsable(Cadences)
    <3>1. want # Pl011 /\ ~(want = Cdns /\ result = Err)
      BY <1>9, NamesAssumption, Zenon
    <3>2. result = First(Cadences)
      BY <1>6, <2>1, <3>1, Zenon
    <3>3. QED
      BY <1>5, <1>9, <2>1, <3>2, Zenon
  <2>2. pc' \notin {"idle", "list"} /\ want' = Pl011
    BY <1>9, Zenon DEF Search, Return
  <2>3. Pl011 # Zynqmp /\ (caller = "serial_init" => pc' # "done")
    BY <1>3, <1>9, NamesAssumption, Zenon
  <2>4. QED
    BY <1>1, <1>2, <1>9, <2>1, <2>2, <2>3, ChoosingTo, Zenon DEF Clear
<1>10. CASE /\ want = Pl011 /\ pc' = "done"
            /\ uart' = IF Usable(result) THEN [uart EXCEPT !.base = RegToCpuAddr(result, 0)]
                       ELSE uart
  <2>1. ASSUME caller = "serial_init", Clear PROVE uart' = TreeConsole
    <3>1. result = First(TreeMatches(Pl011)) /\ ~TreeUsable(Cadences)
      BY <1>4, <1>10, <2>1, Zenon
    <3>2. /\ Usable(result) <=> TreeUsable(TreeMatches(Pl011))
          /\ TreeUsable(TreeMatches(Pl011)) =>
                RegToCpuAddr(result, 0) = TreeAddress(Min(TreeMatches(Pl011)))
      BY <1>5, <2>1, <3>1, Zenon
    <3>3. \A x : [uart EXCEPT !.base = x] = [base |-> x, cadence |-> FALSE]
      BY <1>2, NewBase, Zenon
    <3>4. QED
      BY <1>2, <1>10, <3>1, <3>2, <3>3, Zenon DEF TreeConsole
  <2>2. QED
    BY <1>1, <1>10, <2>1, ChoosingTo, Zenon DEF Clear
<1>11. QED
  BY <1>7, <1>8, <1>9, <1>10, Zenon DEF Found

LEMMA ChoosingStep ==
    ASSUME Choosing, Searching, Words, [Next]_vars
    PROVE  Choosing'
<1>1. ASSUME NEW n \in {i \in DOMAIN blob : blob[i].tok = "BEGIN_NODE"}, StartList(n)
      PROVE  Choosing'
  <2>1. pc = "idle" /\ pc' = "list" /\ caller' = "list" /\ uart' = uart
    BY <1>1, Zenon DEF StartList
  <2>2. QED
    BY <2>1, Zenon DEF Choosing
<1>2. CASE CallNextChild
  <2>1. pc = "list" /\ caller' = caller /\ uart' = uart /\ pc' \in {"list", "done"}
    BY <1>2, Zenon DEF CallNextChild
  <2>2. QED
    BY <2>1, Zenon DEF Choosing
<1>3. CASE StartSearch
  <2>1. pc = "idle" /\ caller' = "lookup" /\ uart' = uart /\ pc' \in {"visit", "done"}
    BY <1>3, Zenon DEF StartSearch, Search, Return
  <2>2. QED
    BY <2>1, Zenon DEF Choosing
<1>4. CASE StartSerialInit
  <2>1. /\ pc = "idle" /\ caller' = "serial_init" /\ uart' = uart /\ tree' = tree
        /\ pc' \in {"visit", "found", "done"}
        /\ FdtValid(header, size) => want' = Cdns /\ pc' # "done"
    BY <1>4, Zenon DEF StartSerialInit, Search, Return, tree
  <2>2. Cdns # Zynqmp /\ Cdns # Pl011
    BY NamesAssumption, Zenon
  <2>3. uart = [base |-> DefaultBase, cadence |-> FALSE]
    BY <2>1, Zenon DEF Choosing
  <2>4. QED
    BY <2>1, <2>2, <2>3, ChoosingTo, Zenon
<1>5. CASE Found
  BY <1>5, ChoosingFound, Zenon
<1>6. CASE Visit \/ Climb
  <2>1. /\ pc \in {"visit", "climb"} /\ tree' = tree /\ caller' = caller /\ want' = want /\ uart' = uart
        /\ pc' \in {"visit", "climb", IF caller = "lookup" THEN "done" ELSE "found"}
    BY <1>6, Zenon DEF Visit, Climb, Return, tree
  <2>2. CASE pc' # "done"
    BY <2>1, <2>2, ChoosingQuiet, Zenon
  <2>3. CASE pc' = "done"
    <3>1. caller' = "lookup"
      BY <2>1, <2>3, Zenon
    <3>2. QED
      BY <2>3, <3>1, Zenon DEF Choosing
  <2>4. QED
    BY <2>2, <2>3, Zenon
<1>7. CASE UNCHANGED vars
  BY <1>7, ChoosingQuiet, Zenon DEF vars, tree
<1>8. CASE Finished
  BY <1>8, ChoosingQuiet, Zenon DEF Finished, vars, tree
<1>9. QED
  BY <1>1, <1>2, <1>3, <1>4, <1>5, <1>6, <1>7, <1>8, Zenon DEF Next

\* Choosing is an invariant: serial_init searches under the second name of the
\* Cadence UART only when no node has the first, and for a PL011 only when the
\* Cadence UART it found cannot be used.
THEOREM ConsoleInvariant == Spec => [](Choosing /\ Words)
<1>1. Init => Choosing
  BY Zenon DEF Init, Choosing
<1>2. Choosing /\ Searching /\ Words /\ [Next]_vars => Choosing'
  BY ChoosingStep, Zenon
<1>3. QED
  BY <1>1, <1>2, SearchInvariant, WordsInit, WordsStep, PTL DEF Spec

\* serial_init takes the console the tree asks for: the first Cadence UART if
\* it is enabled and the buses around it reach it, else the first PL011 of
\* which that is true, else the built-in address, in every well-formed tree no
\* deeper than FDT_MAX_DEPTH.
THEOREM ConsoleIsTheTrees == Spec => []ConsoleFollowsTree
<1>1. Choosing => ConsoleFollowsTree
  BY Zenon DEF Choosing, ConsoleFollowsTree, ConsoleChosen, PlainUarts
<1>2. QED
  BY <1>1, ConsoleInvariant, PTL

\* The address fdt_reg_to_cpu_addr answers for the first register of a device
\* is where the windows of the buses around it, however many, put that
\* register, and it fails exactly when one of them does not hold it.
THEOREM RegistersFollowWindows == Spec => []RegFollowsWindows
<1>1. Searching /\ Words => RegFollowsWindows
  BY RegIs, Zenon DEF Searching, RegFollowsWindows
<1>2. QED
  BY <1>1, SearchInvariant, ConsoleInvariant, PTL

-----------------------------------------------------------------------------
\* The lookups.

\* Cell counts come from the nearest node around that declares them, and a
\* path leads to a node it spells out, the one meant unless an earlier sibling
\* has the name: fdt_parent_cells and fdt_path_offset, in every well-formed
\* tree no deeper than FDT_MAX_DEPTH.
THEOREM LookupsFollowTheTree == Spec => []LookupsFollowTree
<1>1. ASSUME Blob, Words, WellFormed, Shallow, NEW n \in Nodes
      PROVE  /\ \A name \in {"#address-cells", "#size-cells"} :
                  ParentCells(n, name) = TreeCells(n, name)
             /\ LET m == PathOffset(Spelled(n))
                IN  /\ m # Err => m \in Nodes /\ Spelled(m) = Spelled(n)
                    /\ Foremost(n) => m = n
  <2>1. \A name \in {"#address-cells", "#size-cells"} : ParentCells(n, name) = TreeCells(n, name)
    BY <1>1, ParentCellsIs, Zenon DEF CellNames
  <2> DEFINE s == Spelled(n)
             m == PathOffset(s)
  <2>2. Len(s) = Level(n) /\ Len(s) \in Nat /\ DOMAIN s = 1 .. Level(n)
    BY <1>1, SpelledIs, Zenon
  <2>3. ASSUME m # Err PROVE m \in Nodes /\ Spelled(m) = s
    <3>1. m \in Nodes /\ Level(m) = Len(s) /\ \A j \in 1 .. Len(s) : Spelled(m)[j] = s[j]
      BY <1>1, <2>2, <2>3, PathLeads, Zenon
    <3> HIDE DEF m
    <3>2. Spelled(m) = [k \in 1 .. Level(m) |-> Spelled(m)[k]]
      BY <1>1, <3>1, SpelledIs, Zenon
    <3>3. s = [k \in 1 .. Level(n) |-> s[k]]
      BY <1>1, SpelledIs, Zenon
    <3> HIDE DEF s
    <3>4. QED
      BY <2>2, <3>1, <3>2, <3>3, Zenon
  <2>4. Foremost(n) => m = n
    BY <1>1, PathFinds, Zenon
  <2>5. QED
    BY <2>1, <2>3, <2>4, Zenon
<1>2. Searching /\ Words => LookupsFollowTree
  BY <1>1, Zenon DEF Searching, LookupsFollowTree
<1>3. QED
  BY <1>2, SearchInvariant, ConsoleInvariant, PTL

\* fdt_memory_ranges reports every bank of every memory node under the root,
\* in order and up to the size of the caller's array, and
\* fdt_reserved_ranges every entry of the reservation block up to the first
\* empty one.
THEOREM RangesAreComplete == Spec => []RangesComplete
<1>1. ASSUME Blob, Words, WellFormed, Shallow
      PROVE  LET memory == MemoryRanges(MaxRanges)
                 off == header.off_mem_rsvmap
                 held == {k \in 1 .. MaxRanges :
                            \A i \in 0 .. k - 1 :
                               /\ off + (i + 1) * RsvEntry <= header.totalsize
                               /\ rsvmap[off + i * RsvEntry] # [base |-> 0, size |-> 0]}
             IN  /\ Len(memory) = Min({TreePlace(Len(blob)), MaxRanges})
                 /\ \A n \in TreeBanks : \A k \in DOMAIN TreeEntries(n) :
                       LET at == TreePlace(n) + k
                       IN  at <= MaxRanges => memory[at] = TreeEntries(n)[k]
                 /\ ReservedRanges(MaxRanges) =
                       [k \in held |-> rsvmap[off + (k - 1) * RsvEntry]]
  <2>1. MaxRanges \in Nat /\ CtxInit(header)
    BY <1>1, MaxRangesAssumption, Zenon DEF WellFormed
  <2>2. /\ Len(MemoryRanges(MaxRanges)) = Min({TreePlace(Len(blob)), MaxRanges})
        /\ \A n \in TreeBanks : \A k \in DOMAIN TreeEntries(n) :
              TreePlace(n) + k <= MaxRanges =>
                 MemoryRanges(MaxRanges)[TreePlace(n) + k] = TreeEntries(n)[k]
    BY <1>1, <2>1, MemoryIs, Zenon
  <2>3. LET off == header.off_mem_rsvmap
            held == {k \in 1 .. MaxRanges :
                       \A i \in 0 .. k - 1 :
                          /\ off + (i + 1) * RsvEntry <= header.totalsize
                          /\ rsvmap[off + i * RsvEntry] # [base |-> 0, size |-> 0]}
        IN  ReservedRanges(MaxRanges) =
               [k \in held |-> rsvmap[off + (k - 1) * RsvEntry]]
    BY <1>1, <2>1, ReservedIs, Zenon
  <2>4. QED
    BY <2>2, <2>3, Zenon
<1>2. Searching /\ Words => RangesComplete
  BY <1>1, Zenon DEF Searching, RangesComplete
<1>3. QED
  BY <1>2, SearchInvariant, ConsoleInvariant, PTL

=============================================================================

--------------------------- MODULE CapnpValidator ---------------------------
(***************************************************************************)
(* capnp_validate_message (kernel/capnp_validate.c), which kernel_invoke   *)
(* runs on every request before the handler and on every response after    *)
(* it.                                                                     *)
(*                                                                         *)
(* The recursion of validate_struct_at and validate_pointer_slot is an     *)
(* explicit stack.  A frame is one call of validate_struct_at, at the      *)
(* level of its depth argument; the loop over the elements of a composite  *)
(* list belongs to the frame whose pointer slot holds the list.            *)
(***************************************************************************)
EXTENDS CapnpWire

CONSTANTS
  Messages,   \* the messages to validate
  Tables,     \* schema tables
  MaxDepth    \* CAPNP_MAX_DEPTH

SCHEMA_IDX_NONE == 65535

Kinds == {"any", "struct", "list", "text", "data", "capability"}

ANY_SIZE == 255    \* pointer_schema_t.list_element_size 0xFF

(* A schema table: the parts of it that validation looks at.                *)
StructSchema == [data_words : Nat, pointer_count : Nat, first_pointer : Nat]

PointerSchema ==
  [kind : Kinds, element_struct : Nat, list_element_size : Nat]

IsTable(t) ==
  /\ DOMAIN t.structs \subseteq Nat /\ t.structs \in [DOMAIN t.structs -> StructSchema]
  /\ DOMAIN t.pointers \subseteq Nat /\ t.pointers \in [DOMAIN t.pointers -> PointerSchema]

(* A message: its length in bytes, what its 8 header bytes say (one less    *)
(* than the number of segments, and the words of segment 0) and the whole   *)
(* words behind the header.                                                 *)
Header == [more : Nat, words : Nat]

BufferWords(n) == IF n < 8 THEN 0 ELSE (n - 8) \div 8

IsMessage(m) ==
  m.len \in Nat /\ m.hdr \in Header /\ m.seg \in [0..BufferWords(m.len) - 1 -> Word]

ASSUME ValidatorAssumption ==
  /\ \A m \in Messages : IsMessage(m)
  /\ \A t \in Tables : IsTable(t)
  /\ MaxDepth \in Nat

VARIABLES
  table,     \* the schema table
  schema,    \* the struct the root must conform to
  len,       \* the message's length in bytes
  hdr,       \* its header
  seg,       \* the words behind the header
  verdict,   \* "start", "running", or the result, "accept" or "reject"
  top,       \* depth of the running validate_struct_at; -1: none
  fr,        \* the frames, by depth
  seen       \* history: the structs validate_struct_at has been called on

input == <<table, schema, len, hdr, seg>>
vars  == <<input, verdict, top, fr, seen>>

-----------------------------------------------------------------------------

Struct == [off : Int, data : Nat, ptrs : Nat, schema : Nat]

NoStruct == [off |-> 0, data |-> 0, ptrs |-> 0, schema |-> SCHEMA_IDX_NONE]

Frame ==
  [s    : Struct,      \* the struct being validated
   new  : BOOLEAN,     \* its schema has not been looked at yet
   i    : Nat,         \* next pointer slot
   left : Nat,         \* elements of a composite list still to visit
   elem : Struct]      \* the next of them

NewFrame(s) == [s |-> s, new |-> TRUE, i |-> 0, left |-> 0, elem |-> NoStruct]

Levels == 0..MaxDepth + 1

Init ==
  /\ table \in Tables
  /\ schema \in DOMAIN table.structs \cup {SCHEMA_IDX_NONE, SCHEMA_IDX_NONE - 1}
  /\ \E m \in Messages : len = m.len /\ hdr = m.hdr /\ seg = m.seg
  /\ verdict = "start"
  /\ top = -1
  /\ fr = [l \in Levels |-> NewFrame(NoStruct)]
  /\ seen = {}

-----------------------------------------------------------------------------

in_bounds(offset, count) ==
  /\ offset >= 0
  /\ offset <= hdr.words
  /\ count <= hdr.words - offset

HasStruct(idx) == idx # SCHEMA_IDX_NONE /\ idx \in DOMAIN table.structs

(* Return r from capnp_validate_message. *)
Finish(r) == verdict' = r /\ UNCHANGED <<top, fr, seen>>

(* Call validate_struct_at, from a caller whose own frame becomes g. *)
CallFrom(g, s) ==
  /\ top' = top + 1
  /\ fr' = [l \in Levels |-> CASE l = top     -> g
                               [] l = top + 1 -> NewFrame(s)
                               [] OTHER       -> fr[l]]
  /\ seen' = seen \cup {s}

RootStruct ==
  IF Tag(seg[0]) = "null"
    THEN [off |-> 0, data |-> 0, ptrs |-> 0, schema |-> schema]
    ELSE [off |-> 1 + Offset(seg[0]), data |-> DataWords(seg[0]),
          ptrs |-> PtrWords(seg[0]), schema |-> schema]

(* capnp_validate_message up to its call of validate_struct_at. *)
Start ==
  /\ verdict = "start"
  /\ UNCHANGED input
  /\ IF schema = SCHEMA_IDX_NONE THEN Finish("accept")
     ELSE IF \/ ~HasStruct(schema)
             \/ len < 8
             \/ hdr.more # 0
             \/ len - 8 < 8 * hdr.words
             \/ hdr.words < 1
       THEN Finish("reject")
     ELSE IF /\ Tag(seg[0]) # "null"
             /\ \/ Tag(seg[0]) # "struct"
                \/ ~in_bounds(RootStruct.off, RootStruct.data + RootStruct.ptrs)
       THEN Finish("reject")
     ELSE verdict' = "running" /\ CallFrom(NewFrame(NoStruct), RootStruct)

-----------------------------------------------------------------------------
(* validate_struct_at *)

F == fr[top]

Schema(s) == table.structs[s.schema]

(* Slots the schema declares and the struct lacks count as null. *)
Slots(s) ==
  IF s.schema = SCHEMA_IDX_NONE THEN 0
  ELSE IF Schema(s).pointer_count > s.ptrs THEN s.ptrs ELSE Schema(s).pointer_count

CheckStruct_NoMinimum ==
  /\ verdict = "running" /\ top >= 0 /\ F.new
  /\ UNCHANGED input
  /\ IF F.s.schema # SCHEMA_IDX_NONE /\ ~HasStruct(F.s.schema)
       THEN Finish("reject")
       ELSE fr' = [fr EXCEPT ![top] = [F EXCEPT !.new = FALSE]] /\ UNCHANGED <<verdict, top, seen>>

(* The checks before the loop over the pointer slots. *)
CheckStruct ==
  /\ verdict = "running" /\ top >= 0 /\ F.new
  /\ UNCHANGED input
  /\ IF /\ F.s.schema # SCHEMA_IDX_NONE
        /\ ~HasStruct(F.s.schema) \/ F.s.data < Schema(F.s).data_words
       THEN Finish("reject")
       ELSE fr' = [fr EXCEPT ![top] = [F EXCEPT !.new = FALSE]] /\ UNCHANGED <<verdict, top, seen>>

-----------------------------------------------------------------------------
(* validate_pointer_slot, for slot i of struct s *)

Slot(s, i) == s.off + s.data + i

Ptr(s, i) == seg[Slot(s, i)]

PtrSchema(s, i) == table.pointers[Schema(s).first_pointer + i]

(* Offsets count from the word after the pointer. *)
Target(s, i) == Slot(s, i) + 1 + Offset(Ptr(s, i))

(* The table's own run of pointer schemas covers the slot. *)
HasPtrSchema(s, i) ==
  /\ Schema(s).first_pointer # SCHEMA_IDX_NONE
  /\ Schema(s).first_pointer + i \in DOMAIN table.pointers

bits_per_elem == <<0, 1, 8, 16, 32, 64, 64, 0>>

ListBits(w) == bits_per_elem[ElementSize(w) + 1] * ElementCount(w)

SizeFits(s, i) ==
  PtrSchema(s, i).list_element_size \in {ANY_SIZE, ElementSize(Ptr(s, i))}

Leaf_RoundDown(s, i) ==
  LET p == Ptr(s, i)  k == PtrSchema(s, i).kind IN
  \/ Tag(p) = "null"
  \/ k = "any" /\ Tag(p) # "far"
  \/ k = "capability" /\ Tag(p) = "capability"
  \/ /\ k \in {"text", "data"}
     /\ Tag(p) = "list" /\ ElementSize(p) = 2
     /\ in_bounds(Target(s, i), ElementCount(p) \div 8)
  \/ /\ k = "list"
     /\ Tag(p) = "list" /\ SizeFits(s, i) /\ ElementSize(p) # 7
     /\ in_bounds(Target(s, i), (ListBits(p) + 63) \div 64)

(* Accepted without following the pointer. *)
Leaf(s, i) ==
  LET p == Ptr(s, i)  k == PtrSchema(s, i).kind IN
  \/ Tag(p) = "null"
  \/ k = "any" /\ Tag(p) # "far"
  \/ k = "capability" /\ Tag(p) = "capability"
  \/ /\ k \in {"text", "data"}
     /\ Tag(p) = "list" /\ ElementSize(p) = 2
     /\ in_bounds(Target(s, i), (ElementCount(p) + 7) \div 8)
  \/ /\ k = "list"
     /\ Tag(p) = "list" /\ SizeFits(s, i) /\ ElementSize(p) # 7
     /\ in_bounds(Target(s, i), (ListBits(p) + 63) \div 64)

(* A struct to validate next. *)
ToStruct(s, i) ==
  /\ PtrSchema(s, i).kind = "struct" /\ Tag(Ptr(s, i)) = "struct"
  /\ in_bounds(Target(s, i), DataWords(Ptr(s, i)) + PtrWords(Ptr(s, i)))

Child(s, i) ==
  [off |-> Target(s, i), data |-> DataWords(Ptr(s, i)), ptrs |-> PtrWords(Ptr(s, i)),
   schema |-> PtrSchema(s, i).element_struct]

(* The tag word of a composite list; its count is the offset field, taken   *)
(* as an unsigned 32-bit number.                                            *)
TagWord(s, i) == seg[Target(s, i)]

ElemWords(s, i) == DataWords(TagWord(s, i)) + PtrWords(TagWord(s, i))

ElemCount(s, i) ==
  LET n == Offset(TagWord(s, i)) IN IF n < 0 THEN n + 65536 * 65536 ELSE n

Elem(s, i, k) ==
  [off |-> Target(s, i) + 1 + k * ElemWords(s, i),
   data |-> DataWords(TagWord(s, i)), ptrs |-> PtrWords(TagWord(s, i)),
   schema |-> PtrSchema(s, i).element_struct]

(* The elements fit the declared total; a count that is negative as a       *)
(* signed number exceeds every 29-bit total.                                *)
ElementsFit(s, i) ==
  LET total == ElementCount(Ptr(s, i)) IN
  /\ ElemWords(s, i) # 0 =>
       /\ Offset(TagWord(s, i)) >= 0
       /\ Offset(TagWord(s, i)) <= total \div ElemWords(s, i)
  /\ ElemWords(s, i) * ElemCount(s, i) <= total

(* A composite list to walk next: the declared total and one word more must *)
(* be in the segment.                                                       *)
ToList(s, i) ==
  LET p == Ptr(s, i) IN
  /\ PtrSchema(s, i).kind = "list"
  /\ Tag(p) = "list" /\ SizeFits(s, i) /\ ElementSize(p) = 7
  /\ in_bounds(Target(s, i), ElementCount(p) + 1)
  /\ ElementsFit(s, i)

-----------------------------------------------------------------------------
(* The loop over the pointer slots *)

DepthOK_Unlimited == TRUE

DepthOK == top <= MaxDepth

Advanced_Not(f) == f

(* The frame with its next slot to check. *)
Advanced(f) == [f EXCEPT !.i = @ + 1]

(* One slot: reject, accept, or follow the pointer. *)
CheckSlot ==
  LET s == F.s  i == F.i IN
  /\ verdict = "running" /\ top >= 0 /\ ~F.new /\ F.left = 0 /\ i < Slots(s)
  /\ UNCHANGED input
  /\ IF ~HasPtrSchema(s, i) \/ ~DepthOK \/ ~in_bounds(Slot(s, i), 1)
       THEN Finish("reject")
     ELSE IF Leaf(s, i)
       THEN fr' = [fr EXCEPT ![top] = Advanced(F)] /\ UNCHANGED <<verdict, top, seen>>
     ELSE IF ToStruct(s, i)
       THEN CallFrom(Advanced(F), Child(s, i)) /\ UNCHANGED verdict
     ELSE IF ToList(s, i)
       THEN /\ fr' = [fr EXCEPT ![top] =
                        [Advanced(F) EXCEPT !.left = ElemCount(s, i), !.elem = Elem(s, i, 0)]]
            /\ UNCHANGED <<verdict, top, seen>>
     ELSE Finish("reject")

(* The loop over the elements of a composite list. *)
NextElement ==
  LET e == F.elem IN
  /\ verdict = "running" /\ top >= 0 /\ F.left > 0
  /\ UNCHANGED <<input, verdict>>
  /\ CallFrom([F EXCEPT !.left = @ - 1, !.elem = [e EXCEPT !.off = @ + e.data + e.ptrs]], e)

(* validate_struct_at returns 1; the last one ends the validation.          *)
Return ==
  /\ verdict = "running" /\ top >= 0 /\ ~F.new /\ F.left = 0 /\ F.i >= Slots(F.s)
  /\ top' = top - 1
  /\ verdict' = IF top = 0 THEN "accept" ELSE verdict
  /\ UNCHANGED <<input, fr, seen>>

Next == Start \/ CheckStruct \/ CheckSlot \/ NextElement \/ Return

Spec == Init /\ [][Next]_vars

FairSpec == Spec /\ WF_vars(Next)

-----------------------------------------------------------------------------
(* Properties *)

TypeOK ==
  /\ table \in Tables
  /\ schema \in Nat
  /\ len \in Nat
  /\ hdr \in Header
  /\ seg \in [0..BufferWords(len) - 1 -> Word]
  /\ verdict \in {"start", "running", "accept", "reject"}
  /\ top \in -1..MaxDepth + 1
  /\ fr \in [Levels -> Frame]
  /\ seen \subseteq Struct

(* A reader's view of the message: bytes first, first + 1, ... of it.       *)
InMessage(first, count) == first >= 8 /\ first + count <= len

StructInMessage(s) == InMessage(8 + 8 * s.off, 8 * (s.data + s.ptrs))

(* What a reader that follows slot i of s, as the schema declares it, reads *)
(* lies in the message; the structs it reaches are in S.                    *)
SlotReadable(s, i, S) ==
  LET p == Ptr(s, i)  k == PtrSchema(s, i).kind  body == 8 + 8 * Target(s, i) IN
  /\ HasPtrSchema(s, i)
  /\ InMessage(8 + 8 * Slot(s, i), 8)
  /\ Tag(p) # "null" =>
       /\ Tag(p) # "far"
       /\ k = "capability" => Tag(p) = "capability"
       /\ k = "struct" => Tag(p) = "struct" /\ Child(s, i) \in S
       /\ k \in {"text", "data"} => Tag(p) = "list" /\ InMessage(body, ElementCount(p))
       /\ k = "list" =>
            /\ Tag(p) = "list"
            /\ IF ElementSize(p) = 7
                 THEN /\ InMessage(body, 8)
                      /\ \A n \in 0..ElemCount(s, i) - 1 : Elem(s, i, n) \in S
                 ELSE body >= 8 /\ 8 * body + ListBits(p) <= 8 * len

Readable(s, S) ==
  /\ StructInMessage(s)
  /\ s.schema # SCHEMA_IDX_NONE =>
       /\ HasStruct(s.schema)
       /\ s.data >= Schema(s).data_words
       /\ \A i \in 0..Slots(s) - 1 : SlotReadable(s, i, S)

(* An accepted message can be read as the declared type without leaving it: *)
(* the structs that validation visited contain the root, are closed under   *)
(* following the declared pointers, and every one of them, with everything  *)
(* its pointers designate, lies within len (capnp_validate.h: "reading the  *)
(* message as the declared type can never read out of bounds").             *)
AcceptedIsReadable ==
  verdict = "accept" /\ schema # SCHEMA_IDX_NONE =>
    /\ RootStruct \in seen
    /\ \A s \in seen : Readable(s, seen)

(* The inductive invariant behind AcceptedIsReadable.  While validation     *)
(* runs, what has been checked of each struct on the stack is readable,     *)
(* counting the elements of a list that are still to be visited as reached. *)
Pending(f) ==
  IF f.left = 0 THEN {}
  ELSE {Elem(f.s, f.i - 1, n) :
          n \in ElemCount(f.s, f.i - 1) - f.left .. ElemCount(f.s, f.i - 1) - 1}

FrameOK(f, S) ==
  /\ f.s \in S
  /\ f.new => f.i = 0 /\ f.left = 0
  /\ ~f.new =>
       /\ f.s.schema # SCHEMA_IDX_NONE =>
            HasStruct(f.s.schema) /\ f.s.data >= Schema(f.s).data_words
       /\ f.i <= Slots(f.s)
       /\ \A i \in 0..f.i - 1 : SlotReadable(f.s, i, S \cup Pending(f))
  /\ f.left > 0 =>
       /\ f.i > 0 /\ ToList(f.s, f.i - 1)
       /\ f.left <= ElemCount(f.s, f.i - 1)
       /\ f.elem = Elem(f.s, f.i - 1, ElemCount(f.s, f.i - 1) - f.left)

Inside(s) == s.off >= 0 /\ s.off + s.data + s.ptrs <= hdr.words

StackInv ==
  /\ hdr.words >= 1 /\ 8 + 8 * hdr.words <= len
  /\ RootStruct \in seen
  /\ \A s \in seen : Inside(s)
  /\ \A s \in seen : (\E l \in 0..top : s = fr[l].s) \/ Readable(s, seen)
  /\ \A l \in 0..top : FrameOK(fr[l], seen)
  /\ \A l \in 0..top : fr[l].left > 0 => l <= MaxDepth

IInv ==
  /\ TypeOK
  /\ verdict = "start" => top = -1 /\ seen = {}
  /\ verdict = "running" => top >= 0 /\ schema # SCHEMA_IDX_NONE
  /\ verdict = "accept" => top = -1
  /\ verdict \in {"running", "accept"} /\ schema # SCHEMA_IDX_NONE => StackInv

(* validate_pointer_slot and validate_struct_at as they call each other, by *)
(* depth; below is validate_struct_at one level down.                       *)
validate_pointer_slot(s, i, depth, below) ==
  /\ HasPtrSchema(s, i)
  /\ depth <= MaxDepth
  /\ in_bounds(Slot(s, i), 1)
  /\ \/ Leaf(s, i)
     \/ ToStruct(s, i) /\ below[Child(s, i)] = 1
     \/ /\ ToList(s, i)
        /\ \A n \in 0..ElemCount(s, i) - 1 : below[Elem(s, i, n)] = 1

validate_struct_at(s, depth, below) ==
  IF \/ s.schema = SCHEMA_IDX_NONE
     \/ /\ HasStruct(s.schema)
        /\ s.data >= Schema(s).data_words
        /\ \A i \in 0..Slots(s) - 1 : validate_pointer_slot(s, i, depth, below)
  THEN 1 ELSE 0

StructValid ==
  LET valid[depth \in Levels] ==
        [s \in Struct |-> validate_struct_at(s, depth, valid[depth + 1])]
  IN  valid

(* The explicit stack decides what the recursion decides: no slot and no    *)
(* element is skipped, wherever a nested call returns to.                   *)
VerdictIsRecursive ==
  verdict \in {"accept", "reject"} /\ seen # {} =>
    (verdict = "accept" <=> StructValid[0][RootStruct] = 1)

(* Validation ends, also on a message whose pointers form a cycle.          *)
Terminates == <>(verdict \in {"accept", "reject"})

=============================================================================

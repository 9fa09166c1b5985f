------------------------ MODULE CapnpValidatorProofs ------------------------
(***************************************************************************)
(* An accepted message can be read as the declared type without leaving    *)
(* it, and the verdict is the one that the recursion of the source arrives *)
(* at, for every message, schema table and depth limit.                    *)
(***************************************************************************)
EXTENDS CapnpValidator, WellFoundedInduction, TLAPS

(* The fields of a decoded pointer are in their ranges.                     *)
LEMMA WireFacts ==
  ASSUME NEW w \in Word
  PROVE  /\ Tag(w) \in Tags
         /\ Offset(w) \in Int /\ Offset(w) >= -536870912
         /\ DataWords(w) \in Nat /\ PtrWords(w) \in Nat
         /\ ElementSize(w) \in 0..7 /\ ElementCount(w) \in Nat
<1>1. PICK a \in Quarter, b \in Quarter, c \in Quarter, d \in Quarter : w = <<a, b, c, d>>
  BY DEF Word
<1>2. w[1] = a /\ w[2] = b /\ w[3] = c /\ w[4] = d
  BY <1>1
<1>3. /\ a \in Int /\ a >= 0 /\ a <= 65535 /\ b \in Int /\ b >= 0 /\ b <= 65535
      /\ c \in Int /\ c >= 0 /\ c <= 65535 /\ d \in Int /\ d >= 0 /\ d <= 65535
  BY <1>1 DEF Quarter
<1>4. /\ a \div 4 \in Nat /\ a \div 8 \in Nat /\ c \div 8 \in Nat /\ c % 8 \in 0..7
  BY <1>3
<1>5. Tag(w) \in Tags
  BY DEF Tag, Tags
<1>6. Offset(w) \in Int /\ Offset(w) >= -536870912
  BY <1>2, <1>3, <1>4 DEF Offset
<1>7. /\ DataWords(w) \in Nat /\ PtrWords(w) \in Nat
      /\ ElementSize(w) \in 0..7 /\ ElementCount(w) \in Nat
  BY <1>2, <1>3, <1>4 DEF DataWords, PtrWords, ElementSize, ElementCount
<1> QED BY <1>5, <1>6, <1>7

(* A longer run of words is not shorter.                                    *)
LEMMA Products ==
  ASSUME NEW a \in Nat, NEW b \in Nat, NEW e \in Nat, a < b
  PROVE  a * e \in Nat /\ (a + 1) * e = a * e + e /\ a * e + e <= b * e
<1>1. a * e \in Nat /\ (b - a - 1) * e \in Nat
  OBVIOUS
<1>2. b * e = a * e + e + (b - a - 1) * e
  OBVIOUS
<1>3. (a + 1) * e = a * e + e
  OBVIOUS
<1> QED BY <1>1, <1>2, <1>3

(* Rounded up to words, a list's bits or bytes are covered.                 *)
LEMMA Rounding ==
  ASSUME NEW b \in Nat, NEW n \in Int
  PROVE  /\ (b + 7) \div 8 <= n => b <= 8 * n
         /\ (b + 63) \div 64 <= n => b <= 64 * n
OBVIOUS

-----------------------------------------------------------------------------

(* Validation has gone past the checks of the header. *)
Sound ==
  /\ table \in Tables
  /\ len \in Nat /\ hdr \in Header
  /\ seg \in [0..BufferWords(len) - 1 -> Word]
  /\ hdr.words >= 1 /\ 8 + 8 * hdr.words <= len

(* A slot that validate_pointer_slot is called on. *)
Declared(s, i) ==
  /\ s \in Struct /\ Inside(s)
  /\ s.schema # SCHEMA_IDX_NONE /\ HasStruct(s.schema)
  /\ i \in Nat /\ i < Slots(s)
  /\ HasPtrSchema(s, i)

(* Every word of segment 0 is there to be read.                             *)
LEMMA SegFacts ==
  ASSUME Sound, NEW o \in Int, o >= 0, o < hdr.words
  PROVE  seg[o] \in Word
<1>1. hdr.words \in Nat
  BY DEF Sound, Header
<1>2. BufferWords(len) = (len - 8) \div 8
  BY <1>1 DEF Sound, BufferWords
<1>3. hdr.words <= (len - 8) \div 8
  BY <1>1 DEF Sound
<1>4. o \in 0..BufferWords(len) - 1
  BY <1>1, <1>2, <1>3 DEF Sound
<1> QED BY <1>4 DEF Sound

(* A struct's schema and the slots to check.                                *)
LEMMA SchemaFacts ==
  ASSUME Sound, NEW s \in Struct, HasStruct(s.schema)
  PROVE  /\ Schema(s) \in StructSchema
         /\ Slots(s) \in Nat /\ Slots(s) <= s.ptrs
<1>1. IsTable(table)
  BY ValidatorAssumption DEF Sound
<1>2. Schema(s) \in StructSchema
  BY <1>1 DEF IsTable, Schema, HasStruct
<1>3. s.ptrs \in Nat /\ Schema(s).pointer_count \in Nat
  BY <1>2 DEF Struct, StructSchema
<1> QED BY <1>2, <1>3 DEF Slots

(* A declared slot is inside the message and its pointer schema in the      *)
(* table.                                                                   *)
LEMMA SlotFacts ==
  ASSUME Sound, NEW s, NEW i, Declared(s, i)
  PROVE  /\ Slot(s, i) \in Nat /\ Slot(s, i) < hdr.words
         /\ Ptr(s, i) \in Word
         /\ PtrSchema(s, i) \in PointerSchema
         /\ Target(s, i) \in Int
         /\ InMessage(8 + 8 * Slot(s, i), 8)
<1>1. /\ s.off \in Int /\ s.data \in Nat /\ s.ptrs \in Nat
      /\ hdr.words \in Nat /\ len \in Nat
  BY DEF Declared, Struct, Sound, Header
<1>2. Slots(s) \in Nat /\ Slots(s) <= s.ptrs
  BY SchemaFacts DEF Declared
<1>3. Slot(s, i) \in Nat /\ Slot(s, i) < hdr.words
  BY <1>1, <1>2 DEF Slot, Declared, Inside
<1>4. Ptr(s, i) \in Word
  BY <1>3, SegFacts DEF Ptr
<1>5. PtrSchema(s, i) \in PointerSchema
  BY ValidatorAssumption DEF Sound, IsTable, PtrSchema, HasPtrSchema, Declared
<1>6. Target(s, i) \in Int
  BY <1>3, <1>4, WireFacts DEF Target
<1>7. InMessage(8 + 8 * Slot(s, i), 8)
  BY <1>1, <1>3, SMTT(30) DEF InMessage, Sound
<1> QED BY <1>3, <1>4, <1>5, <1>6, <1>7

(* A slot accepted without being followed is readable.                      *)
LEMMA LeafReadable ==
  ASSUME Sound, NEW s, NEW i, Declared(s, i), Leaf(s, i), NEW S
  PROVE  SlotReadable(s, i, S)
<1> DEFINE p == Ptr(s, i)
           k == PtrSchema(s, i).kind
           t == Target(s, i)
<1>1. /\ p \in Word /\ t \in Int /\ k \in Kinds
      /\ hdr.words \in Nat /\ len \in Nat /\ 8 + 8 * hdr.words <= len
  BY SlotFacts DEF PointerSchema, Sound, Header
<1>2. HasPtrSchema(s, i) /\ InMessage(8 + 8 * Slot(s, i), 8)
  BY SlotFacts DEF Declared
<1>3. ElementCount(p) \in Nat /\ ElementSize(p) \in 0..7 /\ ListBits(p) \in Nat
  <2>1. ElementCount(p) \in Nat /\ ElementSize(p) \in 0..7
    BY <1>1, WireFacts
  <2>2. bits_per_elem[ElementSize(p) + 1] \in Nat
    BY <2>1 DEF bits_per_elem
  <2> QED BY <2>1, <2>2 DEF ListBits
<1>4. ASSUME in_bounds(t, (ElementCount(p) + 7) \div 8)
      PROVE  InMessage(8 + 8 * t, ElementCount(p))
  BY <1>1, <1>3, <1>4, Rounding DEF in_bounds, InMessage
<1>5. ASSUME in_bounds(t, (ListBits(p) + 63) \div 64)
      PROVE  8 + 8 * t >= 8 /\ 8 * (8 + 8 * t) + ListBits(p) <= 8 * len
  BY <1>1, <1>3, <1>5, Rounding DEF in_bounds
<1> HIDE DEF p, k, t
<1>6. \/ Tag(p) = "null"
      \/ k = "any" /\ Tag(p) # "far"
      \/ k = "capability" /\ Tag(p) = "capability"
      \/ /\ k \in {"text", "data"} /\ Tag(p) = "list"
         /\ InMessage(8 + 8 * t, ElementCount(p))
      \/ /\ k = "list" /\ Tag(p) = "list" /\ ElementSize(p) # 7
         /\ 8 + 8 * t >= 8 /\ 8 * (8 + 8 * t) + ListBits(p) <= 8 * len
  BY <1>4, <1>5 DEF Leaf, p, k, t
<1> QED BY <1>2, <1>6 DEF SlotReadable, p, k, t

(* A struct pointer that passes leads to a struct inside the message.       *)
LEMMA StructReadable ==
  ASSUME Sound, NEW s, NEW i, Declared(s, i), ToStruct(s, i)
  PROVE  /\ Child(s, i) \in Struct /\ Inside(Child(s, i))
         /\ \A S : Child(s, i) \in S => SlotReadable(s, i, S)
<1>1. /\ Ptr(s, i) \in Word /\ Target(s, i) \in Int /\ PtrSchema(s, i) \in PointerSchema
      /\ HasPtrSchema(s, i) /\ InMessage(8 + 8 * Slot(s, i), 8)
  BY SlotFacts DEF Declared
<1>2. DataWords(Ptr(s, i)) \in Nat /\ PtrWords(Ptr(s, i)) \in Nat
  BY <1>1, WireFacts
<1>3. PtrSchema(s, i).element_struct \in Nat
  BY <1>1 DEF PointerSchema
<1>4. Child(s, i) \in Struct
  BY <1>1, <1>2, <1>3 DEF Child, Struct
<1>5. Inside(Child(s, i))
  BY <1>1, <1>2 DEF Inside, Child, ToStruct, in_bounds, Sound, Header
<1>6. Tag(Ptr(s, i)) = "struct" /\ PtrSchema(s, i).kind = "struct"
  BY DEF ToStruct
<1> QED BY <1>1, <1>4, <1>5, <1>6 DEF SlotReadable

(* A composite list that passes has all its elements inside the message.    *)
LEMMA ListReadable ==
  ASSUME Sound, NEW s, NEW i, Declared(s, i), ToList(s, i)
  PROVE  /\ ElemCount(s, i) \in Nat
         /\ ElemWords(s, i) \in Nat
         /\ \A n \in Nat : Elem(s, i, n) \in Struct
         /\ \A n \in 0..ElemCount(s, i) - 1 : Inside(Elem(s, i, n))
         /\ \A S : (\A n \in 0..ElemCount(s, i) - 1 : Elem(s, i, n) \in S)
                  => SlotReadable(s, i, S)
<1> DEFINE p == Ptr(s, i)
           t == Target(s, i)
           g == TagWord(s, i)
           total == ElementCount(p)
           e == ElemWords(s, i)
           c == ElemCount(s, i)
<1>1. /\ p \in Word /\ t \in Int /\ PtrSchema(s, i) \in PointerSchema
      /\ HasPtrSchema(s, i) /\ InMessage(8 + 8 * Slot(s, i), 8)
  BY SlotFacts DEF Declared
<1>2. total \in Nat /\ hdr.words \in Nat /\ len \in Nat /\ 8 + 8 * hdr.words <= len
  BY <1>1, WireFacts DEF Sound, Header
<1>3. t >= 0 /\ t + total + 1 <= hdr.words
  BY <1>1, <1>2 DEF ToList, in_bounds
<1>4. g \in Word
  BY <1>1, <1>2, <1>3, SegFacts DEF TagWord
<1>5. DataWords(g) \in Nat /\ PtrWords(g) \in Nat /\ Offset(g) \in Int /\ Offset(g) >= -536870912
  BY <1>4, WireFacts
<1>6. e = DataWords(g) + PtrWords(g) /\ e \in Nat
  BY <1>5 DEF ElemWords
<1>7. c \in Nat
  BY <1>5 DEF ElemCount
<1>8. c * e <= total
  <2>1. e * c <= total
    BY DEF ToList, ElementsFit
  <2>2. c * e = e * c
    BY <1>6, <1>7
  <2> QED BY <2>1, <2>2
<1>9. PtrSchema(s, i).element_struct \in Nat
  BY <1>1 DEF PointerSchema
<1>10. ASSUME NEW n \in Nat PROVE Elem(s, i, n) \in Struct
  <2>1. n * e \in Nat
    BY <1>6
  <2>2. t + 1 + n * e \in Int
    BY <1>1, <2>1
  <2> HIDE DEF e, g, t
  <2>3. Elem(s, i, n) = [off |-> t + 1 + n * e, data |-> DataWords(g), ptrs |-> PtrWords(g),
                         schema |-> PtrSchema(s, i).element_struct]
    BY DEF Elem, e, g, t
  <2> QED BY <2>2, <2>3, <1>5, <1>9 DEF Struct
<1>11. ASSUME NEW n \in 0..c - 1 PROVE Inside(Elem(s, i, n))
  <2>1. n \in Nat /\ n < c
    BY <1>7
  <2> HIDE DEF c, e, g, t, total
  <2>2. n * e \in Nat /\ n * e + e <= c * e
    BY <2>1, <1>6, <1>7, Products
  <2>3. /\ Elem(s, i, n).off = t + 1 + n * e
        /\ Elem(s, i, n).data = DataWords(g) /\ Elem(s, i, n).ptrs = PtrWords(g)
    BY DEF Elem, e, g, t
  <2>4. c * e \in Int
    BY <1>6, <1>7
  <2> DEFINE ne == n * e
             ce == c * e
  <2>5. ne \in Nat /\ ne + e <= ce /\ ce <= total /\ ce \in Int
    BY <2>2, <2>4, <1>8
  <2>6. Elem(s, i, n).off = t + 1 + ne
    BY <2>3
  <2> HIDE DEF ne, ce
  <2> QED BY <2>3, <2>5, <2>6, <1>1, <1>2, <1>3, <1>5, <1>6 DEF Inside
<1>12. InMessage(8 + 8 * t, 8)
  BY <1>1, <1>2, <1>3 DEF InMessage
<1>13. ASSUME NEW S, \A n \in 0..c - 1 : Elem(s, i, n) \in S
       PROVE  SlotReadable(s, i, S)
  <2>1. Tag(p) = "list" /\ PtrSchema(s, i).kind = "list" /\ ElementSize(p) = 7
    BY DEF ToList
  <2> QED BY <2>1, <1>1, <1>12, <1>13 DEF SlotReadable
<1> QED BY <1>6, <1>7, <1>10, <1>11, <1>13

(* Reaching more structs makes no slot unreadable.                          *)
LEMMA Monotone ==
  ASSUME NEW s, NEW S, NEW T, S \subseteq T
  PROVE  /\ \A i : SlotReadable(s, i, S) => SlotReadable(s, i, T)
         /\ Readable(s, S) => Readable(s, T)
<1>1. ASSUME NEW i, SlotReadable(s, i, S) PROVE SlotReadable(s, i, T)
  BY <1>1 DEF SlotReadable
<1> QED BY <1>1 DEF Readable

(* What is readable depends on the message and the table only.              *)
LEMMA SameInput ==
  ASSUME UNCHANGED input
  PROVE  /\ \A s, S : Readable(s, S)' <=> Readable(s, S)
         /\ \A s, i, S : SlotReadable(s, i, S)' <=> SlotReadable(s, i, S)
         /\ \A s, i : ToList(s, i)' <=> ToList(s, i)
         /\ \A s, i : ElemCount(s, i)' = ElemCount(s, i)
         /\ \A s, i, n : Elem(s, i, n)' = Elem(s, i, n)
         /\ \A s : Slots(s)' = Slots(s) /\ Schema(s)' = Schema(s)
         /\ \A n : HasStruct(n)' <=> HasStruct(n)
         /\ RootStruct' = RootStruct
<1> table' = table /\ schema' = schema /\ len' = len /\ hdr' = hdr /\ seg' = seg
  BY DEF input
<1>1. /\ \A s, i : Ptr(s, i)' = Ptr(s, i) /\ Target(s, i)' = Target(s, i)
      /\ \A s, i : PtrSchema(s, i)' = PtrSchema(s, i)
      /\ \A s, i : HasPtrSchema(s, i)' <=> HasPtrSchema(s, i)
      /\ \A s, i : Slot(s, i)' = Slot(s, i) /\ Child(s, i)' = Child(s, i)
  BY DEF Ptr, Target, Slot, PtrSchema, Schema, HasPtrSchema, Child
<1>2. /\ \A s : Slots(s)' = Slots(s) /\ Schema(s)' = Schema(s)
      /\ \A n : HasStruct(n)' <=> HasStruct(n)
      /\ RootStruct' = RootStruct
  BY DEF Slots, Schema, HasStruct, RootStruct
<1>3. /\ \A s, i : TagWord(s, i)' = TagWord(s, i)
      /\ \A s, i : ElemWords(s, i)' = ElemWords(s, i)
      /\ \A s, i : ElemCount(s, i)' = ElemCount(s, i)
      /\ \A s, i, n : Elem(s, i, n)' = Elem(s, i, n)
  BY <1>1 DEF TagWord, ElemWords, ElemCount, Elem
<1>4. \A s, i : ToList(s, i)' <=> ToList(s, i)
  BY <1>1, <1>3 DEF ToList, ElementsFit, SizeFits, in_bounds
<1>5. \A s, i, S : SlotReadable(s, i, S)' <=> SlotReadable(s, i, S)
  <2> SUFFICES ASSUME NEW s, NEW i, NEW S
               PROVE  SlotReadable(s, i, S)' <=> SlotReadable(s, i, S)
    OBVIOUS
  <2> QED BY <1>1, <1>3 DEF SlotReadable, InMessage
<1>6. \A s, S : Readable(s, S)' <=> Readable(s, S)
  BY <1>2, <1>5 DEF Readable, StructInMessage, InMessage
<1> QED BY <1>2, <1>3, <1>4, <1>5, <1>6

(* The same for what is known of a frame.                                   *)
LEMMA FrameMonotone ==
  ASSUME NEW f, NEW S, NEW T, S \subseteq T, FrameOK(f, S)
  PROVE  FrameOK(f, T)
<1>1. S \cup Pending(f) \subseteq T \cup Pending(f)
  OBVIOUS
<1>2. \A i : SlotReadable(f.s, i, S \cup Pending(f)) => SlotReadable(f.s, i, T \cup Pending(f))
  BY <1>1, Monotone, SMTT(30)
<1> QED BY <1>2 DEF FrameOK

(* And it depends on the message and the table only.                        *)
LEMMA FrameSameInput ==
  ASSUME UNCHANGED input
  PROVE  \A f, S : FrameOK(f, S)' <=> FrameOK(f, S)
<1> SUFFICES ASSUME NEW f, NEW S PROVE FrameOK(f, S)' <=> FrameOK(f, S)
  OBVIOUS
<1>1. Pending(f)' = Pending(f)
  BY SameInput DEF Pending
<1>2. \A i : SlotReadable(f.s, i, S \cup Pending(f))' <=> SlotReadable(f.s, i, S \cup Pending(f))
  BY <1>1, SameInput
<1> QED BY <1>1, <1>2, SameInput DEF FrameOK

-----------------------------------------------------------------------------
(* The steps *)

(* The frames that the steps build.                                         *)
LEMMA FrameFacts ==
  ASSUME NEW f \in Frame
  PROVE  /\ f.s \in Struct /\ f.new \in BOOLEAN /\ f.i \in Nat /\ f.left \in Nat
         /\ f.elem \in Struct
         /\ Advanced(f) \in Frame
         /\ [f EXCEPT !.new = FALSE] \in Frame
         /\ \A n \in Nat, e \in Struct :
              /\ [Advanced(f) EXCEPT !.left = n, !.elem = e] \in Frame
              /\ [f EXCEPT !.left = n, !.elem = e] \in Frame
<1>1. f.i + 1 \in Nat
  BY DEF Frame
<1> QED BY <1>1, Zenon DEF Frame, Advanced

(* A call of validate_struct_at starts with a frame of its own.             *)
LEMMA NewFrameFacts ==
  ASSUME NEW e \in Struct
  PROVE  NewFrame(e) \in Frame
<1>1. NoStruct \in Struct
  BY DEF NoStruct, Struct, SCHEMA_IDX_NONE
<1> QED BY <1>1 DEF NewFrame, Frame

(* A rejection keeps the invariant.                                         *)
LEMMA RejectStep ==
  ASSUME IInv, UNCHANGED input, Finish("reject")
  PROVE  IInv'
<1>1. TypeOK'
  BY DEF IInv, TypeOK, Finish, input
<1> QED BY <1>1 DEF IInv, Finish

(* A step inside one call of validate_struct_at.                            *)
LEMMA LocalStep ==
  ASSUME IInv, verdict = "running", UNCHANGED <<input, verdict, top, seen>>,
         NEW g \in Frame, fr' = [fr EXCEPT ![top] = g],
         g.s = F.s, FrameOK(g, seen), g.left > 0 => top <= MaxDepth
  PROVE  IInv'
<1>1. /\ top >= 0 /\ top \in Levels /\ fr \in [Levels -> Frame] /\ top \in Int
      /\ schema # SCHEMA_IDX_NONE /\ StackInv
  BY ValidatorAssumption DEF IInv, TypeOK, Levels
<1>2. TypeOK'
  BY <1>1 DEF IInv, TypeOK, input
<1>3. \A l \in 0..top : l \in Levels
  BY <1>1, ValidatorAssumption DEF Levels
<1>4. \A l \in 0..top : fr'[l] = IF l = top THEN g ELSE fr[l]
  BY <1>1, <1>3
<1>5. \A l \in 0..top : fr'[l].s = fr[l].s
  BY <1>4 DEF F
<1>6. \A l \in 0..top : FrameOK(fr'[l], seen)
  BY <1>1, <1>4 DEF StackInv
<1>7. UNCHANGED input /\ top' = top /\ seen' = seen
  OBVIOUS
<1>8. \A l \in 0..top' : FrameOK(fr[l], seen)'
  BY <1>6, <1>7, FrameSameInput, SMTT(30)
<1>9. \A s \in seen' : (\E l \in 0..top' : s = fr'[l].s) \/ Readable(s, seen)'
  BY <1>1, <1>5, <1>7, SameInput DEF StackInv
<1>10. \A l \in 0..top' : fr'[l].left > 0 => l <= MaxDepth
  BY <1>1, <1>4, <1>7, SMTT(30) DEF StackInv
<1>11. StackInv'
  BY <1>1, <1>7, <1>8, <1>9, <1>10, SameInput DEF StackInv, Inside, input
<1> QED BY <1>1, <1>2, <1>7, <1>11 DEF IInv, input

(* A call of validate_struct_at, from the frame that becomes g.             *)
LEMMA CallStep ==
  ASSUME IInv, Sound, UNCHANGED input, schema # SCHEMA_IDX_NONE,
         verdict \in {"start", "running"}, verdict' = "running",
         NEW g \in Frame, NEW s \in Struct, CallFrom(g, s), Inside(s), top <= MaxDepth,
         verdict = "start" => s = RootStruct,
         verdict = "running" => g.s = F.s /\ FrameOK(g, seen \cup {s})
  PROVE  IInv'
<1>1. /\ top \in -1..MaxDepth /\ MaxDepth \in Nat /\ top \in Int
      /\ fr \in [Levels -> Frame] /\ seen \subseteq Struct
      /\ top' = top + 1 /\ seen' = seen \cup {s}
  BY ValidatorAssumption DEF IInv, TypeOK, CallFrom
<1>2. NewFrame(s) \in Frame
  BY NewFrameFacts
<1>3. /\ fr' \in [Levels -> Frame]
      /\ \A l \in 0..top + 1 :
           fr'[l] = IF l = top THEN g ELSE IF l = top + 1 THEN NewFrame(s) ELSE fr[l]
  BY <1>1, <1>2 DEF CallFrom, Levels
<1>4. TypeOK'
  BY <1>1, <1>3 DEF IInv, TypeOK, input
<1>5. NewFrame(s).s = s /\ NewFrame(s).left = 0 /\ FrameOK(NewFrame(s), seen')
  BY <1>1 DEF NewFrame, FrameOK
<1>6. CASE verdict = "start"
  <2>1. top = -1 /\ seen' = {s} /\ top' = 0 /\ fr'[0] = NewFrame(s)
    BY <1>1, <1>3, <1>6 DEF IInv
  <2>2. \A l \in 0..top' : FrameOK(fr[l], seen)'
    BY <2>1, <1>5, FrameSameInput
  <2>3. \A x \in seen' : \E l \in 0..top' : x = fr'[l].s
    BY <2>1, <1>5, SMTT(30)
  <2>4. StackInv'
    BY <2>1, <2>2, <2>3, <1>5, <1>6, SameInput, SMTT(30) DEF StackInv, Inside, Sound, input
  <2> QED BY <2>1, <2>4, <1>4 DEF IInv, input
<1>7. CASE verdict = "running"
  <2>1. StackInv /\ top >= 0
    BY <1>7 DEF IInv
  <2>2. \A l \in 0..top : fr'[l] = IF l = top THEN g ELSE fr[l]
    BY <1>1, <1>3
  <2>3. fr'[top + 1] = NewFrame(s)
    BY <1>1, <1>3
  <2>4. \A l \in 0..top : FrameOK(fr'[l], seen')
    <3> SUFFICES ASSUME NEW l \in 0..top PROVE FrameOK(fr'[l], seen')
      OBVIOUS
    <3>1. CASE l = top
      BY <3>1, <2>2, <1>1, <1>7
    <3>2. CASE l # top
      <4>1. FrameOK(fr[l], seen) /\ seen \subseteq seen' /\ fr'[l] = fr[l]
        BY <3>2, <2>1, <2>2, <1>1 DEF StackInv
      <4> QED BY <4>1, FrameMonotone
    <3> QED BY <3>1, <3>2
  <2>5. \A l \in 0..top' : FrameOK(fr'[l], seen')
    BY <2>3, <2>4, <1>1, <1>5
  <2>6. \A l \in 0..top' : FrameOK(fr[l], seen)'
    BY <2>5, FrameSameInput, SMTT(30)
  <2>7. \A x \in seen' : (\E l \in 0..top' : x = fr'[l].s) \/ Readable(x, seen')
    <3> SUFFICES ASSUME NEW x \in seen'
                 PROVE  (\E l \in 0..top' : x = fr'[l].s) \/ Readable(x, seen')
      OBVIOUS
    <3>1. CASE x = s
      BY <3>1, <2>1, <2>3, <1>1, <1>5
    <3>2. CASE x \in seen /\ Readable(x, seen)
      BY <3>2, <1>1, Monotone
    <3>3. CASE \E l \in 0..top : x = fr[l].s
      <4>1. PICK l \in 0..top : x = fr[l].s
        BY <3>3
      <4>2. fr'[l].s = x
        BY <4>1, <2>2, <1>7, SMTT(30) DEF F
      <4> QED BY <4>1, <4>2, <1>1
    <3> QED BY <3>1, <3>2, <3>3, <2>1, <1>1 DEF StackInv
  <2>8. \A x \in seen' : (\E l \in 0..top' : x = fr'[l].s) \/ Readable(x, seen)'
    BY <2>7, SameInput, ZenonT(40)
  <2>9. \A x \in seen' : Inside(x)
    BY <2>1, <1>1 DEF StackInv
  <2>10. \A l \in 0..top' : fr'[l].left > 0 => l <= MaxDepth
    BY <2>1, <2>2, <2>3, <1>1, <1>5 DEF StackInv
  <2>11. StackInv'
    BY <2>1, <2>6, <2>8, <2>9, <2>10, <1>1, SameInput, Zenon DEF StackInv, Inside, input
  <2> QED BY <2>1, <2>11, <1>1, <1>4 DEF IInv, input
<1> QED BY <1>6, <1>7

(* capnp_validate_message up to validate_struct_at.                         *)
LEMMA StartStep == IInv /\ Start => IInv'
<1> SUFFICES ASSUME IInv, Start PROVE IInv'
  OBVIOUS
<1>1. verdict = "start" /\ UNCHANGED input /\ top = -1 /\ seen = {}
  BY DEF Start, IInv
<1>2. CASE Finish("reject")
  BY <1>1, <1>2, RejectStep
<1>3. CASE schema = SCHEMA_IDX_NONE /\ Finish("accept")
  <2>1. TypeOK'
    BY <1>1, <1>3 DEF IInv, TypeOK, Finish, input
  <2> QED BY <2>1, <1>1, <1>3 DEF IInv, Finish, input
<1>4. CASE /\ schema # SCHEMA_IDX_NONE
           /\ len >= 8 /\ ~(len - 8 < 8 * hdr.words) /\ ~(hdr.words < 1)
           /\ \/ Tag(seg[0]) = "null"
              \/ /\ Tag(seg[0]) = "struct"
                 /\ in_bounds(RootStruct.off, RootStruct.data + RootStruct.ptrs)
           /\ verdict' = "running" /\ CallFrom(NewFrame(NoStruct), RootStruct)
  <2>1. hdr.words \in Nat /\ len \in Nat /\ schema \in Nat /\ MaxDepth \in Nat
    BY ValidatorAssumption DEF IInv, TypeOK, Header
  <2>2. Sound
    BY <1>4, <2>1 DEF IInv, TypeOK, Sound
  <2>3. seg[0] \in Word
    BY <2>1, <2>2, <1>4, SegFacts
  <2>4. DataWords(seg[0]) \in Nat /\ PtrWords(seg[0]) \in Nat /\ Offset(seg[0]) \in Int
    BY <2>3, WireFacts
  <2>5. RootStruct \in Struct
    BY <2>1, <2>4 DEF RootStruct, Struct
  <2>6. RootStruct.off \in Int /\ RootStruct.data \in Nat /\ RootStruct.ptrs \in Nat
    BY <2>5 DEF Struct
  <2>7. Inside(RootStruct)
    <3>1. CASE Tag(seg[0]) = "null"
      BY <3>1, <2>1, <1>4 DEF RootStruct, Inside
    <3>2. CASE in_bounds(RootStruct.off, RootStruct.data + RootStruct.ptrs)
      BY <3>2, <2>1, <2>6 DEF in_bounds, Inside
    <3> QED BY <3>1, <3>2, <1>4, SMTT(30)
  <2>8. NoStruct \in Struct
    BY DEF NoStruct, Struct, SCHEMA_IDX_NONE
  <2>9. NewFrame(NoStruct) \in Frame
    BY <2>8 DEF NewFrame, Frame
  <2>10. top <= MaxDepth
    BY <2>1, <1>1
  <2> QED BY <2>2, <2>5, <2>7, <2>9, <2>10, <1>1, <1>4, CallStep
<1>5. len \in Nat
  BY DEF IInv, TypeOK
<1> QED BY <1>2, <1>3, <1>4, <1>5 DEF Start

(* What holds whenever a frame is running.                                  *)
LEMMA RunningFacts ==
  ASSUME IInv, verdict = "running"
  PROVE  /\ Sound /\ schema # SCHEMA_IDX_NONE
         /\ F \in Frame /\ F.s \in Struct /\ F.s \in seen /\ Inside(F.s)
         /\ F.i \in Nat /\ F.left \in Nat /\ F.elem \in Struct
         /\ FrameOK(F, seen) /\ (F.left > 0 => top <= MaxDepth)
<1>1. StackInv /\ top >= 0 /\ schema # SCHEMA_IDX_NONE
  BY DEF IInv
<1>2. top \in Levels /\ top \in 0..top
  BY <1>1, ValidatorAssumption DEF IInv, TypeOK, Levels
<1>3. F \in Frame
  BY <1>2 DEF IInv, TypeOK, F
<1>4. FrameOK(F, seen) /\ (F.left > 0 => top <= MaxDepth)
  BY <1>1, <1>2, SMTT(30) DEF StackInv, F
<1>5. F.s \in seen /\ Inside(F.s)
  BY <1>1, <1>4 DEF StackInv, FrameOK
<1>6. Sound
  BY <1>1 DEF IInv, TypeOK, StackInv, Sound
<1>7. F.s \in Struct /\ F.i \in Nat /\ F.left \in Nat /\ F.elem \in Struct
  BY <1>3 DEF Frame
<1> QED BY <1>1, <1>3, <1>4, <1>5, <1>6, <1>7

(* The checks at the start of validate_struct_at.                           *)
LEMMA CheckStructStep == IInv /\ CheckStruct => IInv'
<1> SUFFICES ASSUME IInv, CheckStruct PROVE IInv'
  OBVIOUS
<1>1. verdict = "running" /\ F.new /\ UNCHANGED input
  BY DEF CheckStruct
<1>2. CASE Finish("reject")
  BY <1>1, <1>2, RejectStep
<1>3. CASE /\ F.s.schema # SCHEMA_IDX_NONE =>
                HasStruct(F.s.schema) /\ ~(F.s.data < Schema(F.s).data_words)
           /\ fr' = [fr EXCEPT ![top] = [F EXCEPT !.new = FALSE]]
           /\ UNCHANGED <<verdict, top, seen>>
  <2>1. PICK f \in Frame : f = F
    BY <1>1, RunningFacts
  <2> DEFINE g == [f EXCEPT !.new = FALSE]
  <2>2. g \in Frame
    BY <2>1, FrameFacts, Zenon
  <2>3. f.s \in Struct /\ f.new = TRUE /\ f.i = 0 /\ f.left = 0 /\ f.s \in seen
    BY <2>1, <1>1, RunningFacts DEF FrameOK
  <2>4. g.s = f.s /\ g.new = FALSE /\ g.i = 0 /\ g.left = 0
    BY <2>1, <2>3 DEF Frame
  <2>5. f.s.schema # SCHEMA_IDX_NONE =>
          /\ HasStruct(f.s.schema) /\ f.s.data >= Schema(f.s).data_words
          /\ Slots(f.s) \in Nat
    <3> SUFFICES ASSUME f.s.schema # SCHEMA_IDX_NONE
                 PROVE  /\ HasStruct(f.s.schema) /\ f.s.data >= Schema(f.s).data_words
                        /\ Slots(f.s) \in Nat
      OBVIOUS
    <3>1. HasStruct(f.s.schema) /\ ~(f.s.data < Schema(f.s).data_words)
      BY <1>3, <2>1
    <3>2. Schema(f.s) \in StructSchema /\ Slots(f.s) \in Nat
      BY <3>1, <2>1, <2>3, <1>1, RunningFacts, SchemaFacts
    <3>3. Schema(f.s).data_words \in Nat /\ f.s.data \in Nat
      BY <3>2, <2>3 DEF StructSchema, Struct
    <3> QED BY <3>1, <3>2, <3>3
  <2>6. Slots(f.s) \in Nat
    BY <2>5 DEF Slots
  <2>7. fr' = [fr EXCEPT ![top] = g]
    BY <1>3, <2>1, SMTT(30)
  <2> HIDE DEF g
  <2>8. FrameOK(g, seen)
    BY <2>3, <2>4, <2>5, <2>6 DEF FrameOK
  <2>9. ~(g.left > 0)
    BY <2>4
  <2> QED BY <2>1, <2>2, <2>4, <2>7, <2>8, <2>9, <1>1, <1>3, LocalStep, Zenon
<1> QED BY <1>1, <1>2, <1>3 DEF CheckStruct

(* One pointer slot.                                                        *)
LEMMA CheckSlotStep == IInv /\ CheckSlot => IInv'
<1> SUFFICES ASSUME IInv, CheckSlot PROVE IInv'
  OBVIOUS
<1>1. /\ verdict = "running" /\ top >= 0 /\ ~F.new /\ F.left = 0 /\ F.i < Slots(F.s)
      /\ UNCHANGED input
  BY DEF CheckSlot
<1>2. CASE Finish("reject")
  BY <1>1, <1>2, RejectStep
<1>3. PICK f \in Frame : f = F
  BY <1>1, RunningFacts
<1>4. /\ f.s \in Struct /\ f.i \in Nat /\ f.left = 0 /\ f.new = FALSE
      /\ Inside(f.s) /\ FrameOK(f, seen) /\ Sound
      /\ f.i < Slots(f.s) /\ schema # SCHEMA_IDX_NONE
  BY <1>1, <1>3, RunningFacts, FrameFacts, ZenonT(40)
<1>5. /\ f.s.schema # SCHEMA_IDX_NONE
      /\ HasStruct(f.s.schema) /\ f.s.data >= Schema(f.s).data_words
      /\ Slots(f.s) \in Nat
      /\ \A i \in 0..f.i - 1 : SlotReadable(f.s, i, seen)
  <2>1. f.s.schema # SCHEMA_IDX_NONE
    BY <1>4, SMTT(30) DEF Slots
  <2>2. HasStruct(f.s.schema) /\ f.s.data >= Schema(f.s).data_words
    BY <2>1, <1>4 DEF FrameOK
  <2>3. seen \cup Pending(f) = seen
    BY <1>4 DEF Pending
  <2> QED BY <2>1, <2>2, <2>3, <1>4, SchemaFacts, SMTT(30) DEF FrameOK
<1> DEFINE a == Advanced(f)
<1>6. a \in Frame
  BY FrameFacts, Zenon
<1>7. a.s = f.s /\ a.new = FALSE /\ a.i = f.i + 1 /\ a.left = 0
  BY <1>4 DEF Advanced, Frame
<1>8. ASSUME NEW S, NEW h \in Frame, seen \subseteq S,
             h.s = f.s, h.new = FALSE, h.i = f.i + 1,
             SlotReadable(f.s, f.i, S \cup Pending(h)),
             h.left > 0 =>
               /\ ToList(h.s, f.i)
               /\ h.left <= ElemCount(h.s, f.i)
               /\ h.elem = Elem(h.s, f.i, ElemCount(h.s, f.i) - h.left)
      PROVE  FrameOK(h, S)
  <2>1. h.s \in S
    BY <1>4, <1>8 DEF FrameOK
  <2>2. h.i <= Slots(h.s) /\ h.i > 0 /\ h.i - 1 = f.i
    <3>1. f.i \in Nat /\ Slots(f.s) \in Nat /\ f.i < Slots(f.s) /\ h.i = f.i + 1 /\ h.s = f.s
      BY <1>4, <1>5, <1>8, Zenon
    <3> QED BY <3>1
  <2>3. ASSUME NEW i \in 0..h.i - 1 PROVE SlotReadable(h.s, i, S \cup Pending(h))
    <3>1. CASE i = f.i
      BY <3>1, <1>8
    <3>2. CASE i # f.i
      <4>1. i \in 0..f.i - 1
        BY <3>2, <2>2, <1>4, SMTT(30)
      <4>2. seen \subseteq S \cup Pending(h) /\ SlotReadable(f.s, i, seen)
        BY <4>1, <1>5, <1>8, SMTT(30)
      <4> QED BY <4>2, <1>8, Monotone, Zenon
    <3> QED BY <3>1, <3>2
  <2> QED BY <2>1, <2>2, <2>3, <1>5, <1>8, Zenon DEF FrameOK
<1>9. ASSUME HasPtrSchema(f.s, f.i) PROVE Declared(f.s, f.i)
  BY <1>4, <1>5, <1>9 DEF Declared
<1>10. CASE /\ HasPtrSchema(f.s, f.i) /\ Leaf(f.s, f.i)
            /\ fr' = [fr EXCEPT ![top] = a] /\ UNCHANGED <<verdict, top, seen>>
  <2> HIDE DEF a
  <2>1. SlotReadable(f.s, f.i, seen \cup Pending(a))
    BY <1>4, <1>9, <1>10, LeafReadable
  <2>2. FrameOK(a, seen) /\ ~(a.left > 0)
    <3>1. ~(a.left > 0) /\ seen \subseteq seen
      BY <1>7, SMTT(30)
    <3> QED BY <3>1, <2>1, <1>6, <1>7, <1>8, Zenon
  <2> QED BY <2>2, <1>1, <1>3, <1>6, <1>7, <1>10, LocalStep, Zenon
<1>11. CASE /\ HasPtrSchema(f.s, f.i) /\ DepthOK /\ ToStruct(f.s, f.i)
            /\ CallFrom(a, Child(f.s, f.i)) /\ UNCHANGED verdict
  <2> HIDE DEF a
  <2> DEFINE c == Child(f.s, f.i)
  <2>1. c \in Struct /\ Inside(c) /\ SlotReadable(f.s, f.i, (seen \cup {c}) \cup Pending(a))
    BY <1>4, <1>9, <1>11, StructReadable
  <2>2. FrameOK(a, seen \cup {c})
    <3>1. ~(a.left > 0) /\ seen \subseteq seen \cup {c}
      BY <1>7
    <3> QED BY <3>1, <2>1, <1>6, <1>7, <1>8, Zenon
  <2>3. top <= MaxDepth
    BY <1>11 DEF DepthOK
  <2> HIDE DEF c
  <2>4. CallFrom(a, c) /\ verdict' = "running"
    BY <1>1, <1>11 DEF c
  <2> QED BY <2>1, <2>2, <2>3, <2>4, <1>1, <1>3, <1>4, <1>6, <1>7, CallStep
<1>12. CASE /\ HasPtrSchema(f.s, f.i) /\ DepthOK /\ ToList(f.s, f.i)
            /\ fr' = [fr EXCEPT ![top] = [a EXCEPT !.left = ElemCount(f.s, f.i),
                                                   !.elem = Elem(f.s, f.i, 0)]]
            /\ UNCHANGED <<verdict, top, seen>>
  <2> DEFINE n == ElemCount(f.s, f.i)
             e == Elem(f.s, f.i, 0)
             h == [a EXCEPT !.left = n, !.elem = e]
  <2>1. n \in Nat /\ e \in Struct
    BY <1>4, <1>9, <1>12, ListReadable
  <2>2. h \in Frame
    BY <2>1, FrameFacts, Zenon
  <2>3. h.s = f.s /\ h.new = FALSE /\ h.i = f.i + 1 /\ h.left = n /\ h.elem = e
    BY <1>6, <1>7 DEF Frame
  <2>4. fr' = [fr EXCEPT ![top] = h]
    BY <1>12
  <2> HIDE DEF h
  <2>5. h.i - 1 = f.i
    BY <2>3, <1>4
  <2>6. \A k \in 0..n - 1 : Elem(f.s, f.i, k) \in Pending(h)
    BY <2>1, <2>3, <2>5 DEF Pending
  <2>7. SlotReadable(f.s, f.i, seen \cup Pending(h))
    BY <2>6, <1>4, <1>9, <1>12, ListReadable
  <2>8. h.left > 0 =>
          /\ ToList(h.s, f.i)
          /\ h.left <= ElemCount(h.s, f.i)
          /\ h.elem = Elem(h.s, f.i, ElemCount(h.s, f.i) - h.left)
    BY <2>1, <2>3, <1>12
  <2>9. FrameOK(h, seen)
    BY <2>2, <2>3, <2>7, <2>8, <1>8, Zenon
  <2>10. h.left > 0 => top <= MaxDepth
    BY <1>12, SMTT(30) DEF DepthOK
  <2> QED BY <2>2, <2>3, <2>4, <2>9, <2>10, <1>1, <1>3, <1>12, LocalStep, Zenon
<1> QED BY <1>1, <1>2, <1>3, <1>10, <1>11, <1>12 DEF CheckSlot

(* The next element of a composite list.                                    *)
LEMMA NextElementStep == IInv /\ NextElement => IInv'
<1> SUFFICES ASSUME IInv, NextElement PROVE IInv'
  OBVIOUS
<1>1. verdict = "running" /\ top >= 0 /\ F.left > 0 /\ UNCHANGED input /\ verdict' = verdict
  BY DEF NextElement
<1>2. PICK f \in Frame : f = F
  BY <1>1, RunningFacts
<1> DEFINE j == f.i - 1
           c == ElemCount(f.s, j)
           k == c - f.left
           e == f.elem
<1>3. /\ f.s \in Struct /\ f.i \in Nat /\ f.left \in Nat /\ f.left > 0 /\ f.new = FALSE
      /\ Inside(f.s) /\ FrameOK(f, seen) /\ Sound /\ schema # SCHEMA_IDX_NONE
      /\ top <= MaxDepth
  <2>1. /\ f.s \in Struct /\ f.i \in Nat /\ f.left \in Nat /\ f.left > 0
        /\ f.new \in BOOLEAN /\ Inside(f.s) /\ FrameOK(f, seen) /\ Sound
        /\ schema # SCHEMA_IDX_NONE /\ top <= MaxDepth
    BY <1>1, <1>2, RunningFacts, FrameFacts, Zenon
  <2>2. f.new => f.left = 0
    BY <2>1 DEF FrameOK
  <2>3. f.new = FALSE
    BY <2>1, <2>2, SMTT(30)
  <2> QED BY <2>1, <2>3
<1>4. f.i > 0 /\ ToList(f.s, j) /\ f.left <= c /\ e = Elem(f.s, j, k) /\ f.i <= Slots(f.s)
  BY <1>3 DEF FrameOK
<1>5. Declared(f.s, j)
  <2>1. f.s.schema # SCHEMA_IDX_NONE
    BY <1>3, <1>4, SMTT(30) DEF Slots
  <2>2. HasStruct(f.s.schema)
    BY <2>1, <1>3, SMTT(30) DEF FrameOK
  <2>3. Slots(f.s) \in Nat
    BY <2>2, <1>3, SchemaFacts
  <2>4. j \in Nat /\ j < Slots(f.s) /\ j \in 0..f.i - 1
    BY <2>3, <1>3, <1>4
  <2>5. HasPtrSchema(f.s, j)
    BY <2>4, <1>3, ZenonT(40) DEF FrameOK, SlotReadable
  <2> QED BY <2>1, <2>2, <2>4, <2>5, <1>3, SMTT(30) DEF Declared
<1>6. c \in Nat /\ ElemWords(f.s, j) \in Nat
  BY <1>3, <1>4, <1>5, ListReadable
<1>7. k \in Nat /\ k \in 0..c - 1
  BY <1>3, <1>4, <1>6, SMTT(30)
<1>8. e \in Struct /\ Inside(e) /\ Elem(f.s, j, k + 1) \in Struct
  <2>1. k + 1 \in Nat
    BY <1>7
  <2> QED BY <2>1, <1>3, <1>4, <1>5, <1>7, ListReadable, Zenon
<1>9. [e EXCEPT !.off = @ + e.data + e.ptrs] = Elem(f.s, j, k + 1)
  <2> DEFINE w == ElemWords(f.s, j)
             t == Target(f.s, j)
  <2>1. t \in Int /\ w \in Nat /\ k \in Nat
    BY <1>3, <1>5, <1>6, <1>7, SlotFacts
  <2>2. k * w \in Nat /\ (k + 1) * w = k * w + w
    BY <2>1, SMTT(30)
  <2>3. /\ e = [off |-> t + 1 + k * w, data |-> DataWords(TagWord(f.s, j)),
                ptrs |-> PtrWords(TagWord(f.s, j)),
                schema |-> PtrSchema(f.s, j).element_struct]
        /\ Elem(f.s, j, k + 1) =
             [off |-> t + 1 + (k + 1) * w, data |-> DataWords(TagWord(f.s, j)),
              ptrs |-> PtrWords(TagWord(f.s, j)),
              schema |-> PtrSchema(f.s, j).element_struct]
    BY <1>4, Zenon DEF Elem
  <2>3a. w = DataWords(TagWord(f.s, j)) + PtrWords(TagWord(f.s, j))
    BY ZenonT(40) DEF ElemWords
  <2> HIDE DEF w, t, j, k, e
  <2>4. e.data \in Nat /\ e.ptrs \in Nat /\ w = e.data + e.ptrs
    BY <1>8, <2>3, <2>3a DEF Struct
  <2>5. t + 1 + k * w + e.data + e.ptrs = t + 1 + (k + 1) * w
    BY <2>1, <2>2, <2>4
  <2>6. e.off = t + 1 + k * w
    BY <2>3
  <2> QED BY <2>3, <2>5, <2>6
<1> DEFINE n == f.left - 1
           x == Elem(f.s, j, k + 1)
           g == [f EXCEPT !.left = n, !.elem = x]
<1>10. n \in Nat
  BY <1>3
<1>11. g \in Frame
  BY <1>8, <1>10, FrameFacts, Zenon
<1>12. g.s = f.s /\ g.new = FALSE /\ g.i = f.i /\ g.left = n /\ g.elem = x
  BY <1>3 DEF Frame
<1>13. CallFrom(g, e)
  BY <1>2, <1>9, Zenon DEF NextElement
<1> HIDE DEF g
<1>14. Pending(f) \subseteq {e} \cup Pending(g)
  <2>1. Pending(f) = {Elem(f.s, j, m) : m \in k .. c - 1}
    BY <1>3 DEF Pending
  <2>2. c - n = k + 1
    BY <1>3, <1>6
  <2>3. CASE n = 0
    <3>1. k .. c - 1 = {k}
      BY <2>2, <2>3, <1>6, <1>7, SMTT(30)
    <3> QED BY <3>1, <2>1, <1>4
  <2>4. CASE n # 0
    <3>1. Pending(g) = {Elem(f.s, j, m) : m \in k + 1 .. c - 1}
      BY <2>2, <2>4, <1>12 DEF Pending
    <3>2. \A m \in k .. c - 1 : m = k \/ m \in k + 1 .. c - 1
      BY <1>6, <1>7, SMTT(30)
    <3> QED BY <3>1, <3>2, <2>1, <1>4, SMTT(30)
  <2> QED BY <2>3, <2>4
<1>15. FrameOK(g, seen \cup {e})
  <2>1. g.s \in seen \cup {e}
    BY <1>3, <1>12 DEF FrameOK
  <2>2. \A i \in 0..g.i - 1 : SlotReadable(g.s, i, (seen \cup {e}) \cup Pending(g))
    <3>1. seen \cup Pending(f) \subseteq (seen \cup {e}) \cup Pending(g)
      BY <1>14, SMTT(30)
    <3>2. \A i \in 0..f.i - 1 : SlotReadable(f.s, i, seen \cup Pending(f))
      BY <1>3, SMTT(30) DEF FrameOK
    <3> QED BY <3>1, <3>2, <1>12, Monotone, ZenonT(40)
  <2>3. g.left > 0 =>
          /\ g.i > 0 /\ ToList(g.s, g.i - 1)
          /\ g.left <= ElemCount(g.s, g.i - 1)
          /\ g.elem = Elem(g.s, g.i - 1, ElemCount(g.s, g.i - 1) - g.left)
    <3>1. c - n = k + 1 /\ n <= c
      BY <1>3, <1>4, <1>6, SMTT(30)
    <3> QED BY <3>1, <1>4, <1>12
  <2>4. /\ g.s.schema # SCHEMA_IDX_NONE =>
             HasStruct(g.s.schema) /\ g.s.data >= Schema(g.s).data_words
        /\ g.i <= Slots(g.s)
    BY <1>3, <1>12 DEF FrameOK
  <2>5. ~g.new
    BY <1>12, Zenon
  <2> HIDE DEF e
  <2> QED BY <2>1, <2>2, <2>3, <2>4, <2>5, ZenonT(40) DEF FrameOK
<1> HIDE DEF e
<1> QED BY <1>1, <1>2, <1>3, <1>8, <1>11, <1>12, <1>13, <1>15, CallStep

(* validate_struct_at returns 1.                                            *)
LEMMA ReturnStep == IInv /\ Return => IInv'
<1> SUFFICES ASSUME IInv, Return PROVE IInv'
  OBVIOUS
<1>1. /\ verdict = "running" /\ top >= 0 /\ ~F.new /\ F.left = 0 /\ F.i >= Slots(F.s)
      /\ UNCHANGED input /\ fr' = fr /\ seen' = seen /\ top' = top - 1
      /\ verdict' = IF top = 0 THEN "accept" ELSE verdict
  BY DEF Return
<1>2. /\ StackInv /\ schema # SCHEMA_IDX_NONE /\ top \in Int /\ top <= MaxDepth + 1
      /\ MaxDepth \in Nat
  BY <1>1, ValidatorAssumption DEF IInv, TypeOK
<1>3. TypeOK'
  BY <1>1, <1>2 DEF IInv, TypeOK, input
<1>4. Readable(F.s, seen)
  <2>1. /\ Sound /\ F.s \in Struct /\ Inside(F.s) /\ FrameOK(F, seen) /\ F.i \in Nat
    BY <1>1, RunningFacts
  <2>2. StructInMessage(F.s)
    <3>1. /\ F.s.off \in Int /\ F.s.data \in Nat /\ F.s.ptrs \in Nat
          /\ hdr.words \in Nat /\ len \in Nat
      BY <2>1, SMTT(30) DEF Struct, Sound, Header
    <3>2. /\ F.s.off >= 0 /\ F.s.off + F.s.data + F.s.ptrs <= hdr.words
          /\ 8 + 8 * hdr.words <= len
      BY <2>1 DEF Inside, Sound
    <3> QED BY <3>1, <3>2 DEF StructInMessage, InMessage
  <2>3. ASSUME F.s.schema # SCHEMA_IDX_NONE
        PROVE  /\ HasStruct(F.s.schema) /\ F.s.data >= Schema(F.s).data_words
               /\ \A i \in 0..Slots(F.s) - 1 : SlotReadable(F.s, i, seen)
    <3>1. HasStruct(F.s.schema) /\ F.s.data >= Schema(F.s).data_words
      BY <2>1, <2>3, <1>1, SMTT(30) DEF FrameOK
    <3>2. Slots(F.s) \in Nat
      BY <3>1, <2>1, SchemaFacts
    <3>3. seen \cup Pending(F) = seen
      BY <1>1, SMTT(30) DEF Pending
    <3>4. \A i \in 0..F.i - 1 : SlotReadable(F.s, i, seen)
      BY <3>3, <2>1, <1>1 DEF FrameOK
    <3>5. \A i \in 0..Slots(F.s) - 1 : i \in 0..F.i - 1
      BY <3>2, <2>1, <1>1
    <3> QED BY <3>1, <3>4, <3>5, SMTT(30)
  <2> QED BY <2>2, <2>3 DEF Readable
<1>5. \A l \in 0..top : l = top \/ l \in 0..top'
  BY <1>1, <1>2
<1>6. \A s \in seen : (\E l \in 0..top' : s = fr[l].s) \/ Readable(s, seen)
  <2> SUFFICES ASSUME NEW s \in seen
               PROVE  (\E l \in 0..top' : s = fr[l].s) \/ Readable(s, seen)
    OBVIOUS
  <2>1. CASE \E l \in 0..top : s = fr[l].s
    BY <2>1, <1>4, <1>5 DEF F
  <2> QED BY <2>1, <1>2 DEF StackInv
<1>7. \A s \in seen' : (\E l \in 0..top' : s = fr'[l].s) \/ Readable(s, seen)'
  BY <1>1, <1>6, SameInput
<1>8. \A l \in 0..top' : l \in 0..top
  BY <1>1, <1>2, SMTT(30)
<1>9. \A l \in 0..top' : FrameOK(fr[l], seen)'
  BY <1>1, <1>2, <1>8, FrameSameInput, SMTT(30) DEF StackInv
<1>10. \A l \in 0..top' : fr'[l].left > 0 => l <= MaxDepth
  BY <1>1, <1>2, <1>8, SMTT(30) DEF StackInv
<1>11. StackInv'
  BY <1>1, <1>2, <1>7, <1>9, <1>10, SameInput DEF StackInv, Inside, input
<1> QED BY <1>1, <1>2, <1>3, <1>11 DEF IInv, input

-----------------------------------------------------------------------------

(* What validation has established so far holds in every reachable state.   *)
THEOREM InvariantHolds == Spec => []IInv
<1>1. Init => IInv
  <2> SUFFICES ASSUME Init PROVE IInv
    OBVIOUS
  <2>1. PICK m \in Messages : len = m.len /\ hdr = m.hdr /\ seg = m.seg
    BY DEF Init
  <2>2. IsMessage(m) /\ IsTable(table) /\ table \in Tables /\ MaxDepth \in Nat
    BY ValidatorAssumption DEF Init
  <2>3. schema \in Nat
    BY <2>2 DEF Init, IsTable, SCHEMA_IDX_NONE
  <2>4. NoStruct \in Struct
    BY SMTT(30) DEF NoStruct, Struct, SCHEMA_IDX_NONE
  <2>5. fr \in [Levels -> Frame]
    BY <2>4, NewFrameFacts DEF Init
  <2>6. TypeOK
    BY <2>1, <2>2, <2>3, <2>5 DEF Init, TypeOK, IsMessage
  <2> QED BY <2>6 DEF Init, IInv
<1>2. IInv /\ UNCHANGED vars => IInv'
  <2> SUFFICES ASSUME IInv, UNCHANGED vars PROVE IInv'
    OBVIOUS
  <2>1. UNCHANGED input /\ verdict' = verdict /\ top' = top /\ fr' = fr /\ seen' = seen
    BY DEF vars
  <2>2. TypeOK'
    BY <2>1, SMTT(30) DEF IInv, TypeOK, input
  <2>3. StackInv => StackInv'
    <3> SUFFICES ASSUME StackInv PROVE StackInv'
      BY SMTT(30)
    <3>1. \A l \in 0..top' : FrameOK(fr[l], seen)'
      BY <2>1, FrameSameInput, SMTT(30) DEF StackInv
    <3>2. \A s \in seen' : (\E l \in 0..top' : s = fr'[l].s) \/ Readable(s, seen)'
      BY <2>1, SameInput DEF StackInv
    <3> QED BY <2>1, <3>1, <3>2, SameInput, Zenon DEF StackInv, Inside, input
  <2> QED BY <2>1, <2>2, <2>3 DEF IInv, input
<1>3. IInv /\ [Next]_vars => IInv'
  BY <1>2, StartStep, CheckStructStep, CheckSlotStep, NextElementStep, ReturnStep DEF Next
<1> QED BY <1>1, <1>3, PTL DEF Spec

(* A message that capnp_validate_message accepts can be read as the         *)
(* declared type without leaving it: for every message of any length, every *)
(* schema table and every depth limit.                                      *)
THEOREM AcceptedIsReadableHolds == Spec => []AcceptedIsReadable
<1>1. IInv => AcceptedIsReadable
  <2> SUFFICES ASSUME IInv, verdict = "accept", schema # SCHEMA_IDX_NONE
               PROVE  RootStruct \in seen /\ \A s \in seen : Readable(s, seen)
    BY DEF AcceptedIsReadable
  <2>1. StackInv /\ top = -1
    BY DEF IInv
  <2>2. 0..top = {}
    BY <2>1
  <2> QED BY <2>1, <2>2 DEF StackInv
<1> QED BY InvariantHolds, <1>1, PTL

(* Neither the message nor the table can make the recursion of              *)
(* validate_struct_at deeper than the limit allows.                         *)
THEOREM TypeCorrect == Spec => []TypeOK
<1>1. IInv => TypeOK
  BY DEF IInv
<1> QED BY InvariantHolds, <1>1, PTL

-----------------------------------------------------------------------------
(* The verdict of the recursion *)

LEMMA LeastExists ==
  ASSUME NEW S, \A y \in S : y \in Nat, S # {}
  PROVE  \E x \in S : \A y \in S : x <= y
<1>1. S \subseteq Nat
  OBVIOUS
<1>2. PICK x \in S : \A y \in S : ~ (<<y, x>> \in OpToRel(<, Nat))
  BY <1>1, NatLessThanWellFounded, WFMin, Zenon
<1>3. \A y \in S : ~ (y < x)
  BY <1>2, Zenon DEF OpToRel
<1> QED BY <1>3

(* What validate_struct_at answers at a depth, from its answers one deeper. *)
Above(below, d) == [s \in Struct |-> validate_struct_at(s, d, below)]

(* At the deepest level no pointer is followed.                             *)
LEMMA Deepest ==
  ASSUME NEW p, NEW q
  PROVE  Above(p, MaxDepth + 1) = Above(q, MaxDepth + 1)
<1>1. ~(MaxDepth + 1 <= MaxDepth)
  BY ValidatorAssumption
<1>2. \A s, i : ~validate_pointer_slot(s, i, MaxDepth + 1, p)
  BY <1>1, Zenon DEF validate_pointer_slot
<1>3. \A s, i : ~validate_pointer_slot(s, i, MaxDepth + 1, q)
  BY <1>1, Zenon DEF validate_pointer_slot
<1>4. \A s : validate_struct_at(s, MaxDepth + 1, p) = validate_struct_at(s, MaxDepth + 1, q)
  <2> SUFFICES ASSUME NEW s
               PROVE  validate_struct_at(s, MaxDepth + 1, p)
                         = validate_struct_at(s, MaxDepth + 1, q)
    BY Zenon
  <2>1. (\A i \in 0..Slots(s) - 1 : validate_pointer_slot(s, i, MaxDepth + 1, p))
          <=> (\A i \in 0..Slots(s) - 1 : validate_pointer_slot(s, i, MaxDepth + 1, q))
    BY <1>2, <1>3, Zenon
  <2> QED BY <2>1, Zenon DEF validate_struct_at
<1> QED BY <1>4, Zenon DEF Above

(* The recursion is well-founded, so StructValid is what it computes.       *)
LEMMA Unfold == StructValid = [d \in Levels |-> Above(StructValid[d + 1], d)]
<1> DEFINE M == MaxDepth + 1
           From(g, k) == \A d \in Levels : M - k <= d => g[d] = Above(g[d + 1], d)
           Wrong == {k \in Nat : k <= M /\ ~\E g : g = [d \in Levels |-> g[d]] /\ From(g, k)}
<1>1. M \in Nat /\ Levels = 0..M
  BY ValidatorAssumption DEF Levels
<1>2. Wrong = {}
  <2> SUFFICES ASSUME Wrong # {} PROVE FALSE
    BY Zenon
  <2>1. PICK k \in Wrong : \A y \in Wrong : k <= y
    <3>1. \A y \in Wrong : y \in Nat
      BY Zenon
    <3> HIDE DEF Wrong
    <3> QED BY <3>1, LeastExists, Zenon
  <2>2. k \in Nat /\ k <= M /\ ~\E g : g = [d \in Levels |-> g[d]] /\ From(g, k)
    BY <2>1, Zenon
  <2>3. CASE k = 0
    <3> DEFINE g == [d \in Levels |-> Above(0, M)]
    <3>1. g = [d \in Levels |-> g[d]]
      BY Zenon
    <3>2. \A d \in Levels : M - 0 <= d => d = M
      BY <1>1
    <3>3. M \in Levels => g[M] = Above(g[M + 1], M)
      <4>1. M \in Levels => g[M] = Above(0, M)
        BY Zenon
      <4>2. Above(0, M) = Above(g[M + 1], M)
        BY Deepest, Zenon
      <4> QED BY <4>1, <4>2, Zenon
    <3>4. From(g, 0)
      <4> HIDE DEF g
      <4> QED BY <3>2, <3>3, Zenon
    <3> HIDE DEF g, From
    <3> QED BY <2>2, <2>3, <3>1, <3>4, Zenon
  <2>4. CASE k # 0
    <3> DEFINE j == k - 1
               x == M - k
    <3>1. j \in Nat /\ j <= M /\ ~(k <= j) /\ x \in Nat /\ M - j = x + 1
      BY <1>1, <2>2, <2>4
    <3>2. PICK g : g = [d \in Levels |-> g[d]] /\ From(g, j)
      <4>1. j \notin Wrong
        <5> HIDE DEF Wrong, j
        <5> QED BY <2>1, <3>1, Zenon
      <4> HIDE DEF From, j
      <4> QED BY <3>1, <4>1, Zenon
    <3> DEFINE h == [d \in Levels |-> IF d = x THEN Above(g[x + 1], x) ELSE g[d]]
    <3>3. h = [d \in Levels |-> h[d]]
      BY Zenon
    <3>4. ASSUME NEW d \in Levels, M - k <= d PROVE h[d] = Above(h[d + 1], d)
      <4>0. d \in Int /\ x \in Int /\ (d = M \/ (d + 1 \in Levels /\ d + 1 # x))
        BY <1>1, <2>2, <3>1, <3>4
      <4>1. CASE d = M
        <5>1. h[d] = IF d = x THEN Above(g[x + 1], x) ELSE g[d]
          BY Zenon
        <5>2. d # x => g[d] = Above(g[d + 1], d)
          <6>1. d # x => M - j <= d
            BY <1>1, <3>1, <3>4, <4>0
          <6> HIDE DEF j, x
          <6> QED BY <3>2, <6>1, Zenon
        <5> HIDE DEF h, x
        <5>3. \A p, q : Above(p, d) = Above(q, d)
          BY <4>1, Deepest, Zenon
        <5> QED BY <5>1, <5>2, <5>3, Zenon
      <4>2. CASE d # M
        <5>1. h[d + 1] = g[d + 1]
          <6> DEFINE n == d + 1
          <6>1. n \in Levels /\ n # x
            BY <4>0, <4>2
          <6> HIDE DEF n
          <6>2. h[n] = g[n]
            BY <6>1, Zenon
          <6> QED BY <6>2, Zenon DEF n
        <5>2. CASE d = x
          BY <5>1, <5>2, Zenon
        <5>3. CASE d # x
          <6>1. M - j <= d
            BY <1>1, <3>1, <3>4, <4>0, <5>3
          <6>2. g[d] = Above(g[d + 1], d)
            BY <3>2, <6>1, Zenon
          <6> QED BY <5>1, <5>3, <6>2, Zenon
        <5> QED BY <5>2, <5>3, Zenon
      <4> QED BY <4>1, <4>2, Zenon
    <3>5. From(h, k)
      <4> HIDE DEF h
      <4> QED BY <3>4, Zenon
    <3> HIDE DEF h, From
    <3> QED BY <2>2, <3>3, <3>5, Zenon
  <2> QED BY <2>3, <2>4, Zenon
<1>3. \E g : g = [d \in Levels |-> Above(g[d + 1], d)]
  <2>1. PICK g : g = [d \in Levels |-> g[d]] /\ From(g, M)
    <3>1. M <= M /\ M \in Nat
      BY <1>1
    <3> HIDE DEF From, M
    <3> QED BY <1>2, <3>1, Zenon
  <2>2. \A d \in Levels : M - M <= d
    BY <1>1
  <2>3. \A d \in Levels : g[d] = Above(g[d + 1], d)
    BY <2>1, <2>2, Zenon
  <2> QED BY <2>1, <2>3, Zenon
<1>4. StructValid = CHOOSE g : g = [d \in Levels |-> Above(g[d + 1], d)]
  BY Zenon DEF StructValid, Above
<1> QED BY <1>3, <1>4, Zenon

LEMMA UnfoldNext == (StructValid = [d \in Levels |-> Above(StructValid[d + 1], d)])'
BY Unfold, PTL

(* What the recursion answers depends on the message and the table only.    *)
LEMMA SameVerdicts ==
  ASSUME UNCHANGED input
  PROVE  /\ StructValid' = StructValid
         /\ \A s, i, l, b : validate_pointer_slot(s, i, l, b)' <=> validate_pointer_slot(s, i, l, b)
<1> table' = table /\ schema' = schema /\ len' = len /\ hdr' = hdr /\ seg' = seg
  BY DEF input
<1>1. /\ \A s, i : Ptr(s, i)' = Ptr(s, i) /\ Target(s, i)' = Target(s, i)
      /\ \A s, i : PtrSchema(s, i)' = PtrSchema(s, i)
      /\ \A s, i : HasPtrSchema(s, i)' <=> HasPtrSchema(s, i)
      /\ \A s, i : Slot(s, i)' = Slot(s, i) /\ Child(s, i)' = Child(s, i)
  BY Zenon DEF Ptr, Target, Slot, PtrSchema, Schema, HasPtrSchema, Child
<1>2. \A o, n : in_bounds(o, n)' <=> in_bounds(o, n)
  BY DEF in_bounds
<1>3. /\ \A s, i : Leaf(s, i)' <=> Leaf(s, i)
      /\ \A s, i : ToStruct(s, i)' <=> ToStruct(s, i)
  <2>1. \A s, i : Leaf(s, i)' <=> Leaf(s, i)
    BY <1>1 DEF Leaf, SizeFits, in_bounds
  <2>2. \A s, i : ToStruct(s, i)' <=> ToStruct(s, i)
    BY <1>1 DEF ToStruct, in_bounds
  <2> QED BY <2>1, <2>2
<1>4. /\ \A s, i : ToList(s, i)' <=> ToList(s, i)
      /\ \A s, i : ElemCount(s, i)' = ElemCount(s, i)
      /\ \A s, i, n : Elem(s, i, n)' = Elem(s, i, n)
      /\ \A s : Slots(s)' = Slots(s) /\ Schema(s)' = Schema(s)
      /\ \A n : HasStruct(n)' <=> HasStruct(n)
  BY SameInput, Zenon
<1>5. \A s, i : in_bounds(Slot(s, i), 1)' <=> in_bounds(Slot(s, i), 1)
  BY <1>1 DEF in_bounds
<1>6. \A s, i, l, b : validate_pointer_slot(s, i, l, b)' <=> validate_pointer_slot(s, i, l, b)
  <2> SUFFICES ASSUME NEW s, NEW i, NEW l, NEW b
               PROVE  validate_pointer_slot(s, i, l, b)' <=> validate_pointer_slot(s, i, l, b)
    BY Zenon
  <2> QED BY <1>1, <1>3, <1>4, <1>5, Zenon DEF validate_pointer_slot
<1>7. ASSUME NEW d
      PROVE  Above(StructValid[d + 1], d)' = Above(StructValid'[d + 1], d)
  <2>1. ASSUME NEW s, NEW i
        PROVE  validate_pointer_slot(s, i, d, StructValid[d + 1])'
                 <=> validate_pointer_slot(s, i, d, StructValid'[d + 1])
    BY <1>1, <1>3, <1>4, <1>5, Zenon DEF validate_pointer_slot
  <2>2. ASSUME NEW s
        PROVE  validate_struct_at(s, d, StructValid[d + 1])'
                 = validate_struct_at(s, d, StructValid'[d + 1])
    <3>1. (\A i \in 0..Slots(s) - 1 : validate_pointer_slot(s, i, d, StructValid[d + 1]))'
            <=> \A i \in 0..Slots(s) - 1 : validate_pointer_slot(s, i, d, StructValid'[d + 1])
      BY <1>4, <2>1, Zenon
    <3> QED BY <1>4, <3>1, Zenon DEF validate_struct_at
  <2> QED BY <2>2, Zenon DEF Above
<1>8. PICK h : h = StructValid'
  BY Zenon
<1>9. h = [d \in Levels |-> Above(h[d + 1], d)]
  <2>1. StructValid' = [d \in Levels |-> Above(StructValid[d + 1], d)']
    BY UnfoldNext, Zenon DEF Levels
  <2>2. StructValid' = [d \in Levels |-> Above(StructValid'[d + 1], d)]
    BY <1>7, <2>1, Zenon
  <2> QED BY <1>8, <2>2, Zenon
<1> DEFINE g == StructValid
           M == MaxDepth + 1
           Wrong == {k \in Nat : k <= M /\ h[M - k] # g[M - k]}
<1>10. g = [d \in Levels |-> Above(g[d + 1], d)]
  BY Unfold, Zenon
<1> HIDE DEF g
<1>11. M \in Nat /\ Levels = 0..M
  BY ValidatorAssumption DEF Levels
<1>12. \A d \in Levels : h[d] = Above(h[d + 1], d) /\ g[d] = Above(g[d + 1], d)
  <2> SUFFICES ASSUME NEW d \in Levels
               PROVE  h[d] = Above(h[d + 1], d) /\ g[d] = Above(g[d + 1], d)
    BY Zenon
  <2> DEFINE H(x) == Above(h[x + 1], x)
             G(x) == Above(g[x + 1], x)
  <2>1. h = [x \in Levels |-> H(x)] /\ g = [x \in Levels |-> G(x)]
    BY <1>9, <1>10, Zenon
  <2> HIDE DEF H, G
  <2>2. h[d] = H(d) /\ g[d] = G(d)
    BY <2>1, Zenon
  <2> QED BY <2>2, Zenon DEF H, G
<1>13. Wrong = {}
  <2> SUFFICES ASSUME Wrong # {} PROVE FALSE
    BY Zenon
  <2>1. PICK k \in Wrong : \A y \in Wrong : k <= y
    <3>1. \A y \in Wrong : y \in Nat
      BY Zenon
    <3> HIDE DEF Wrong
    <3> QED BY <3>1, LeastExists, Zenon
  <2> DEFINE d == M - k
  <2>2. k \in Nat /\ k <= M /\ h[d] # g[d] /\ d \in Levels
    BY <1>11, <2>1
  <2>3. k # 0
    <3>1. k = 0 => d = M
      BY <1>11
    <3>2. Above(h[M + 1], M) = Above(g[M + 1], M)
      BY Deepest, Zenon
    <3> HIDE DEF d, M
    <3> QED BY <1>12, <2>2, <3>1, <3>2, Zenon
  <2> DEFINE j == k - 1
  <2>4. j \in Nat /\ j <= M /\ ~(k <= j) /\ M - j = d + 1
    BY <1>11, <2>2, <2>3
  <2>5. h[d + 1] = g[d + 1]
    <3>1. j \notin Wrong
      <4> HIDE DEF j, Wrong
      <4> QED BY <2>1, <2>4, Zenon
    <3> HIDE DEF j, d, M
    <3> QED BY <2>4, <3>1, Zenon
  <2> HIDE DEF d
  <2> QED BY <1>12, <2>2, <2>5, Zenon
<1>14. ASSUME NEW d \in Levels PROVE h[d] = g[d]
  <2> DEFINE k == M - d
  <2>1. k \in Nat /\ k <= M /\ M - k = d
    BY <1>11
  <2> HIDE DEF k, M
  <2> QED BY <1>13, <2>1, Zenon
<1>15. h = g
  <2>1. h = [d \in Levels |-> h[d]] /\ g = [d \in Levels |-> g[d]]
    BY <1>9, <1>10, Zenon
  <2>2. [d \in Levels |-> h[d]] = [d \in Levels |-> g[d]]
    BY <1>14, Zenon
  <2> QED BY <2>1, <2>2, Zenon
<1> QED BY <1>6, <1>8, <1>15, Zenon DEF g

(* What validate_struct_at answers for a struct.                            *)
LEMMA ValidIs ==
  ASSUME NEW d \in Levels, NEW s \in Struct
  PROVE  StructValid[d][s] = 1 <=>
           \/ s.schema = SCHEMA_IDX_NONE
           \/ /\ HasStruct(s.schema)
              /\ s.data >= Schema(s).data_words
              /\ \A i \in 0..Slots(s) - 1 : validate_pointer_slot(s, i, d, StructValid[d + 1])
<1> DEFINE g == StructValid
           G(x) == Above(g[x + 1], x)
           ok == \/ s.schema = SCHEMA_IDX_NONE
                 \/ /\ HasStruct(s.schema)
                    /\ s.data >= Schema(s).data_words
                    /\ \A i \in 0..Slots(s) - 1 : validate_pointer_slot(s, i, d, g[d + 1])
<1>1. g = [x \in Levels |-> G(x)]
  BY Unfold, Zenon
<1>2. g[d] = Above(g[d + 1], d)
  <2>1. g[d] = G(d)
    <3> HIDE DEF g, G
    <3> QED BY <1>1, Zenon
  <2> QED BY <2>1, Zenon
<1>3. g[d][s] = validate_struct_at(s, d, g[d + 1])
  <2> HIDE DEF g
  <2> QED BY <1>2, Zenon DEF Above
<1>4. validate_struct_at(s, d, g[d + 1]) = IF ok THEN 1 ELSE 0
  BY Zenon DEF validate_struct_at
<1>5. 0 # 1
  OBVIOUS
<1> HIDE DEF ok
<1>6. g[d][s] = 1 <=> ok
  BY <1>3, <1>4, <1>5, Zenon
<1> QED BY <1>6, Zenon DEF ok

(* What is left to do in frame f, at depth l, succeeds.                     *)
Rest(f, l) ==
  IF f.new THEN StructValid[l][f.s] = 1
  ELSE /\ \A i \in f.i..Slots(f.s) - 1 : validate_pointer_slot(f.s, i, l, StructValid[l + 1])
       /\ \A e \in Pending(f) : StructValid[l + 1][e] = 1

RootValid == StructValid[0][RootStruct] = 1

(* The inductive invariant behind VerdictIsRecursive.  While validation     *)
(* runs, the recursion accepts the message if and only if it accepts what   *)
(* is left to do in every frame of the stack.                               *)
Deciding ==
  seen # {} =>
    /\ verdict = "accept" => RootValid
    /\ verdict = "reject" => ~RootValid
    /\ verdict = "running" => (RootValid <=> \A l \in 0..top : Rest(fr[l], l))

LEMMA SameRest ==
  ASSUME UNCHANGED input
  PROVE  (RootValid' <=> RootValid) /\ \A f, l : Rest(f, l)' <=> Rest(f, l)
<1>1. /\ StructValid' = StructValid /\ RootStruct' = RootStruct
      /\ \A s, i, l, b : validate_pointer_slot(s, i, l, b)' <=> validate_pointer_slot(s, i, l, b)
      /\ \A s : Slots(s)' = Slots(s)
  BY SameVerdicts, SameInput, Zenon
<1>2. RootValid' <=> RootValid
  BY <1>1, Zenon DEF RootValid
<1>3. ASSUME NEW f, NEW l PROVE Rest(f, l)' <=> Rest(f, l)
  <2>1. Pending(f)' = Pending(f)
    BY SameInput DEF Pending
  <2>2. PICK b : b = StructValid[l + 1]
    BY Zenon
  <2>3. StructValid'[l + 1] = b /\ StructValid'[l][f.s] = StructValid[l][f.s]
    BY <1>1, <2>2, Zenon
  <2>4. ASSUME NEW i
        PROVE  validate_pointer_slot(f.s, i, l, StructValid[l + 1])'
                 <=> validate_pointer_slot(f.s, i, l, StructValid[l + 1])
    <3>1. validate_pointer_slot(f.s, i, l, StructValid[l + 1])'
            <=> validate_pointer_slot(f.s, i, l, b)'
      BY <2>3, Zenon DEF validate_pointer_slot
    <3>2. validate_pointer_slot(f.s, i, l, b)' <=> validate_pointer_slot(f.s, i, l, b)
      BY <1>1, Zenon
    <3>3. validate_pointer_slot(f.s, i, l, b)
            <=> validate_pointer_slot(f.s, i, l, StructValid[l + 1])
      BY <2>2, Zenon
    <3> QED BY <3>1, <3>2, <3>3, Zenon
  <2>5. Slots(f.s)' = Slots(f.s)
    BY <1>1, Zenon
  <2> QED BY <2>1, <2>2, <2>3, <2>4, <2>5, Zenon DEF Rest
<1> QED BY <1>2, <1>3, Zenon

(* What the invariants say of the top of the stack.                         *)
LEMMA TopFacts ==
  ASSUME IInv, verdict = "running"
  PROVE  /\ top \in Int /\ top >= 0 /\ top \in Levels /\ top \in 0..top /\ seen # {}
         /\ fr \in [Levels -> Frame] /\ 0..top \subseteq Levels /\ F = fr[top]
<1>1. top >= 0 /\ StackInv
  BY DEF IInv
<1>2. top \in -1..MaxDepth + 1 /\ fr \in [Levels -> Frame] /\ MaxDepth \in Nat
  BY ValidatorAssumption DEF IInv, TypeOK
<1>3. seen # {}
  BY <1>1, Zenon DEF StackInv
<1>4. F = fr[top]
  BY DEF F
<1> QED BY <1>1, <1>2, <1>3, <1>4 DEF Levels

(* A rejection in the running frame is a rejection of the message.          *)
LEMMA RejectDecides ==
  ASSUME IInv, Deciding, verdict = "running", UNCHANGED input, Finish("reject"), ~Rest(F, top)
  PROVE  Deciding'
<1>1. top \in 0..top /\ seen # {} /\ F = fr[top]
  BY TopFacts, Zenon
<1>2. ~RootValid
  BY <1>1, Zenon DEF Deciding
<1>3. ~RootValid'
  BY <1>2, SameRest, Zenon
<1>4. verdict' = "reject" /\ "reject" # "accept" /\ "reject" # "running"
  BY DEF Finish
<1> QED BY <1>3, <1>4, Zenon DEF Deciding

(* A step inside the running frame.                                         *)
LEMMA LocalDecides ==
  ASSUME IInv, Deciding, verdict = "running", UNCHANGED <<input, verdict, top, seen>>,
         NEW g, fr' = [fr EXCEPT ![top] = g], Rest(g, top) <=> Rest(F, top)
  PROVE  Deciding'
<1>1. /\ top \in 0..top /\ seen # {} /\ F = fr[top] /\ top \in Levels /\ 0..top \subseteq Levels
      /\ fr \in [Levels -> Frame]
  BY TopFacts, Zenon
<1>2. verdict' = "running" /\ top' = top /\ UNCHANGED input
  BY Zenon
<1>3. fr'[top] = g /\ \A l \in 0..top : l # top => fr'[l] = fr[l]
  BY <1>1, Zenon
<1>4. RootValid <=> \A l \in 0..top : Rest(fr[l], l)
  BY <1>1, Zenon DEF Deciding
<1>5. ASSUME NEW l \in 0..top PROVE Rest(fr[l], l)' <=> Rest(fr[l], l)
  <2>1. PICK f : f = fr'[l]
    BY Zenon
  <2>2. Rest(fr[l], l)' <=> Rest(f, l)'
    BY <2>1, ZenonT(40) DEF Rest, Pending
  <2>3. Rest(f, l)' <=> Rest(f, l)
    BY <1>2, SameRest, Zenon
  <2>4. Rest(f, l) <=> Rest(fr[l], l)
    <3>1. CASE l = top
      <4>1. f = g
        BY <1>3, <2>1, <3>1, Zenon
      <4> QED BY <1>1, <3>1, <4>1, Zenon
    <3>2. CASE l # top
      <4>1. f = fr[l]
        BY <1>3, <2>1, <3>2, Zenon
      <4> QED BY <4>1, Zenon
    <3> QED BY <3>1, <3>2, Zenon
  <2> QED BY <2>2, <2>3, <2>4, Zenon
<1>6. RootValid' <=> RootValid
  BY <1>2, SameRest, Zenon
<1>7. "running" # "accept" /\ "running" # "reject"
  OBVIOUS
<1> QED BY <1>2, <1>4, <1>5, <1>6, <1>7, Zenon DEF Deciding

(* A call of validate_struct_at takes over a part of what is left to do.    *)
LEMMA CallDecides ==
  ASSUME IInv, Deciding, verdict = "running", verdict' = "running", UNCHANGED input,
         top <= MaxDepth, NEW g, NEW s, CallFrom(g, s),
         (Rest(g, top) /\ StructValid[top + 1][s] = 1) <=> Rest(F, top)
  PROVE  Deciding'
<1> DEFINE t == top + 1
<1>1. /\ top \in 0..top /\ seen # {} /\ F = fr[top] /\ top \in Levels /\ 0..top \subseteq Levels
      /\ fr \in [Levels -> Frame] /\ top \in Int /\ top >= 0
  BY TopFacts, Zenon
<1>2. /\ t \in Levels /\ t # top /\ 0..t = 0..top \cup {t} /\ t \notin 0..top
  BY <1>1, ValidatorAssumption DEF Levels
<1>3. /\ top' = t /\ fr'[top] = g /\ fr'[t] = NewFrame(s)
      /\ \A l \in 0..top : l # top => fr'[l] = fr[l]
  <2>1. /\ top' = t
        /\ fr' = [l \in Levels |-> CASE l = top     -> g
                                     [] l = t       -> NewFrame(s)
                                     [] OTHER       -> fr[l]]
    BY Zenon DEF CallFrom
  <2>2. \A l \in 0..top : l \in Levels /\ l # t
    BY <1>1, <1>2, Zenon
  <2> HIDE DEF t
  <2> QED BY <1>1, <1>2, <2>1, <2>2
<1> HIDE DEF t
<1>4. RootValid <=> \A l \in 0..top : Rest(fr[l], l)
  BY <1>1, Zenon DEF Deciding
<1>5. ASSUME NEW l PROVE Rest(fr[l], l)' <=> Rest(fr'[l], l)
  <2>1. PICK f : f = fr'[l]
    BY Zenon
  <2>2. Rest(fr[l], l)' <=> Rest(f, l)'
    BY <2>1, ZenonT(40) DEF Rest, Pending
  <2>3. Rest(f, l)' <=> Rest(f, l)
    BY SameRest, Zenon
  <2> QED BY <2>1, <2>2, <2>3, Zenon
<1>6. Rest(fr'[t], t) <=> StructValid[t][s] = 1
  <2>1. NewFrame(s).new = TRUE /\ NewFrame(s).s = s
    BY DEF NewFrame
  <2> QED BY <1>3, <2>1, ZenonT(40) DEF Rest
<1>7. (\A l \in 0..t : Rest(fr'[l], l)) <=> \A l \in 0..top : Rest(fr[l], l)
  <2>1. (Rest(fr'[top], top) /\ Rest(fr'[t], t)) <=> Rest(fr[top], top)
    BY <1>1, <1>3, <1>6, Zenon DEF t
  <2>2. \A l \in 0..top : l # top => (Rest(fr'[l], l) <=> Rest(fr[l], l))
    BY <1>3, Zenon
  <2> QED BY <1>1, <1>2, <2>1, <2>2, Zenon
<1>8. (\A l \in 0..top : Rest(fr[l], l))' <=> \A l \in 0..t : Rest(fr'[l], l)
  BY <1>3, <1>5, Zenon
<1>9. RootValid' <=> RootValid
  BY SameRest, Zenon
<1>10. "running" # "accept" /\ "running" # "reject"
  OBVIOUS
<1> QED BY <1>4, <1>7, <1>8, <1>9, <1>10, Zenon DEF Deciding

LEMMA StartDecides == IInv /\ Deciding /\ Start => Deciding'
<1> SUFFICES ASSUME IInv, Deciding, Start PROVE Deciding'
  OBVIOUS
<1>1. verdict = "start" /\ UNCHANGED input /\ top = -1 /\ seen = {}
  BY DEF Start, IInv
<1>2. CASE seen' = seen
  BY <1>1, <1>2, Zenon DEF Deciding
<1>3. CASE verdict' = "running" /\ CallFrom(NewFrame(NoStruct), RootStruct)
  <2>1. top' = 0 /\ 0..top' = {0} /\ fr'[0] = NewFrame(RootStruct)
    BY <1>1, <1>3, ValidatorAssumption DEF CallFrom, Levels
  <2>2. fr'[0].new = TRUE /\ fr'[0].s = RootStruct
    BY <2>1 DEF NewFrame
  <2>3. RootStruct' = RootStruct
    BY <1>1, SameInput, Zenon
  <2>4. Rest(fr[0], 0)' <=> RootValid'
    BY <2>2, <2>3, Zenon DEF Rest, RootValid
  <2>5. (\A l \in 0..top : Rest(fr[l], l))' <=> Rest(fr[0], 0)'
    BY <2>1, Zenon
  <2>6. "running" # "accept" /\ "running" # "reject"
    OBVIOUS
  <2> QED BY <1>3, <2>4, <2>5, <2>6, Zenon DEF Deciding
<1> QED BY <1>2, <1>3, Zenon DEF Start, Finish

LEMMA CheckStructDecides == IInv /\ Deciding /\ CheckStruct => Deciding'
<1> SUFFICES ASSUME IInv, Deciding, CheckStruct PROVE Deciding'
  OBVIOUS
<1>1. verdict = "running" /\ F.new /\ UNCHANGED input
  BY DEF CheckStruct
<1>2. PICK f \in Frame : f = F
  BY <1>1, RunningFacts
<1>3. /\ f.s \in Struct /\ f.new = TRUE /\ f.i = 0 /\ f.left = 0 /\ Sound
      /\ top \in Levels
  BY <1>1, <1>2, RunningFacts, TopFacts, Zenon DEF FrameOK
<1> DEFINE s == f.s
           B == StructValid[top + 1]
           slots == \A i \in 0..Slots(s) - 1 : validate_pointer_slot(s, i, top, B)
<1>4. Rest(f, top) <=>
        \/ s.schema = SCHEMA_IDX_NONE
        \/ HasStruct(s.schema) /\ s.data >= Schema(s).data_words /\ slots
  <2>1. Rest(f, top) <=> StructValid[top][s] = 1
    BY <1>3, Zenon DEF Rest
  <2>2. StructValid[top][s] = 1 <=>
          \/ s.schema = SCHEMA_IDX_NONE
          \/ HasStruct(s.schema) /\ s.data >= Schema(s).data_words /\ slots
    BY <1>3, ValidIs, Zenon
  <2> QED BY <2>1, <2>2, Zenon
<1> HIDE DEF slots, s
<1>5. HasStruct(s.schema) => (s.data >= Schema(s).data_words <=> ~(s.data < Schema(s).data_words))
  <2> SUFFICES ASSUME HasStruct(s.schema)
               PROVE  s.data >= Schema(s).data_words <=> ~(s.data < Schema(s).data_words)
    BY Zenon
  <2>1. Schema(s) \in StructSchema
    BY <1>3, SchemaFacts, Zenon DEF s
  <2>2. Schema(s).data_words \in Nat /\ s.data \in Nat
    BY <1>3, <2>1 DEF StructSchema, Struct, s
  <2> QED BY <2>2
<1>6. CASE /\ s.schema # SCHEMA_IDX_NONE
           /\ ~HasStruct(s.schema) \/ s.data < Schema(s).data_words
           /\ Finish("reject")
  <2>1. ~Rest(F, top)
    BY <1>2, <1>4, <1>5, <1>6, Zenon
  <2> QED BY <1>1, <1>6, <2>1, RejectDecides, Zenon
<1>7. CASE /\ s.schema # SCHEMA_IDX_NONE =>
                HasStruct(s.schema) /\ ~(s.data < Schema(s).data_words)
           /\ fr' = [fr EXCEPT ![top] = [F EXCEPT !.new = FALSE]]
           /\ UNCHANGED <<verdict, top, seen>>
  <2> DEFINE g == [f EXCEPT !.new = FALSE]
  <2>1. g.s = s /\ g.new = FALSE /\ g.i = 0 /\ g.left = 0
    BY <1>2, <1>3 DEF Frame, s
  <2>2. fr' = [fr EXCEPT ![top] = g]
    BY <1>2, <1>7, Zenon
  <2> HIDE DEF g
  <2>3. Pending(g) = {}
    BY <2>1, Zenon DEF Pending
  <2>4. Rest(g, top) <=> slots
    BY <2>1, <2>3, Zenon DEF Rest, slots
  <2>5. s.schema = SCHEMA_IDX_NONE => slots
    <3>1. s.schema = SCHEMA_IDX_NONE => 0..Slots(s) - 1 = {}
      BY DEF Slots
    <3> QED BY <3>1, Zenon DEF slots
  <2>6. Rest(g, top) <=> Rest(F, top)
    BY <1>2, <1>4, <1>5, <1>7, <2>4, <2>5, Zenon
  <2> QED BY <1>1, <1>7, <2>2, <2>6, LocalDecides, Zenon
<1> QED BY <1>2, <1>6, <1>7, Zenon DEF CheckStruct, s

LEMMA CheckSlotDecides == IInv /\ Deciding /\ CheckSlot => Deciding'
<1> SUFFICES ASSUME IInv, Deciding, CheckSlot PROVE Deciding'
  OBVIOUS
<1>1. /\ verdict = "running" /\ top >= 0 /\ ~F.new /\ F.left = 0 /\ F.i < Slots(F.s)
      /\ UNCHANGED input
  BY DEF CheckSlot
<1>2. PICK f \in Frame : f = F
  BY <1>1, RunningFacts
<1>3. /\ f.s \in Struct /\ f.i \in Nat /\ f.left = 0 /\ f.new = FALSE
      /\ Inside(f.s) /\ FrameOK(f, seen) /\ Sound /\ f.i < Slots(f.s)
  BY <1>1, <1>2, RunningFacts, FrameFacts, ZenonT(40)
<1>4. f.s.schema # SCHEMA_IDX_NONE /\ HasStruct(f.s.schema) /\ Slots(f.s) \in Nat
  <2>1. f.s.schema # SCHEMA_IDX_NONE
    BY <1>3, SMTT(30) DEF Slots
  <2>2. HasStruct(f.s.schema)
    BY <1>3, <2>1 DEF FrameOK
  <2> QED BY <1>3, <2>1, <2>2, SchemaFacts, Zenon
<1> DEFINE s == f.s
           i == f.i
           B == StructValid[top + 1]
           this == validate_pointer_slot(s, i, top, B)
           later == \A n \in i + 1..Slots(s) - 1 : validate_pointer_slot(s, n, top, B)
           a == Advanced(f)
<1>5. Rest(F, top) <=> this /\ later
  <2>1. \A n : n \in i..Slots(s) - 1 <=> (n = i \/ n \in i + 1..Slots(s) - 1)
    BY <1>3, <1>4
  <2>2. Pending(f) = {}
    BY <1>3, Zenon DEF Pending
  <2>3. Rest(f, top) <=> \A n \in i..Slots(s) - 1 : validate_pointer_slot(s, n, top, B)
    BY <1>3, <2>2, Zenon DEF Rest
  <2> HIDE DEF s, i, B
  <2> QED BY <1>2, <2>1, <2>3, Zenon
<1>6. a.s = s /\ a.new = FALSE /\ a.i = i + 1 /\ a.left = 0
  BY <1>3 DEF Advanced, Frame
<1>7. \A h : h.s = s /\ h.new = FALSE /\ h.i = i + 1 =>
        (Rest(h, top) <=> later /\ \A e \in Pending(h) : B[e] = 1)
  BY Zenon DEF Rest
<1>8. ASSUME HasPtrSchema(s, i) PROVE Declared(s, i)
  BY <1>3, <1>4, <1>8 DEF Declared
<1>9. this <=> /\ HasPtrSchema(s, i) /\ DepthOK /\ in_bounds(Slot(s, i), 1)
               /\ \/ Leaf(s, i)
                  \/ ToStruct(s, i) /\ B[Child(s, i)] = 1
                  \/ /\ ToList(s, i)
                     /\ \A n \in 0..ElemCount(s, i) - 1 : B[Elem(s, i, n)] = 1
  BY Zenon DEF validate_pointer_slot, DepthOK
<1>10. ~(ToStruct(s, i) /\ ToList(s, i))
  BY DEF ToStruct, ToList
<1> HIDE DEF this, later, a, s, i, B
<1>11. CASE /\ \/ ~HasPtrSchema(s, i) \/ ~DepthOK \/ ~in_bounds(Slot(s, i), 1)
               \/ ~Leaf(s, i) /\ ~ToStruct(s, i) /\ ~ToList(s, i)
            /\ Finish("reject")
  <2>1. ~Rest(F, top)
    BY <1>5, <1>9, <1>11, Zenon
  <2> QED BY <1>1, <1>11, <2>1, RejectDecides, Zenon
<1>12. CASE /\ HasPtrSchema(s, i) /\ DepthOK /\ in_bounds(Slot(s, i), 1) /\ Leaf(s, i)
            /\ fr' = [fr EXCEPT ![top] = a] /\ UNCHANGED <<verdict, top, seen>>
  <2>1. Pending(a) = {}
    BY <1>6, Zenon DEF Pending
  <2>2. Rest(a, top) <=> Rest(F, top)
    BY <1>5, <1>6, <1>7, <1>9, <1>12, <2>1, Zenon
  <2> QED BY <1>1, <1>12, <2>2, LocalDecides, Zenon
<1>13. CASE /\ HasPtrSchema(s, i) /\ DepthOK /\ in_bounds(Slot(s, i), 1)
            /\ ~Leaf(s, i) /\ ToStruct(s, i)
            /\ CallFrom(a, Child(s, i)) /\ UNCHANGED verdict
  <2>1. Pending(a) = {}
    BY <1>6, Zenon DEF Pending
  <2>2. (Rest(a, top) /\ StructValid[top + 1][Child(s, i)] = 1) <=> Rest(F, top)
    BY <1>5, <1>6, <1>7, <1>9, <1>10, <1>13, <2>1, Zenon DEF B
  <2>3. top <= MaxDepth /\ verdict' = "running"
    BY <1>1, <1>13, Zenon DEF DepthOK
  <2> DEFINE c == Child(s, i)
  <2> HIDE DEF c
  <2>4. CallFrom(a, c) /\ ((Rest(a, top) /\ StructValid[top + 1][c] = 1) <=> Rest(F, top))
    BY <1>13, <2>2, Zenon DEF c
  <2> QED BY <1>1, <2>3, <2>4, CallDecides, Zenon
<1>14. CASE /\ HasPtrSchema(s, i) /\ DepthOK /\ in_bounds(Slot(s, i), 1)
            /\ ~Leaf(s, i) /\ ~ToStruct(s, i) /\ ToList(s, i)
            /\ fr' = [fr EXCEPT ![top] = [a EXCEPT !.left = ElemCount(s, i), !.elem = Elem(s, i, 0)]]
            /\ UNCHANGED <<verdict, top, seen>>
  <2> DEFINE n == ElemCount(s, i)
             e == Elem(s, i, 0)
             h == [a EXCEPT !.left = n, !.elem = e]
  <2>1. n \in Nat /\ e \in Struct
    BY <1>3, <1>8, <1>14, ListReadable
  <2>2. h.s = s /\ h.new = FALSE /\ h.i = i + 1 /\ h.left = n
    <3>1. a \in Frame
      BY FrameFacts, Zenon DEF a
    <3> QED BY <1>6, <3>1 DEF Frame
  <2>3. fr' = [fr EXCEPT ![top] = h]
    BY <1>14, Zenon
  <2> HIDE DEF h
  <2>4. h.i - 1 = i /\ n - h.left = 0 /\ (n = 0 => 0..n - 1 = {})
    BY <1>3, <2>1, <2>2 DEF i
  <2>5. Pending(h) = {Elem(s, i, k) : k \in 0..n - 1}
    <3>1. CASE n = 0
      BY <2>2, <2>4, <3>1, Zenon DEF Pending
    <3>2. CASE n # 0
      BY <2>2, <2>4, <3>2, Zenon DEF Pending
    <3> QED BY <3>1, <3>2, Zenon
  <2>6. (\A x \in Pending(h) : B[x] = 1) <=> \A k \in 0..n - 1 : B[Elem(s, i, k)] = 1
    <3> DEFINE El(k) == Elem(s, i, k)
               P == Pending(h)
    <3>1. P = {El(k) : k \in 0..n - 1}
      BY <2>5, Zenon
    <3> HIDE DEF El, P, n
    <3>2. (\A x \in P : B[x] = 1) <=> \A k \in 0..n - 1 : B[El(k)] = 1
      BY <3>1, Zenon
    <3> QED BY <3>2, Zenon DEF El, P
  <2>7. Rest(h, top) <=> Rest(F, top)
    BY <1>5, <1>7, <1>9, <1>14, <2>2, <2>6, Zenon
  <2> QED BY <1>1, <1>14, <2>3, <2>7, LocalDecides, Zenon
<1> QED BY <1>2, <1>11, <1>12, <1>13, <1>14, Zenon DEF CheckSlot, s, i, a

LEMMA NextElementDecides == IInv /\ Deciding /\ NextElement => Deciding'
<1> SUFFICES ASSUME IInv, Deciding, NextElement PROVE Deciding'
  OBVIOUS
<1>1. verdict = "running" /\ F.left > 0 /\ UNCHANGED input /\ verdict' = "running"
  BY DEF NextElement
<1>2. PICK f \in Frame : f = F
  BY <1>1, RunningFacts
<1> DEFINE j == f.i - 1
           c == ElemCount(f.s, j)
           e == f.elem
           El(k) == Elem(f.s, j, k)
           n == f.left - 1
           after == [e EXCEPT !.off = @ + e.data + e.ptrs]
           g == [f EXCEPT !.left = n, !.elem = after]
           B == StructValid[top + 1]
<1>3. /\ f.s \in Struct /\ f.i \in Nat /\ f.left \in Nat /\ f.left > 0 /\ FrameOK(f, seen)
      /\ Inside(f.s) /\ Sound /\ top <= MaxDepth /\ f.new \in BOOLEAN
  BY <1>1, <1>2, RunningFacts, FrameFacts, Zenon
<1>4. /\ f.new = FALSE /\ f.i > 0 /\ ToList(f.s, j) /\ f.left <= c /\ e = El(c - f.left)
      /\ f.i <= Slots(f.s)
  <2>1. f.new = FALSE
    BY <1>3 DEF FrameOK
  <2>2. f.i > 0 /\ ToList(f.s, j) /\ f.left <= c /\ e = El(c - f.left) /\ f.i <= Slots(f.s)
    BY <1>3, <2>1, Zenon DEF FrameOK
  <2> QED BY <2>1, <2>2, Zenon
<1>5. c \in Int
  <2>1. Declared(f.s, j)
    <3>1. f.s.schema # SCHEMA_IDX_NONE
      BY <1>3, <1>4, SMTT(30) DEF Slots
    <3>2. HasStruct(f.s.schema) /\ SlotReadable(f.s, j, seen \cup Pending(f))
      <4>1. j \in 0..f.i - 1
        BY <1>3, <1>4
      <4> HIDE DEF j
      <4> QED BY <1>3, <1>4, <3>1, <4>1, Zenon DEF FrameOK
    <3>3. HasPtrSchema(f.s, j)
      BY <3>2, Zenon DEF SlotReadable
    <3>4. Slots(f.s) \in Nat
      BY <1>3, <3>2, SchemaFacts, Zenon
    <3> QED BY <1>3, <1>4, <3>1, <3>2, <3>3, <3>4 DEF Declared
  <2>2. c \in Nat
    <3> HIDE DEF j
    <3> QED BY <1>3, <1>4, <2>1, ListReadable, Zenon
  <2> QED BY <2>2
<1>6. g.s = f.s /\ g.new = FALSE /\ g.i = f.i /\ g.left = f.left - 1
  BY <1>3, <1>4 DEF Frame
<1>7. CallFrom(g, e)
  BY <1>2, Zenon DEF NextElement
<1> HIDE DEF g, e
<1>8. Pending(f) = {El(k) : k \in c - f.left..c - 1}
  <2>1. f.left # 0
    BY <1>3
  <2> QED BY <2>1, Zenon DEF Pending
<1>9. Pending(g) = {El(k) : k \in c - g.left..c - 1}
  <2>1. CASE g.left = 0
    <3>1. c - g.left..c - 1 = {}
      BY <1>5, <2>1
    <3> QED BY <2>1, <3>1, Zenon DEF Pending
  <2>2. CASE g.left # 0
    BY <1>6, <2>2, Zenon DEF Pending
  <2> QED BY <2>1, <2>2, Zenon
<1>10. \A k : k \in c - f.left..c - 1 <=> (k = c - f.left \/ k \in c - g.left..c - 1)
  BY <1>3, <1>4, <1>5, <1>6
<1> HIDE DEF El, c, j, B
<1>11. Pending(f) = Pending(g) \cup {e}
  BY <1>4, <1>8, <1>9, <1>10, Zenon
<1>12. (Rest(g, top) /\ StructValid[top + 1][e] = 1) <=> Rest(F, top)
  <2>1. Rest(f, top) <=>
          /\ \A i \in f.i..Slots(f.s) - 1 : validate_pointer_slot(f.s, i, top, B)
          /\ \A x \in Pending(f) : B[x] = 1
    BY <1>4, Zenon DEF Rest, B
  <2>2. Rest(g, top) <=>
          /\ \A i \in f.i..Slots(f.s) - 1 : validate_pointer_slot(f.s, i, top, B)
          /\ \A x \in Pending(g) : B[x] = 1
    BY <1>6, Zenon DEF Rest, B
  <2>3. (\A x \in Pending(f) : B[x] = 1) <=> (\A x \in Pending(g) : B[x] = 1) /\ B[e] = 1
    BY <1>11, Zenon
  <2> QED BY <1>2, <2>1, <2>2, <2>3, Zenon DEF B
<1> QED BY <1>1, <1>3, <1>7, <1>12, CallDecides, Zenon

LEMMA ReturnDecides == IInv /\ Deciding /\ Return => Deciding'
<1> SUFFICES ASSUME IInv, Deciding, Return PROVE Deciding'
  OBVIOUS
<1>1. /\ verdict = "running" /\ ~F.new /\ F.left = 0 /\ F.i >= Slots(F.s)
      /\ UNCHANGED input /\ fr' = fr /\ seen' = seen /\ top' = top - 1
      /\ verdict' = IF top = 0 THEN "accept" ELSE verdict
  BY DEF Return
<1>2. /\ top \in 0..top /\ seen # {} /\ F = fr[top] /\ top \in Int /\ top >= 0
  BY <1>1, TopFacts, Zenon
<1>3. Rest(F, top)
  <2>1. F.i..Slots(F.s) - 1 = {}
    <3>1. F.i \in Nat /\ Slots(F.s) \in Nat
      <4>1. /\ F.s \in Struct /\ F.i \in Nat /\ FrameOK(F, seen) /\ Sound
        BY <1>1, RunningFacts, Zenon
      <4>2. F.s.schema = SCHEMA_IDX_NONE => Slots(F.s) = 0
        BY Zenon DEF Slots
      <4>3. F.s.schema # SCHEMA_IDX_NONE => HasStruct(F.s.schema)
        BY <1>1, <4>1, Zenon DEF FrameOK
      <4>4. F.s.schema # SCHEMA_IDX_NONE => Slots(F.s) \in Nat
        BY <4>1, <4>3, SchemaFacts, Zenon
      <4> QED BY <4>1, <4>2, <4>4
    <3> QED BY <1>1, <3>1
  <2>2. Pending(F) = {}
    BY <1>1, Zenon DEF Pending
  <2> QED BY <1>1, <2>1, <2>2, Zenon DEF Rest
<1>4. RootValid <=> \A l \in 0..top : Rest(fr[l], l)
  BY <1>1, <1>2, Zenon DEF Deciding
<1>5. \A l : l \in 0..top <=> (l = top \/ l \in 0..top - 1)
  BY <1>2
<1>6. RootValid' <=> RootValid
  BY <1>1, SameRest, Zenon
<1>7. CASE top = 0
  <2>1. 0..top - 1 = {}
    BY <1>7
  <2>2. RootValid
    <3>1. ASSUME NEW l \in 0..top PROVE Rest(fr[l], l)
      <4>1. l = top
        BY <1>5, <2>1, Zenon
      <4> QED BY <1>2, <1>3, <4>1, Zenon
    <3> QED BY <1>4, <3>1, Zenon
  <2>3. verdict' = "accept" /\ "accept" # "reject" /\ "accept" # "running"
    BY <1>1, <1>7
  <2> QED BY <1>6, <2>2, <2>3, Zenon DEF Deciding
<1>8. CASE top # 0
  <2>1. ASSUME NEW l PROVE Rest(fr[l], l)' <=> Rest(fr[l], l)
    <3>1. PICK f : f = fr'[l]
      BY Zenon
    <3>2. Rest(fr[l], l)' <=> Rest(f, l)'
      BY <3>1, Zenon DEF Rest, Pending
    <3>3. Rest(f, l)' <=> Rest(f, l)
      BY <1>1, SameRest, Zenon
    <3>4. f = fr[l]
      BY <1>1, <3>1, Zenon
    <3> QED BY <3>2, <3>3, <3>4, Zenon
  <2>2. RootValid <=> \A l \in 0..top - 1 : Rest(fr[l], l)
    BY <1>2, <1>3, <1>4, <1>5, Zenon
  <2>3. verdict' = "running" /\ "running" # "accept" /\ "running" # "reject"
    BY <1>1, <1>8
  <2>4. (\A l \in 0..top : Rest(fr[l], l))' <=> \A l \in 0..top - 1 : Rest(fr[l], l)
    BY <1>1, <2>1, Zenon
  <2> QED BY <1>6, <2>2, <2>3, <2>4, Zenon DEF Deciding
<1> QED BY <1>7, <1>8, Zenon

(* The explicit stack of the validation always holds what is left of the    *)
(* recursion of validate_struct_at and validate_pointer_slot.               *)
THEOREM StackIsRecursion == Spec => []Deciding
<1>1. Init => Deciding
  BY Zenon DEF Init, Deciding
<1>2. IInv /\ Deciding /\ [Next]_vars => Deciding'
  <2> SUFFICES ASSUME IInv, Deciding, [Next]_vars PROVE Deciding'
    OBVIOUS
  <2>1. CASE Next
    BY <2>1, StartDecides, CheckStructDecides, CheckSlotDecides, NextElementDecides,
       ReturnDecides, Zenon DEF Next
  <2>2. CASE UNCHANGED vars
    <3>1. UNCHANGED input /\ verdict' = verdict /\ top' = top /\ fr' = fr /\ seen' = seen
      BY <2>2 DEF vars
    <3>2. ASSUME NEW l PROVE Rest(fr[l], l)' <=> Rest(fr[l], l)
      <4>1. PICK f : f = fr'[l]
        BY Zenon
      <4>2. Rest(fr[l], l)' <=> Rest(f, l)'
        BY <4>1, Zenon DEF Rest, Pending
      <4>3. Rest(f, l)' <=> Rest(f, l)
        BY <3>1, SameRest, Zenon
      <4>4. f = fr[l]
        BY <3>1, <4>1, Zenon
      <4> QED BY <4>2, <4>3, <4>4, Zenon
    <3>3. (\A l \in 0..top : Rest(fr[l], l))' <=> \A l \in 0..top : Rest(fr[l], l)
      BY <3>1, <3>2, Zenon
    <3>4. RootValid' <=> RootValid
      BY <3>1, SameRest, Zenon
    <3> QED BY <3>1, <3>3, <3>4, Zenon DEF Deciding
  <2> QED BY <2>1, <2>2, Zenon
<1> QED BY <1>1, <1>2, InvariantHolds, PTL DEF Spec

(* capnp_validate_message accepts a message if and only if the recursion of *)
(* validate_struct_at over the root accepts it, for every message, schema   *)
(* table and depth limit.                                                   *)
THEOREM VerdictIsRecursiveHolds == Spec => []VerdictIsRecursive
<1>1. Deciding => VerdictIsRecursive
  BY Zenon DEF Deciding, VerdictIsRecursive, RootValid
<1> QED BY <1>1, StackIsRecursion, PTL

=============================================================================

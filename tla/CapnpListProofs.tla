--------------------------- MODULE CapnpListProofs ---------------------------
(***************************************************************************)
(* The reader of capnp_list.h stays inside every message it is given, and  *)
(* reads back what the builder was asked to write, for all shapes that fit *)
(* the fields of the message.                                              *)
(***************************************************************************)
EXTENDS CapnpList, TLAPS

(* The root pointer as the reader decodes it. *)
LEMMA RootWord ==
  ASSUME NEW nd \in Nat, nd < 65536
  PROVE  /\ StructWord(0, nd, 1) \in Word
         /\ StructWord(0, nd, 1)[3] = nd
         /\ StructWord(0, nd, 1)[1] % 4 = 0
         /\ StructWord(0, nd, 1)[4] >= 1
<1>1. StructWord(0, nd, 1) = <<0, 0, nd, 1>>
  BY DEF StructWord
<1> QED BY <1>1 DEF Word, Quarter

(* The tag word as the reader decodes it. *)
LEMMA TagWordFacts ==
  ASSUME NEW ne \in Nat, NEW ew \in Nat, ew < 65536, ne < 1073741824
  PROVE  /\ StructWord(ne, ew, 0) \in Word
         /\ StructWord(ne, ew, 0)[1] % 4 = 0
         /\ StructWord(ne, ew, 0)[3] = ew
         /\ StructWord(ne, ew, 0)[4] = 0
         /\ StructWord(ne, ew, 0)[2] * 16384 + StructWord(ne, ew, 0)[1] \div 4 = ne
<1>1. StructWord(ne, ew, 0) = <<4 * (ne % 16384), ne \div 16384, ew, 0>>
  BY DEF StructWord
<1>2. /\ ne % 16384 \in Nat /\ ne % 16384 < 16384
      /\ ne \div 16384 \in Nat /\ ne \div 16384 < 65536
      /\ (ne \div 16384) * 16384 + (4 * (ne % 16384)) \div 4 = ne
      /\ (4 * (ne % 16384)) % 4 = 0
  OBVIOUS
<1> QED BY <1>1, <1>2 DEF Word, Quarter

(* The list pointer as the reader decodes it. *)
LEMMA ListWordFacts ==
  ASSUME NEW b \in Nat, b < 536870912
  PROVE  /\ ListWord(0, 7, b) \in Word
         /\ ListWord(0, 7, b)[1] % 4 = 1
         /\ ListWord(0, 7, b)[3] % 8 = 7
         /\ ListWord(0, 7, b)[4] * 8192 + ListWord(0, 7, b)[3] \div 8 = b
<1>1. ListWord(0, 7, b) = <<1, 0, 7 + 8 * (b % 8192), b \div 8192>>
  BY DEF ListWord
<1>2. /\ b % 8192 \in Nat /\ b % 8192 < 8192
      /\ b \div 8192 \in Nat /\ b \div 8192 < 65536
      /\ (7 + 8 * (b % 8192)) % 8 = 7
      /\ (b \div 8192) * 8192 + (7 + 8 * (b % 8192)) \div 8 = b
  OBVIOUS
<1> QED BY <1>1, <1>2 DEF Word, Quarter

(* The types of the shapes. *)
LEMMA ShapeFacts ==
  ASSUME NEW s \in Shapes
  PROVE  /\ s.nd \in Nat /\ s.ne \in Nat /\ s.ew \in Nat
         /\ FitsFields(s.nd, s.ne, s.ew)
         /\ s.ne * s.ew \in Nat
<1>1. /\ s.nd \in Nat /\ s.ne \in Nat /\ s.ew \in Nat
      /\ FitsFields(s.nd, s.ne, s.ew)
  BY ListAssumption DEF Encodable, Shape
<1> QED BY <1>1

(* v, in a message of n bytes, is what the builder makes of d and e. *)
BuiltFrom(s, d, e, v, n) ==
  /\ s \in Shapes
  /\ d \in [0..s.nd - 1 -> Word]
  /\ e \in [0..s.ne * s.ew - 1 -> Word]
  /\ v = BuiltWords(s.nd, d, s.ne, s.ew, e)
  /\ n = MessageBytes(s.nd, s.ne, s.ew)

(* The words of a built message are the encoded ones and the caller's.      *)
LEMMA BuiltFacts ==
  ASSUME NEW s, NEW d, NEW e, NEW v, NEW n, BuiltFrom(s, d, e, v, n)
  PROVE  /\ n \in Nat /\ n = 8 * (s.nd + s.ne * s.ew + 4)
         /\ v \in [0..(n \div 8) - 2 -> Word]
         /\ v[0] = StructWord(0, s.nd, 1)
         /\ v[s.nd + 1] = ListWord(0, 7, ListBodyWords(s.ne, s.ew))
         /\ v[s.nd + 2] = StructWord(s.ne, s.ew, 0)
         /\ \A k \in 0..s.nd - 1 : v[1 + k] = d[k]
         /\ \A k \in 0..s.ne * s.ew - 1 : v[s.nd + 3 + k] = e[k]
<1> DEFINE nd == s.nd
           ne == s.ne
           ew == s.ew
<1>0. /\ nd \in Nat /\ ne \in Nat /\ ew \in Nat /\ FitsFields(nd, ne, ew)
      /\ d \in [0..nd - 1 -> Word] /\ e \in [0..ne * ew - 1 -> Word]
      /\ v = BuiltWords(nd, d, ne, ew, e) /\ n = MessageBytes(nd, ne, ew)
  BY ShapeFacts DEF BuiltFrom
<1> HIDE DEF nd, ne, ew
<1> DEFINE m == ne * ew
<1>1. m \in Nat
  BY <1>0
<1>2. /\ StructWord(0, nd, 1) \in Word /\ StructWord(ne, ew, 0) \in Word
      /\ ListWord(0, 7, ListBodyWords(ne, ew)) \in Word
  <2>1. StructWord(0, nd, 1) \in Word
    BY <1>0, RootWord DEF FitsFields
  <2>2. StructWord(ne, ew, 0) \in Word
    BY <1>0, TagWordFacts DEF FitsFields
  <2>3. ListWord(0, 7, ListBodyWords(ne, ew)) \in Word
    <3>1. ListBodyWords(ne, ew) \in Nat
      BY <1>0, <1>1 DEF ListBodyWords
    <3> QED BY <1>0, <3>1, ListWordFacts DEF FitsFields
  <2> QED BY <2>1, <2>2, <2>3
<1>3. n = 8 * (nd + m + 4)
  BY <1>0, <1>1 DEF MessageBytes, SegWords, ListBodyWords
<1>4. v = [k \in 0..nd + 2 + m |->
             CASE k = 0       -> StructWord(0, nd, 1)
               [] k \in 1..nd -> d[k - 1]
               [] k = nd + 1  -> ListWord(0, 7, ListBodyWords(ne, ew))
               [] k = nd + 2  -> StructWord(ne, ew, 0)
               [] OTHER       -> e[k - (nd + 2) - 1]]
  BY <1>0 DEF BuiltWords, TagIndex, ListPointer
<1>5. e \in [0..m - 1 -> Word]
  BY <1>0
<1> HIDE DEF m
<1>6. /\ v[0] = StructWord(0, nd, 1)
      /\ v[nd + 1] = ListWord(0, 7, ListBodyWords(ne, ew))
      /\ v[nd + 2] = StructWord(ne, ew, 0)
  BY <1>0, <1>1, <1>4, SMTT(30)
<1>7. \A k \in 0..nd - 1 : v[1 + k] = d[k]
  <2> TAKE k \in 0..nd - 1
  <2> DEFINE j == 1 + k
  <2>1. j \in 0..nd + 2 + m /\ j # 0 /\ j \in 1..nd /\ j - 1 = k
    BY <1>0, <1>1
  <2> HIDE DEF j
  <2>2. v[j] = d[j - 1]
    BY <2>1, <1>4, <1>0
  <2> QED BY <2>1, <2>2 DEF j
<1>8. \A k \in 0..m - 1 : v[nd + 3 + k] = e[k]
  <2> TAKE k \in 0..m - 1
  <2> DEFINE j == nd + 3 + k
  <2>1. /\ j \in 0..nd + 2 + m /\ j # 0 /\ j \notin 1..nd /\ j # nd + 1 /\ j # nd + 2
        /\ j - (nd + 2) - 1 = k
    BY <1>0, <1>1
  <2> HIDE DEF j
  <2>2. v[j] = e[j - (nd + 2) - 1]
    BY <2>1, <1>4, <1>0
  <2> QED BY <2>1, <2>2 DEF j
<1>9. v \in [0..nd + 2 + m -> Word]
  <2>1. ASSUME NEW k \in 0..nd + 2 + m
        PROVE  v[k] \in Word
    <3>1. CASE k \in {0, nd + 1, nd + 2}
      BY <3>1, <1>6, <1>2
    <3>2. CASE k \in 1..nd
      <4>1. k - 1 \in 0..nd - 1 /\ k = 1 + (k - 1)
        BY <3>2, <1>0
      <4> QED BY <4>1, <1>7, <1>0, Zenon
    <3>3. CASE k \in nd + 3..nd + 2 + m
      <4>1. k - nd - 3 \in 0..m - 1 /\ k = nd + 3 + (k - nd - 3)
        BY <3>3, <1>0, <1>1
      <4> QED BY <4>1, <1>8, <1>5
    <3> QED BY <3>1, <3>2, <3>3, <1>0, <1>1
  <2>2. v = [k \in 0..nd + 2 + m |-> v[k]]
    BY <1>4
  <2> QED BY <2>1, <2>2, Zenon
<1>10. n \in Nat /\ (n \div 8) - 2 = nd + 2 + m
  BY <1>0, <1>1, <1>3
<1> QED BY <1>3, <1>6, <1>7, <1>8, <1>9, <1>10 DEF m, nd, ne, ew

-----------------------------------------------------------------------------

(* Nothing is built, and nothing read, initially. *)
LEMMA InitInv == Init => IInv
<1> SUFFICES ASSUME Init PROVE IInv
  OBVIOUS
<1>1. /\ shape \in Shapes /\ want \in Shapes
      /\ shape.nd \in Nat /\ shape.ne \in Nat /\ shape.ew \in Nat
      /\ shape.ne * shape.ew \in Nat
  BY ShapeFacts DEF Init
<1>2. cap \in Nat
  <2>1. PICK n \in Spare : cap = MessageBytes(shape.nd, shape.ne, shape.ew) + n /\ cap >= 0
    BY DEF Init
  <2>2. MessageBytes(shape.nd, shape.ne, shape.ew) \in Int
    BY <1>1 DEF MessageBytes, SegWords, ListBodyWords
  <2> QED BY <2>1, <2>2, ListAssumption
<1>3. /\ data \in [0..shape.nd - 1 -> Word]
      /\ elems \in [0..shape.ne * shape.ew - 1 -> Word]
  BY ListAssumption DEF Init
<1>4. w \in [0..(len \div 8) - 2 -> Word]
  BY DEF Init
<1>5. TypeOK
  <2>1. /\ damage \in 0..MaxDamage /\ len \in Nat
        /\ body \in Nat /\ count \in Nat /\ touched \subseteq Nat
        /\ pc = "build"
    BY ListAssumption DEF Init
  <2>2. cut \in BOOLEAN
    BY Zenon DEF Init
  <2> QED BY <1>1, <1>2, <1>3, <1>4, <2>1, <2>2, SMTT(30) DEF TypeOK
<1> QED BY <1>2, <1>5 DEF Init, IInv, Intact

(* A built message, or none. *)
LEMMA BuildStep == IInv /\ Build => IInv'
<1> SUFFICES ASSUME IInv, Build PROVE IInv'
  OBVIOUS
<1> DEFINE n == MessageBytes(shape.nd, shape.ne, shape.ew)
<1>1. /\ TypeOK /\ len = 0 /\ Intact /\ touched = {}
      /\ UNCHANGED <<shape, data, elems, cap, damage, cut, want, body, count, touched>>
  BY DEF IInv, Build
<1>2. /\ shape.nd \in Nat /\ shape.ne \in Nat /\ shape.ew \in Nat
      /\ FitsFields(shape.nd, shape.ne, shape.ew)
  BY <1>1, ShapeFacts DEF TypeOK
<1>3. CASE cap < n
  <2>1. pc' = "null" /\ w' = w /\ len' = len
    BY <1>3 DEF Build
  <2>2. TypeOK'
    BY <1>1, <2>1 DEF TypeOK
  <2>3. len' <= cap'
    BY <1>1, <2>1 DEF TypeOK
  <2>4. Refused'
    BY <1>1, <1>3, <2>1 DEF Refused
  <2> QED BY <1>1, <2>1, <2>2, <2>3, <2>4 DEF IInv
<1>4. CASE ~(cap < n)
  <2>1. /\ pc' = "transfer" /\ len' = n
        /\ w' = BuiltWords(shape.nd, data, shape.ne, shape.ew, elems)
    BY <1>4 DEF Build
  <2>2. n \in Nat /\ w' \in [0..(n \div 8) - 2 -> Word]
    <3>1. BuiltFrom(shape, data, elems, w', n)
      BY <1>1, <2>1 DEF BuiltFrom, TypeOK
    <3> HIDE DEF n
    <3> QED BY <3>1, BuiltFacts, Zenon
  <2> HIDE DEF n
  <2>3. TypeOK'
    BY <1>1, <2>1, <2>2 DEF TypeOK
  <2>4. len' <= cap'
    BY <1>1, <1>4, <2>1, <2>2 DEF TypeOK
  <2>5. Built'
    BY <1>1, <2>1 DEF Built, n
  <2> QED BY <1>1, <2>1, <2>3, <2>4, <2>5 DEF IInv
<1> QED BY <1>3, <1>4

(* A damaged message is still a message. *)
LEMMA TransferStep == IInv /\ (Damage \/ Cut) => IInv'
<1>1. ASSUME IInv, Damage PROVE IInv'
  <2>1. /\ TypeOK /\ pc = "transfer" /\ touched = {} /\ len <= cap
        /\ UNCHANGED <<shape, data, elems, cap, len, cut, want, pc, body, count, touched>>
        /\ damage \in 0..MaxDamage - 1 /\ damage' = damage + 1
    BY <1>1 DEF IInv, Damage
  <2>2. w' \in [0..(len \div 8) - 2 -> Word]
    <3>1. PICK k \in DOMAIN w, v \in Damages : w' = [w EXCEPT ![k] = v]
      BY <1>1, Zenon DEF Damage
    <3>2. v \in Word
      BY ListAssumption
    <3> QED BY <2>1, <3>1, <3>2 DEF TypeOK
  <2>3. damage' \in 0..MaxDamage /\ damage' # 0
    BY <2>1, ListAssumption
  <2>4. TypeOK'
    BY <2>1, <2>2, <2>3 DEF TypeOK
  <2> QED BY <2>1, <2>3, <2>4 DEF IInv, Intact
<1>2. ASSUME IInv, Cut PROVE IInv'
  <2>1. /\ TypeOK /\ pc = "transfer" /\ touched = {} /\ len <= cap
        /\ UNCHANGED <<shape, data, elems, cap, damage, want, pc, body, count, touched>>
        /\ cut' = TRUE
    BY <1>2 DEF IInv, Cut
  <2>2. PICK n \in {len - m : m \in Missing} :
               n >= 0 /\ len' = n /\ w' = [k \in 0..(n \div 8) - 2 |-> w[k]]
    BY <1>2 DEF Cut
  <2>3. len \in Nat /\ cap \in Nat /\ w \in [0..(len \div 8) - 2 -> Word]
    BY <2>1 DEF TypeOK
  <2>4. PICK m \in Missing : n = len - m
    BY <2>2
  <2>5. n \in Nat /\ n <= len
    BY <2>2, <2>3, <2>4, ListAssumption
  <2>6. \A k \in 0..(n \div 8) - 2 : k \in 0..(len \div 8) - 2
    <3>1. n \div 8 <= len \div 8 /\ n \div 8 \in Nat /\ len \div 8 \in Nat
      BY <2>3, <2>5
    <3> QED BY <3>1
  <2>7. w' \in [0..(n \div 8) - 2 -> Word]
    BY <2>2, <2>3, <2>6
  <2>8. TypeOK'
    BY <2>1, <2>2, <2>5, <2>7 DEF TypeOK
  <2>9. len' <= cap'
    BY <2>1, <2>2, <2>3, <2>5
  <2> QED BY <2>1, <2>8, <2>9 DEF IInv, Intact
<1> QED BY <1>1, <1>2

-----------------------------------------------------------------------------
(* The reader's steps *)

(* The decoded counts are natural numbers. *)
LEMMA WordFacts ==
  ASSUME NEW x \in Word
  PROVE  /\ x[4] * 8192 + x[3] \div 8 \in Nat
         /\ x[2] * 16384 + x[1] \div 4 \in Nat
<1>1. x[1] \in Nat /\ x[2] \in Nat /\ x[3] \in Nat /\ x[4] \in Nat
  BY DEF Word, Quarter
<1> QED BY <1>1

(* Words the reader has made sure of are in the message. *)
LEMMA WordsThere ==
  ASSUME TypeOK, PastRoot
  PROVE  /\ 0 \in DOMAIN w /\ list_ptr_index \in DOMAIN w
         /\ list_ptr_index \in Nat /\ want.nd \in Nat
         /\ WordsInMessage(list_ptr_index + 1)
         /\ w[list_ptr_index] \in Word
         /\ len = 8 + 8 * seg_words_avail /\ seg_words_avail \in Nat
         /\ list_ptr_index + 1 < seg_words_avail => w[list_ptr_index + 1] \in Word
<1>1. len \in Nat /\ want.nd \in Nat /\ w \in [0..(len \div 8) - 2 -> Word]
  BY ShapeFacts DEF TypeOK
<1>2. /\ len >= 8 /\ (len - 8) % 8 = 0
      /\ 1 + want.nd < (len - 8) \div 8
  BY DEF PastRoot, seg_words_avail
<1>3. /\ len = 8 + 8 * ((len - 8) \div 8)
      /\ (len - 8) \div 8 \in Nat
      /\ (len \div 8) - 2 = ((len - 8) \div 8) - 1
  BY <1>1, <1>2
<1> DEFINE a == (len - 8) \div 8
<1>4. w \in [0..a - 1 -> Word]
  BY <1>1, <1>3
<1>5. 1 + want.nd < a /\ a \in Nat /\ len = 8 + 8 * a
  BY <1>2, <1>3
<1> HIDE DEF a
<1> QED BY <1>1, <1>4, <1>5, SMTT(30) DEF list_ptr_index, seg_words_avail, WordsInMessage, a

(* If the reader is asked for the builder's shape, and the message is the   *)
(* built one, its three words say so.                                       *)
LEMMA IntactWords ==
  ASSUME TypeOK, Built
  PROVE  LET n == shape.nd IN
         /\ len >= 8 /\ (len - 8) % 8 = 0
         /\ seg_words_avail = n + 3 + shape.ne * shape.ew
         /\ w[0][3] = n /\ w[0][1] % 4 = 0 /\ w[0][4] >= 1
         /\ w[n + 1][1] % 4 = 1 /\ w[n + 1][3] % 8 = 7
         /\ w[n + 1][4] * 8192 + w[n + 1][3] \div 8 = ListBodyWords(shape.ne, shape.ew)
         /\ w[n + 2][1] % 4 = 0 /\ w[n + 2][3] = shape.ew /\ w[n + 2][4] = 0
         /\ w[n + 2][2] * 16384 + w[n + 2][1] \div 4 = shape.ne
<1>1. /\ shape.nd \in Nat /\ shape.ne \in Nat /\ shape.ew \in Nat
      /\ FitsFields(shape.nd, shape.ne, shape.ew) /\ shape.ne * shape.ew \in Nat
  BY ShapeFacts DEF TypeOK
<1>2. /\ w[0] = StructWord(0, shape.nd, 1)
      /\ w[shape.nd + 1] = ListWord(0, 7, ListBodyWords(shape.ne, shape.ew))
      /\ w[shape.nd + 2] = StructWord(shape.ne, shape.ew, 0)
      /\ len = 8 * (shape.nd + shape.ne * shape.ew + 4)
  <2>1. /\ data \in [0..shape.nd - 1 -> Word]
        /\ elems \in [0..shape.ne * shape.ew - 1 -> Word]
    BY DEF TypeOK
  <2>2. /\ w = BuiltWords(shape.nd, data, shape.ne, shape.ew, elems)
        /\ len = MessageBytes(shape.nd, shape.ne, shape.ew)
    BY DEF Built
  <2>3. BuiltFrom(shape, data, elems, w, len)
    BY <2>1, <2>2 DEF BuiltFrom, TypeOK
  <2> QED BY <2>3, BuiltFacts
<1> DEFINE m == shape.ne * shape.ew
<1>3. len = 8 * (shape.nd + m + 4) /\ m \in Nat
  BY <1>1, <1>2
<1> HIDE DEF m
<1>4. len >= 8 /\ (len - 8) % 8 = 0 /\ seg_words_avail = shape.nd + 3 + m
  <2> DEFINE q == shape.nd + 3 + m
  <2>1. q \in Nat /\ len = 8 + 8 * q
    BY <1>1, <1>3
  <2> HIDE DEF q
  <2>2. len >= 8 /\ (len - 8) % 8 = 0 /\ (len - 8) \div 8 = q
    BY <2>1
  <2> QED BY <2>2 DEF q, seg_words_avail
<1>5. /\ w[0][3] = shape.nd /\ w[0][1] % 4 = 0 /\ w[0][4] >= 1
  BY <1>1, <1>2, RootWord DEF FitsFields
<1> DEFINE b == ListBodyWords(shape.ne, shape.ew)
<1>6. b \in Nat /\ b < 536870912
  BY <1>1 DEF FitsFields, ListBodyWords
<1>7. w[shape.nd + 1] = ListWord(0, 7, b)
  BY <1>2
<1> HIDE DEF b
<1>8. /\ w[shape.nd + 1][1] % 4 = 1 /\ w[shape.nd + 1][3] % 8 = 7
      /\ w[shape.nd + 1][4] * 8192 + w[shape.nd + 1][3] \div 8 = b
  BY <1>6, <1>7, ListWordFacts
<1>9. /\ w[shape.nd + 2][1] % 4 = 0 /\ w[shape.nd + 2][3] = shape.ew
      /\ w[shape.nd + 2][4] = 0
      /\ w[shape.nd + 2][2] * 16384 + w[shape.nd + 2][1] \div 4 = shape.ne
  BY <1>1, <1>2, TagWordFacts DEF FitsFields
<1> QED BY <1>4, <1>5, <1>8, <1>9 DEF m, b

(* What a reader step does not change about the message. *)
LEMMA SameMessage ==
  ASSUME IInv, UNCHANGED msg
  PROVE  /\ (len <= cap)' /\ (Intact' <=> Intact) /\ (Built' <=> Built)
         /\ (Refused' <=> Refused) /\ (PastRoot' <=> PastRoot)
         /\ (PastList <=> body = w'[list_ptr_index'][4] * 8192 + w'[list_ptr_index'][3] \div 8)
         /\ list_ptr_index' = list_ptr_index /\ seg_words_avail' = seg_words_avail
         /\ \A n : WordsInMessage(n)' <=> WordsInMessage(n)
  BY DEF msg, IInv, Intact, Built, Refused, PastRoot, PastList, list_ptr_index,
         seg_words_avail, WordsInMessage

(* The reader refuses before it reads. *)
LEMMA NullStep ==
  ASSUME IInv, UNCHANGED msg, Null, Intact => Refused
  PROVE  IInv'
<1>1. pc' = "null" /\ body' = body /\ count' = count /\ touched' = touched
  BY DEF Null
<1>2. TypeOK'
  BY <1>1 DEF IInv, TypeOK, msg
<1>3. \A k \in touched' : WordsInMessage(k + 1)'
  BY <1>1 DEF IInv, WordsInMessage, msg
<1> QED BY <1>1, <1>2, <1>3, SameMessage DEF IInv

(* The reader looks at the root pointer. *)
LEMMA ReadRootStep == IInv /\ ReadRoot => IInv'
<1> SUFFICES ASSUME IInv, ReadRoot PROVE IInv'
  OBVIOUS
<1>1. /\ TypeOK /\ pc = "transfer" /\ touched = {} /\ UNCHANGED msg
      /\ Intact => Built
  BY DEF IInv, ReadRoot
<1>2. /\ shape.nd \in Nat /\ shape.ne * shape.ew \in Nat /\ want.nd \in Nat
      /\ len \in Nat /\ w \in [0..(len \div 8) - 2 -> Word]
  BY <1>1, ShapeFacts DEF TypeOK
<1>3. CASE len < 8 \/ (len - 8) % 8 # 0 \/ 1 + want.nd >= seg_words_avail
  <2>1. Null
    BY <1>3 DEF ReadRoot
  <2>2. ASSUME Intact PROVE Refused
    <3>1. /\ len >= 8 /\ (len - 8) % 8 = 0
          /\ seg_words_avail = shape.nd + 3 + shape.ne * shape.ew
      BY <1>1, <2>2, IntactWords
    <3>2. want.nd # shape.nd
      BY <1>2, <1>3, <3>1
    <3> QED BY <3>2 DEF Refused
  <2> QED BY <1>1, <2>1, <2>2, NullStep
<1>4. CASE ~(len < 8 \/ (len - 8) % 8 # 0 \/ 1 + want.nd >= seg_words_avail)
  <2> DEFINE fits == w[0][1] % 4 = 0 /\ w[0][3] = want.nd /\ w[0][4] >= 1
  <2>1. /\ touched' = {0} /\ body' = body /\ count' = count
        /\ pc' = IF fits THEN "list" ELSE "null"
    BY <1>1, <1>4 DEF ReadRoot
  <2>2. /\ len >= 8 /\ (len - 8) % 8 = 0 /\ 1 + want.nd < seg_words_avail
        /\ seg_words_avail \in Int
    BY <1>2, <1>4 DEF seg_words_avail
  <2>3. WordsInMessage(0 + 1)
    BY <1>2, <2>2 DEF WordsInMessage, seg_words_avail
  <2>4. \A k \in touched' : WordsInMessage(k + 1)'
    BY <1>1, <2>1, <2>3, SameMessage
  <2>5. TypeOK'
    BY <1>1, <2>1 DEF TypeOK, msg
  <2>6. CASE fits
    <3>1. PastRoot'
      BY <1>1, <2>2, <2>6, SameMessage DEF PastRoot
    <3> QED BY <1>1, <2>1, <2>4, <2>5, <2>6, <3>1, SameMessage DEF IInv
  <2>7. CASE ~fits
    <3>1. ASSUME Intact PROVE Refused
      <4>1. w[0][3] = shape.nd /\ w[0][1] % 4 = 0 /\ w[0][4] >= 1
        BY <1>1, <3>1, IntactWords
      <4> QED BY <2>7, <4>1 DEF Refused
    <3> QED BY <1>1, <2>1, <2>4, <2>5, <2>7, <3>1, SameMessage DEF IInv
  <2> QED BY <2>6, <2>7
<1> QED BY <1>3, <1>4

(* The reader looks at the list pointer. *)
LEMMA ReadListStep == IInv /\ ReadList => IInv'
<1> SUFFICES ASSUME IInv, ReadList PROVE IInv'
  OBVIOUS
<1> DEFINE p == w[list_ptr_index]
           fits == p[1] % 4 = 1 /\ p[3] % 8 = 7
<1>1. /\ TypeOK /\ pc = "list" /\ UNCHANGED msg /\ PastRoot
      /\ Intact => Built
      /\ touched' = touched \cup {list_ptr_index} /\ count' = count
      /\ body' = p[4] * 8192 + p[3] \div 8
      /\ pc' = IF fits THEN "tag" ELSE "null"
      /\ \A k \in touched : WordsInMessage(k + 1)
  BY DEF IInv, ReadList
<1>2. /\ list_ptr_index \in Nat /\ p \in Word /\ WordsInMessage(list_ptr_index + 1)
  BY <1>1, WordsThere
<1>3. body' \in Nat
  BY <1>1, <1>2, WordFacts
<1>4. TypeOK'
  BY <1>1, <1>2, <1>3 DEF TypeOK, msg
<1>5. \A k \in touched' : WordsInMessage(k + 1)'
  BY <1>1, <1>2, SameMessage
<1>6. PastList'
  BY <1>1, SameMessage, SMTT(30) DEF PastList, msg
<1>7. PastRoot'
  BY <1>1, SameMessage, SMTT(30)
<1>8. CASE fits
  <2>1. pc' = "tag" /\ len' = len /\ cap' = cap /\ (Intact' => Built')
    BY <1>1, <1>8, SameMessage DEF msg
  <2>2. len <= cap
    BY DEF IInv
  <2> HIDE DEF fits
  <2> QED BY <1>4, <1>5, <1>6, <1>7, <2>1, <2>2 DEF IInv
<1>9. CASE ~fits
  <2>1. ASSUME Intact PROVE Refused
    <3>1. shape.nd \in Nat /\ want.nd \in Nat
      BY <1>1, ShapeFacts DEF TypeOK
    <3>2. w[shape.nd + 1][1] % 4 = 1 /\ w[shape.nd + 1][3] % 8 = 7
      BY <1>1, <2>1, IntactWords
    <3>3. want.nd # shape.nd
      BY <1>9, <3>1, <3>2 DEF list_ptr_index
    <3> QED BY <3>3 DEF Refused
  <2> QED BY <1>1, <1>4, <1>5, <1>9, <2>1, SameMessage DEF IInv
<1> QED BY <1>8, <1>9

(* The builder's elements fit the body it declares. *)
LEMMA OwnElementsFit ==
  ASSUME TypeOK, body = ListBodyWords(shape.ne, shape.ew)
  PROVE  ElementsFit(shape.ne, shape.ew)
<1>1. shape.ne \in Nat /\ shape.ew \in Nat /\ shape.ne * shape.ew \in Nat
  BY ShapeFacts DEF TypeOK
<1> DEFINE ne == shape.ne
           ew == shape.ew
           m == ne * ew
<1>2. body - 1 = m /\ 1 + m <= body /\ ne \in Nat /\ ew \in Nat /\ m \in Nat
  BY <1>1 DEF ListBodyWords
<1>3. ASSUME ew # 0 PROVE ne <= m \div ew
  <2> HIDE DEF ne, ew
  <2> QED BY <1>2, <1>3
<1> QED BY <1>2, <1>3 DEF ElementsFit

(* The reader looks at the tag word. *)
LEMMA ReadTagStep == IInv /\ ReadTag => IInv'
<1> SUFFICES ASSUME IInv, ReadTag PROVE IInv'
  OBVIOUS
<1>1. /\ TypeOK /\ pc = "tag" /\ UNCHANGED msg /\ PastRoot /\ PastList
      /\ Intact => Built
      /\ \A k \in touched : WordsInMessage(k + 1)
  BY DEF IInv, ReadTag
<1>2. /\ shape.nd \in Nat /\ want.nd \in Nat /\ shape.ne * shape.ew \in Nat
      /\ body \in Nat
  BY <1>1, ShapeFacts DEF TypeOK
<1>3. ASSUME Intact, want.nd = shape.nd
      PROVE  /\ body = ListBodyWords(shape.ne, shape.ew)
             /\ BodyAvailable(body)
  <2>1. /\ seg_words_avail = shape.nd + 3 + shape.ne * shape.ew
        /\ w[shape.nd + 1][4] * 8192 + w[shape.nd + 1][3] \div 8
             = ListBodyWords(shape.ne, shape.ew)
    BY <1>1, <1>3, IntactWords
  <2>2. list_ptr_index = shape.nd + 1
    BY <1>2, <1>3 DEF list_ptr_index
  <2>3. body = ListBodyWords(shape.ne, shape.ew)
    BY <1>1, <2>1, <2>2 DEF PastList
  <2> DEFINE m == shape.ne * shape.ew
  <2>4. body = 1 + m /\ seg_words_avail = shape.nd + 3 + m /\ m \in Nat
    BY <1>2, <2>1, <2>3 DEF ListBodyWords
  <2> HIDE DEF m
  <2>5. BodyAvailable(body)
    BY <1>2, <2>2, <2>4 DEF BodyAvailable
  <2> QED BY <2>3, <2>5
<1>4. CASE ~BodyAvailable(body)
  <2>1. Null
    BY <1>4 DEF ReadTag
  <2>2. Intact => Refused
    BY <1>3, <1>4 DEF Refused
  <2> QED BY <1>1, <2>1, <2>2, NullStep
<1>5. CASE BodyAvailable(body)
  <2> DEFINE t == w[list_ptr_index + 1]
             n == t[2] * 16384 + t[1] \div 4
             fits == /\ t[1] % 4 = 0 /\ t[3] = want.ew /\ t[4] = 0
                     /\ ElementsFit(n, want.ew)
  <2>1. /\ touched' = touched \cup {list_ptr_index + 1} /\ body' = body
        /\ IF fits THEN pc' = "data" /\ count' = n ELSE pc' = "null" /\ count' = count
    BY <1>5 DEF ReadTag
  <2>2. /\ list_ptr_index + 1 < seg_words_avail
        /\ list_ptr_index \in Nat /\ seg_words_avail \in Nat
        /\ len = 8 + 8 * seg_words_avail /\ t \in Word
    BY <1>1, <1>5, WordsThere DEF BodyAvailable
  <2>3. n \in Nat
    BY <2>2, WordFacts
  <2>4. count' \in Nat
    BY <1>1, <2>1, <2>3 DEF TypeOK
  <2>5. TypeOK'
    BY <1>1, <2>1, <2>2, <2>4 DEF TypeOK, msg
  <2>6. WordsInMessage(list_ptr_index + 1 + 1)
    BY <2>2, SMTT(30) DEF WordsInMessage
  <2>7. \A k \in touched' : WordsInMessage(k + 1)'
    BY <1>1, <2>1, <2>6, SameMessage
  <2>8. PastRoot' /\ PastList'
    BY <1>1, <2>1, SameMessage DEF PastList
  <2>9. CASE fits
    <3>1. PastTag'
      BY <1>1, <1>5, <2>1, <2>9, SameMessage, SMTT(30)
         DEF PastTag, BodyAvailable, ElementsFit, msg
    <3>2. pc' = "data"
      BY <2>1, <2>9, SMTT(30)
    <3> QED BY <1>1, <2>5, <2>7, <2>8, <3>1, <3>2, SameMessage, SMTT(30) DEF IInv
  <2>10. CASE ~fits
    <3>1. ASSUME Intact PROVE Refused
      <4>1. SUFFICES ASSUME want.nd = shape.nd, want.ew = shape.ew PROVE FALSE
        BY DEF Refused
      <4>2. list_ptr_index + 1 = shape.nd + 2
        BY <1>2, <4>1 DEF list_ptr_index
      <4>3. t[1] % 4 = 0 /\ t[3] = shape.ew /\ t[4] = 0 /\ n = shape.ne
        BY <1>1, <3>1, <4>2, IntactWords
      <4>4. ElementsFit(shape.ne, shape.ew)
        BY <1>1, <1>3, <3>1, <4>1, OwnElementsFit
      <4> QED BY <2>10, <4>1, <4>3, <4>4
    <3>2. pc' = "null"
      BY <2>1, <2>10
    <3> QED BY <1>1, <2>5, <2>7, <3>1, <3>2, SameMessage, SMTT(30) DEF IInv
  <2> QED BY <2>9, <2>10
<1> QED BY <1>4, <1>5

(* IInv is an invariant of the exchange, for every set of shapes, payloads  *)
(* and damaged words.                                                       *)
THEOREM InvariantHolds == Spec => []IInv
<1>1. ASSUME IInv, UNCHANGED vars PROVE IInv'
  BY <1>1 DEF IInv, vars, msg, TypeOK, Intact, Built, Refused, PastRoot, PastList, PastTag,
              list_ptr_index, seg_words_avail, WordsInMessage, BodyAvailable, ElementsFit
<1>2. IInv /\ [Next]_vars => IInv'
  BY <1>1, BuildStep, TransferStep, ReadRootStep, ReadListStep, ReadTagStep DEF Next
<1> QED BY <1>2, InitInv, PTL DEF Spec

(* capnp_read_list_root reads and hands out only words of the message, for  *)
(* every message and every shape it may be asked for.                       *)
THEOREM ReadsInBoundsHolds == Spec => []ReadsInBounds
<1>1. ASSUME IInv PROVE ReadsInBounds
  <2>1. \A k \in touched : WordsInMessage(k + 1)
    BY <1>1 DEF IInv
  <2>2. ASSUME pc = "data" PROVE WordsInMessage(HandedOut)
    <3>1. TypeOK /\ PastRoot /\ PastTag
      BY <1>1, <2>2 DEF IInv
    <3>2. /\ list_ptr_index \in Nat /\ seg_words_avail \in Nat
          /\ len = 8 + 8 * seg_words_avail
      BY <3>1, WordsThere
    <3>3. want.ew \in Nat /\ count \in Nat /\ body \in Nat
      BY <3>1, ShapeFacts DEF TypeOK
    <3> DEFINE m == count * want.ew
    <3>4. m \in Nat /\ 1 + m <= body /\ body <= seg_words_avail - (list_ptr_index + 1)
      BY <3>1, <3>3 DEF PastTag, BodyAvailable, ElementsFit
    <3> HIDE DEF m
    <3>5. 8 + 8 * (list_ptr_index + 2 + m) <= len
      BY <3>2, <3>3, <3>4
    <3> QED BY <3>5 DEF WordsInMessage, HandedOut, m
  <2> QED BY <2>1, <2>2 DEF ReadsInBounds
<1> QED BY <1>1, InvariantHolds, PTL

(* The reader returns what the builder was given, for every shape whose     *)
(* numbers fit the message's fields, and refuses other shapes.              *)
THEOREM RoundTripHolds == Spec => []RoundTrip
<1>1. ASSUME IInv PROVE RoundTrip
  <2>1. ASSUME Intact, pc = "data"
        PROVE  /\ want.nd = shape.nd /\ want.ew = shape.ew /\ count = shape.ne
               /\ \A k \in 0..shape.nd - 1 : w[1 + k] = data[k]
               /\ \A k \in 0..shape.ne * shape.ew - 1 : w[list_ptr_index + 2 + k] = elems[k]
    <3>1. TypeOK /\ Built /\ PastRoot /\ PastTag
      BY <1>1, <2>1 DEF IInv
    <3>2. shape.nd \in Nat /\ shape.ne * shape.ew \in Nat
      BY <3>1, ShapeFacts DEF TypeOK
    <3>3. w[0][3] = shape.nd /\ w[shape.nd + 2][3] = shape.ew
          /\ w[shape.nd + 2][2] * 16384 + w[shape.nd + 2][1] \div 4 = shape.ne
      BY <3>1, IntactWords
    <3>4. want.nd = shape.nd
      BY <3>1, <3>3 DEF PastRoot
    <3>5. list_ptr_index + 1 = shape.nd + 2 /\ list_ptr_index + 2 = shape.nd + 3
      BY <3>2, <3>4 DEF list_ptr_index
    <3>6. want.ew = shape.ew /\ count = shape.ne
      BY <3>1, <3>3, <3>5 DEF PastTag
    <3>7. BuiltFrom(shape, data, elems, w, len)
      BY <3>1 DEF BuiltFrom, Built, TypeOK
    <3>8. \A k \in 0..shape.nd - 1 : w[1 + k] = data[k]
      BY <3>7, BuiltFacts, SMTT(30)
    <3>9. ASSUME NEW k \in 0..shape.ne * shape.ew - 1
          PROVE  w[list_ptr_index + 2 + k] = elems[k]
      <4>1. w[shape.nd + 3 + k] = elems[k]
        BY <3>7, BuiltFacts
      <4> QED BY <3>5, <4>1
    <3> QED BY <3>4, <3>6, <3>8, <3>9
  <2>2. ASSUME Intact, pc = "null", want.nd = shape.nd, want.ew = shape.ew
        PROVE  cap < MessageBytes(shape.nd, shape.ne, shape.ew)
    BY <1>1, <2>2 DEF IInv, Refused
  <2> QED BY <2>1, <2>2 DEF RoundTrip
<1> QED BY <1>1, InvariantHolds, PTL

(* capnp_build_list_root never writes past the buffer's capacity.           *)
THEOREM BuiltFitsBufferHolds == Spec => []BuiltFitsBuffer
<1>1. ASSUME IInv PROVE BuiltFitsBuffer
  <2>1. len \in Nat /\ w \in [0..(len \div 8) - 2 -> Word] /\ len <= cap
    BY <1>1 DEF IInv, TypeOK
  <2>2. ASSUME NEW k \in 0..(len \div 8) - 2 PROVE 8 + 8 * (k + 1) <= len
    BY <2>1
  <2> QED BY <2>1, <2>2 DEF BuiltFitsBuffer, WordsInMessage
<1> QED BY <1>1, InvariantHolds, PTL

=============================================================================

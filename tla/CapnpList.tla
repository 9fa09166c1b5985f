------------------------------ MODULE CapnpList ------------------------------
(***************************************************************************)
(* The boot path's message exchange (include/capnp_list.h): one program    *)
(* builds a message with capnp_build_list_root, and another, which did not *)
(* build it and may be given fewer bytes or other words, reads it with     *)
(* capnp_read_list_root.                                                   *)
(*                                                                         *)
(* The reader advances from word to word as the source does; every word it *)
(* reads is recorded, so that a read past the message is visible.          *)
(***************************************************************************)
EXTENDS CapnpBuild

CONSTANTS
  Shapes,      \* the builder's and the reader's [nd, ne, ew]
  Payloads,    \* words of data sections and elements
  Damages,     \* words that may stand in the message instead of the built ones
  Spare,       \* how far the buffer's capacity may exceed or miss the message
  MaxDamage,   \* how many words are replaced
  Missing      \* how many bytes are missing at the end

Shape == [nd : Nat, ne : Nat, ew : Nat]

(* The numbers fit the fields that the message has for them.                *)
FitsFields(nd, ne, ew) ==
  /\ nd < 65536 /\ ew < 65536 /\ ne < 1073741824
  /\ ListBodyWords(ne, ew) < 536870912

Encodable(s) == s \in Shape /\ FitsFields(s.nd, s.ne, s.ew)

ASSUME ListAssumption ==
  /\ \A s \in Shapes : Encodable(s)
  /\ Payloads \subseteq Word /\ Damages \subseteq Word
  /\ Spare \subseteq Int /\ MaxDamage \in Nat /\ Missing \subseteq Nat

VARIABLES
  shape,    \* the builder's shape
  data,     \* its data words
  elems,    \* its elements' words
  cap,      \* buf_cap
  w,        \* the words behind the message's header
  len,      \* msg_len
  damage,   \* words replaced so far
  cut,      \* bytes are missing
  want,     \* the shape the reader asks for (ne is not part of the request)
  pc,       \* "build", "transfer", "list", "tag", "data" or "null"
  body,     \* the list pointer's word count, once read
  count,    \* *out_count
  touched   \* history: the words the reader has read

msg  == <<shape, data, elems, cap, w, len, damage, cut, want>>
vars == <<msg, pc, body, count, touched>>

Init ==
  /\ shape \in Shapes
  /\ data \in [0..shape.nd - 1 -> Payloads]
  /\ elems \in [0..shape.ne * shape.ew - 1 -> Payloads]
  /\ \E n \in Spare : cap = MessageBytes(shape.nd, shape.ne, shape.ew) + n /\ cap >= 0
  /\ w = [k \in {} |-> NullWord]
  /\ len = 0
  /\ damage = 0
  /\ cut = FALSE
  /\ want \in Shapes
  /\ pc = "build"
  /\ body = 0
  /\ count = 0
  /\ touched = {}

-----------------------------------------------------------------------------
(* capnp_build_list_root; a result of 0 ends the exchange. *)
Build ==
  /\ pc = "build"
  /\ LET n == MessageBytes(shape.nd, shape.ne, shape.ew) IN
     IF cap < n
       THEN pc' = "null" /\ UNCHANGED <<w, len>>
       ELSE /\ w' = BuiltWords(shape.nd, data, shape.ne, shape.ew, elems)
            /\ len' = n
            /\ pc' = "transfer"
  /\ UNCHANGED <<shape, data, elems, cap, damage, cut, want, body, count, touched>>

(* What the reader is given need not be what was built: one of the three    *)
(* words that the builder does not take from its caller differs, or the end *)
(* is missing.                                                              *)
Damage ==
  /\ pc = "transfer"
  /\ damage \in 0..MaxDamage - 1
  /\ \E k \in {0, shape.nd + 1, TagIndex(shape.nd)} \cap DOMAIN w, v \in Damages : w' = [w EXCEPT ![k] = v]
  /\ damage' = damage + 1
  /\ UNCHANGED <<shape, data, elems, cap, len, cut, want, pc, body, count, touched>>

Cut ==
  /\ pc = "transfer"
  /\ ~cut
  /\ \E n \in {len - m : m \in Missing} :
       /\ n >= 0
       /\ len' = n
       /\ w' = [k \in 0..(n \div 8) - 2 |-> w[k]]
  /\ cut' = TRUE
  /\ UNCHANGED <<shape, data, elems, cap, damage, want, pc, body, count, touched>>

-----------------------------------------------------------------------------
(* capnp_read_list_root *)

seg_words_avail == (len - 8) \div 8

list_ptr_index == 1 + want.nd

Null == pc' = "null" /\ UNCHANGED <<body, count, touched>>

(* The length and the root pointer; only the low two bits, the data words   *)
(* and a pointer count other than 0 are looked at.                          *)
ReadRoot ==
  /\ pc = "transfer"
  /\ IF \/ len < 8
        \/ (len - 8) % 8 # 0
        \/ 1 + want.nd >= seg_words_avail
       THEN Null
       ELSE /\ touched' = touched \cup {0}
            /\ pc' = IF w[0][1] % 4 = 0 /\ w[0][3] = want.nd /\ w[0][4] >= 1
                       THEN "list" ELSE "null"
            /\ UNCHANGED <<body, count>>
  /\ UNCHANGED msg

ReadList ==
  /\ pc = "list"
  /\ LET p == w[list_ptr_index] IN
     /\ pc' = IF p[1] % 4 = 1 /\ p[3] % 8 = 7 THEN "tag" ELSE "null"
     /\ body' = p[4] * 8192 + p[3] \div 8
  /\ touched' = touched \cup {list_ptr_index}
  /\ UNCHANGED <<msg, count>>

BodyAvailable_TagForgotten(n) ==
  /\ list_ptr_index + 1 < seg_words_avail
  /\ n <= seg_words_avail

(* The body that the list pointer declares is in the message. *)
BodyAvailable(n) ==
  /\ list_ptr_index + 1 < seg_words_avail
  /\ n <= seg_words_avail - (list_ptr_index + 1)

(* Tag word and n elements fit the body; body - 1 is unsigned, so a body of *)
(* 0 words passes the first test and fails the second.                      *)
ElementsFit(n, ew) ==
  /\ ew # 0 /\ body # 0 => n <= (body - 1) \div ew
  /\ 1 + n * ew <= body

ReadTag ==
  /\ pc = "tag"
  /\ IF ~BodyAvailable(body)
       THEN Null
       ELSE LET t == w[list_ptr_index + 1]
                n == t[2] * 16384 + t[1] \div 4
            IN  /\ touched' = touched \cup {list_ptr_index + 1}
                /\ IF /\ t[1] % 4 = 0 /\ t[3] = want.ew /\ t[4] = 0
                      /\ ElementsFit(n, want.ew)
                     THEN pc' = "data" /\ count' = n
                     ELSE pc' = "null" /\ UNCHANGED count
                /\ UNCHANGED body
  /\ UNCHANGED msg

Next == Build \/ Damage \/ Cut \/ ReadRoot \/ ReadList \/ ReadTag

Spec == Init /\ [][Next]_vars

-----------------------------------------------------------------------------
(* Properties *)

TypeOK ==
  /\ shape \in Shapes /\ want \in Shapes
  /\ data \in [0..shape.nd - 1 -> Word]
  /\ elems \in [0..shape.ne * shape.ew - 1 -> Word]
  /\ cap \in Nat /\ len \in Nat
  /\ w \in [0..(len \div 8) - 2 -> Word]
  /\ damage \in 0..MaxDamage /\ cut \in BOOLEAN
  /\ pc \in {"build", "transfer", "list", "tag", "data", "null"}
  /\ body \in Nat /\ count \in Nat
  /\ touched \subseteq Nat

(* Words k up to n - 1 are inside the message. *)
WordsInMessage(n) == 8 + 8 * n <= len

(* The words of the data section and of the elements that a successful read *)
(* hands out.                                                               *)
HandedOut == list_ptr_index + 2 + count * want.ew

(* Whatever message it is given, the reader reads no word outside it, and   *)
(* what it hands out on success, to a caller that does no checks of its own *)
(* any more, lies inside it ("rejected (NULL) rather than read out of       *)
(* bounds", capnp_list.h:92-93).                                            *)
ReadsInBounds ==
  /\ \A k \in touched : WordsInMessage(k + 1)
  /\ pc = "data" => WordsInMessage(HandedOut)

Intact == damage = 0 /\ ~cut

(* A message that arrives as it was built, at a reader that asks for its    *)
(* shape, is never rejected, and the reader sees the builder's data, number *)
(* of elements and elements; asked for another shape it is rejected, unless *)
(* the shapes differ in the number of elements only.                        *)
RoundTrip ==
  /\ Intact /\ pc = "data" =>
       /\ want.nd = shape.nd /\ want.ew = shape.ew /\ count = shape.ne
       /\ \A k \in 0..shape.nd - 1 : w[1 + k] = data[k]
       /\ \A k \in 0..shape.ne * shape.ew - 1 : w[list_ptr_index + 2 + k] = elems[k]
  /\ Intact /\ pc = "null" /\ want.nd = shape.nd /\ want.ew = shape.ew =>
       cap < MessageBytes(shape.nd, shape.ne, shape.ew)

(* What was written fits the buffer it was written to. *)
BuiltFitsBuffer == len <= cap /\ \A k \in DOMAIN w : WordsInMessage(k + 1)

-----------------------------------------------------------------------------
(* The inductive invariant *)

Built ==
  /\ len = MessageBytes(shape.nd, shape.ne, shape.ew)
  /\ w = BuiltWords(shape.nd, data, shape.ne, shape.ew, elems)

(* What the reader has established, by how far it got. *)
PastRoot ==
  /\ len >= 8 /\ (len - 8) % 8 = 0
  /\ 1 + want.nd < seg_words_avail
  /\ w[0][3] = want.nd

PastList == body = w[list_ptr_index][4] * 8192 + w[list_ptr_index][3] \div 8

PastTag ==
  LET t == w[list_ptr_index + 1] IN
  /\ BodyAvailable(body)
  /\ t[3] = want.ew
  /\ count = t[2] * 16384 + t[1] \div 4
  /\ ElementsFit(count, want.ew)

(* Why the reader said no to a message that is as it was built. *)
Refused ==
  \/ len = 0 /\ cap < MessageBytes(shape.nd, shape.ne, shape.ew)
  \/ want.nd # shape.nd \/ want.ew # shape.ew

(* The inductive invariant behind ReadsInBounds, RoundTrip and              *)
(* BuiltFitsBuffer: what the message is, and what the reader has checked of *)
(* it before it reads the next word.                                        *)
IInv ==
  /\ TypeOK
  /\ len <= cap
  /\ pc = "build" => len = 0 /\ Intact
  /\ Intact /\ pc \notin {"build", "null"} => Built
  /\ Intact /\ pc = "null" => Refused
  /\ pc \in {"list", "tag", "data"} => PastRoot
  /\ pc \in {"tag", "data"} => PastList
  /\ pc = "data" => PastTag
  /\ \A k \in touched : WordsInMessage(k + 1)
  /\ pc \in {"build", "transfer"} => touched = {}

=============================================================================

------------------------------ MODULE CapnpWire ------------------------------
(***************************************************************************)
(* Cap'n Proto words and pointers (kernel/capnp.h).                        *)
(*                                                                         *)
(* A 64-bit word is its four 16-bit quarters, least significant first, so  *)
(* that every field of a pointer is decoded from the bits it occupies.     *)
(***************************************************************************)
EXTENDS Integers

Quarter == {q \in Nat : q < 65536}

Word == Quarter \X Quarter \X Quarter \X Quarter

NullWord == <<0, 0, 0, 0>>

Tags == {"null", "struct", "list", "far", "capability"}

Tag(w) ==
  IF w = NullWord THEN "null"
  ELSE CASE w[1] % 4 = 0 -> "struct"
         [] w[1] % 4 = 1 -> "list"
         [] w[1] % 4 = 2 -> "far"
         [] OTHER        -> "capability"

(* Bits 2 to 31 as a signed number; bits 3 to 31, unsigned, of a far        *)
(* pointer.                                                                 *)
Offset(w) ==
  CASE Tag(w) \in {"struct", "list"} /\ w[2] < 32768 -> w[2] * 16384 + w[1] \div 4
    [] Tag(w) \in {"struct", "list"} /\ w[2] >= 32768 ->
         (w[2] - 65536) * 16384 + w[1] \div 4
    [] Tag(w) = "far" -> w[2] * 8192 + w[1] \div 8
    [] OTHER          -> 0

(* The sections of a struct pointer, and of a composite list's tag word. *)
DataWords(w) == IF Tag(w) = "struct" THEN w[3] ELSE 0

PtrWords(w)  == IF Tag(w) = "struct" THEN w[4] ELSE 0

(* The element size code and the 29-bit count of a list pointer. *)
ElementSize(w)  == IF Tag(w) = "list" THEN w[3] % 8 ELSE 0

ElementCount(w) == IF Tag(w) = "list" THEN w[4] * 8192 + w[3] \div 8 ELSE 0

-----------------------------------------------------------------------------
(* Writing pointer words. *)

(* A struct pointer; a composite list's tag word has its element count in   *)
(* place of the offset.                                                     *)
StructWord(offset, data, ptrs) ==
  LET bits == offset % 1073741824
  IN  <<4 * (bits % 16384), bits \div 16384, data, ptrs>>

ListWord(offset, size, count) ==
  LET bits == offset % 1073741824
  IN  <<4 * (bits % 16384) + 1, bits \div 16384,
        size + 8 * (count % 8192), count \div 8192>>

=============================================================================

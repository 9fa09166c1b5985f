----------------------------- MODULE CapnpBuild -----------------------------
(***************************************************************************)
(* The words that capnp_build_list_root (include/capnp_list.h) writes: a   *)
(* root struct of plain data words and one pointer, to a composite list of *)
(* structs of plain data words.                                            *)
(***************************************************************************)
EXTENDS CapnpWire

(* Tag word and elements. *)
ListBodyWords(ne, ew) == 1 + ne * ew

SegWords_NoTag(nd, ne, ew) == 1 + nd + 1 + ne * ew

(* Root pointer, data section, list pointer and list. *)
SegWords(nd, ne, ew) == 1 + nd + 1 + ListBodyWords(ne, ew)

MessageBytes(nd, ne, ew) == 8 + 8 * SegWords(nd, ne, ew)

TagIndex(nd) == nd + 2

ListPointer_ElementsOnly(ne, ew) == ListWord(0, 7, ne * ew)

(* The list pointer's count: the words of the body, the tag word included.  *)
ListPointer(ne, ew) == ListWord(0, 7, ListBodyWords(ne, ew))

(* data and elems are the caller's words, numbered from 0.                  *)
BuiltWords(nd, data, ne, ew, elems) ==
  [k \in 0..TagIndex(nd) + ne * ew |->
     CASE k = 0            -> StructWord(0, nd, 1)
       [] k \in 1..nd      -> data[k - 1]
       [] k = nd + 1       -> ListPointer(ne, ew)
       [] k = TagIndex(nd) -> StructWord(ne, ew, 0)
       [] OTHER            -> elems[k - TagIndex(nd) - 1]]

=============================================================================

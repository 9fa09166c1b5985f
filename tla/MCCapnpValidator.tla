-------------------------- MODULE MCCapnpValidator --------------------------
(***************************************************************************)
(* Small messages for CapnpValidator.                                      *)
(***************************************************************************)
EXTENDS CapnpValidator, Sequences

FromSeq(q) == [n \in 0..Len(q) - 1 |-> q[n + 1]]

Strct(data, count, first) ==
  [data_words |-> data, pointer_count |-> count, first_pointer |-> first]

Pntr(kind, element, size) ==
  [kind |-> kind, element_struct |-> element, list_element_size |-> size]

Tbl(structs, pointers) == [structs |-> FromSeq(structs), pointers |-> FromSeq(pointers)]

(* A node that points to a node; a list of nodes with a text each; a list   *)
(* of lists; a capability and an unchecked pointer; a table whose run of    *)
(* pointers is too long; and a struct without a schema.                     *)
MCTables ==
  {Tbl(<<Strct(0, 1, 0)>>, <<Pntr("struct", 0, 0)>>),
   Tbl(<<Strct(0, 2, 0), Strct(0, 1, 1)>>,
       <<Pntr("list", 1, 7), Pntr("text", SCHEMA_IDX_NONE, 0)>>),
   Tbl(<<Strct(0, 1, 0)>>, <<Pntr("list", 0, ANY_SIZE)>>),
   Tbl(<<Strct(0, 2, 0), Strct(0, 1, SCHEMA_IDX_NONE)>>,
       <<Pntr("capability", 0, 0), Pntr("any", 0, 0)>>),
   Tbl(<<Strct(1, 2, 0)>>, <<Pntr("data", 0, 0)>>),
   Tbl(<<Strct(0, 1, 0)>>, <<Pntr("struct", SCHEMA_IDX_NONE, 0)>>)}

(* Pointers of every kind, forward, backward (so that cycles arise) and to  *)
(* their own word, that fit the message or exceed it by a word or a byte.   *)
(* Any of them may also be met as the tag word of a list.                   *)
MCWords ==
  {NullWord, StructWord(0, 0, 1), StructWord(0, 1, 1), StructWord(-1, 0, 1), StructWord(0, 0, 2),
   StructWord(1, 0, 1), ListWord(0, 7, 1), ListWord(0, 7, 0), ListWord(0, 2, 8),
   ListWord(0, 2, 9), ListWord(0, 5, 1), <<10, 0, 0, 0>>, <<3, 0, 5, 0>>}

Msg(n, more, words, q) == [len |-> n, hdr |-> [more |-> more, words |-> words], seg |-> q]

(* All messages of two words, also with a wrong header or length, and of    *)
(* three; and longer ones that start with a list of up to three elements.   *)
ShortMessages ==
  {Msg(n, 0, words, FromSeq(<<>>)) : n \in {0, 7, 8}, words \in {0, 1}}
  \cup {Msg(n, more, words, FromSeq(q)) :
          n \in {24, 31}, more \in {0, 1}, words \in {0, 2, 3}, q \in [1..2 -> MCWords]}
  \cup {Msg(32, 0, words, FromSeq(q)) : words \in {2, 3}, q \in [1..3 -> MCWords]}

ListMessages ==
  {Msg(48, 0, 5, FromSeq(<<StructWord(0, 0, 1), ListWord(0, 7, total), StructWord(n, d, p), v, w>>)) :
     total \in {1, 2, 3}, n \in {1, 2, -1}, d \in {0, 1}, p \in {0, 1},
     v \in MCWords, w \in MCWords}

MCMessages == ShortMessages \cup {m \in ListMessages : ~(m.seg[2][3] = 0 /\ m.seg[2][4] = 0)}

=============================================================================

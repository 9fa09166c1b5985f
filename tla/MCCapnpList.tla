---------------------------- MODULE MCCapnpList ----------------------------
(***************************************************************************)
(* Small shapes and damaged words for CapnpList.                           *)
(***************************************************************************)
EXTENDS CapnpList

(* No data words, none or two elements, empty elements, and shapes that     *)
(* differ in one number.                                                    *)
MCShapes ==
  {[nd |-> n[1], ne |-> n[2], ew |-> n[3]] :
     n \in {<<0, 1, 1>>, <<1, 1, 1>>, <<1, 0, 1>>, <<1, 2, 0>>, <<1, 1, 2>>, <<0, 2, 1>>}}

MCPayloads == {<<4, 0, 1, 0>>, <<1, 0, 15, 0>>}

(* Struct pointers and tag words of other sizes, the largest count, a root  *)
(* with another offset, list pointers with a shorter, longer, empty and the *)
(* longest body, and a null word.                                           *)
MCDamages ==
  {NullWord, StructWord(0, 0, 1), StructWord(3, 1, 2), StructWord(1, 2, 0),
   <<65532, 65535, 1, 0>>, ListWord(0, 7, 0), ListWord(0, 7, 2), ListWord(1, 7, 6),
   ListWord(0, 5, 1), <<1, 0, 65535, 65535>>}

MCSpare == {-1, 0, 5}

MCMissing == {1, 8, 16, 23, 40}

=============================================================================

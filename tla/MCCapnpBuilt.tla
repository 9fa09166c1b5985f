---------------------------- MODULE MCCapnpBuilt ----------------------------
(***************************************************************************)
(* Messages of capnp_build_list_root, given to capnp_validate_message with *)
(* the schema of their own shape.                                          *)
(***************************************************************************)
EXTENDS CapnpValidator, CapnpBuild

FromPair(x, y) == [n \in 0..1 |-> IF n = 0 THEN x ELSE y]

Strct(data, count, first) ==
  [data_words |-> data, pointer_count |-> count, first_pointer |-> first]

(* A root with two data words and a list, as InitDescription has, of        *)
(* structs with one data word.                                              *)
BuiltTables ==
  {[structs |-> FromPair(Strct(2, 1, 0), Strct(1, 0, SCHEMA_IDX_NONE)),
    pointers |-> [n \in {0} |->
      [kind |-> "list", element_struct |-> 1, list_element_size |-> 7]]]}

BuiltMessages ==
  {[len |-> MessageBytes(2, ne, 1),
    hdr |-> [more |-> 0, words |-> SegWords(2, ne, 1)],
    seg |-> BuiltWords(2, [k \in 0..1 |-> <<7, 0, 0, 0>>], ne, 1,
                       [k \in 0..ne - 1 |-> <<7, 0, 0, 0>>])] : ne \in 0..3}

(* The validator accepts, as the root struct they were built for, the       *)
(* messages that capnp_build_list_root builds (capnp_list.h:30: "Verified   *)
(* against saski/kernel/capnp_validate.c's own real decoder").              *)
BuiltIsAccepted == schema = 0 => verdict # "reject"

=============================================================================

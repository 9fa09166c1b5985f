----------------------------- MODULE MCCapKernel -----------------------------
(***************************************************************************)
(* Small instances of CapKernel for model checking.                        *)
(***************************************************************************)
EXTENDS CapRefinement, CapInvariants

CONSTANTS c1, c2, s1, a, b

Req(t, m, s, g, o, n) ==
  [target |-> t, method |-> m, shape |-> s, arg |-> g, obj |-> o, response_cap |-> n]

(* Two objects compete for one slot: CREATE of either, with and without     *)
(* room for the response, DESTROY of the slot and of the factory, and calls *)
(* that were built for object a.                                            *)
MCRequests ==
  {Req(Factory, "create",  FactoryObj, s1,      a, 24),
   Req(Factory, "create",  FactoryObj, s1,      b, 16),
   Req(Factory, "create",  FactoryObj, "NULL",  a, 24),
   Req(Factory, "destroy", FactoryObj, s1,      a, 24),
   Req(Factory, "destroy", FactoryObj, Factory, a, 24),
   Req(s1,      "call",    a,          "NULL",  a, 24)}

=============================================================================

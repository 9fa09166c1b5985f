----------------------------- MODULE MCCapImages -----------------------------
(***************************************************************************)
(* Small machines for CapImages.                                           *)
(***************************************************************************)
EXTENDS CapImages

CONSTANTS p1, p2, p3

=============================================================================

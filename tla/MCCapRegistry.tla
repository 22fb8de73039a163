--------------------------- MODULE MCCapRegistry ----------------------------
(* CapRegistry on a small instance. *)
EXTENDS CapRegistry
=============================================================================

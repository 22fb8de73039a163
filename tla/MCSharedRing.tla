---------------------------- MODULE MCSharedRing ----------------------------
(* SharedRing on a small instance. *)
EXTENDS SharedRing
=============================================================================

----------------------------- MODULE MCRingFile -----------------------------
(* RingFile on a small instance. *)
EXTENDS RingFile

\* Two layouts of the same length, one of another, and one that overflows.
MCLayouts ==
  {[capacity |-> 2, slot_size |-> 2], [capacity |-> 3, slot_size |-> 1],
   [capacity |-> 1, slot_size |-> 1], [capacity |-> 4, slot_size |-> 3]}
=============================================================================

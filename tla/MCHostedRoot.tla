--------------------------- MODULE MCHostedRoot -----------------------------
(* HostedRoot on a small instance. *)
EXTENDS HostedRoot

\* A corridor between the two courts, and one from the second to itself.
MCEnds == {<<1, 2>>, <<2, 2>>}
=============================================================================

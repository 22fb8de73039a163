---------------------------- MODULE BoundedFifo -----------------------------
(***************************************************************************)
(* What a packet ring promises to its two ends: a queue that holds at most *)
(* Capacity messages, takes them whole and delivers them whole, in order,  *)
(* each once.                                                              *)
(***************************************************************************)
EXTENDS Naturals, Sequences

CONSTANTS Capacity, Messages, Nothing

VARIABLES
  queue,     \* accepted and not yet delivered
  delivered  \* the message delivered last

vars == <<queue, delivered>>

Init == queue = <<>> /\ delivered = Nothing

Send(m) ==
  /\ Len(queue) < Capacity
  /\ queue' = Append(queue, m)
  /\ UNCHANGED delivered

Recv ==
  /\ queue # <<>>
  /\ delivered' = Head(queue)
  /\ queue' = Tail(queue)

Next == Recv \/ \E m \in Messages : Send(m)

\* A consumer that keeps polling gets every accepted message.
Spec == Init /\ [][Next]_vars /\ WF_vars(Recv)
=============================================================================

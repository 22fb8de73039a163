----------------------------- MODULE SharedRing -----------------------------
(***************************************************************************)
(* The mmap'ed single-producer single-consumer ring of                     *)
(* crates/court-hosted-linux/src/shm_ring.rs, between two processes that   *)
(* share memory and nothing else.                                          *)
(*                                                                         *)
(* send and recv are taken one memory access at a time.  The producer's    *)
(* stores become visible to the consumer through a buffer: plain stores to *)
(* a slot in any order, the Release store of the index only after every    *)
(* store before it; a later plain store may overtake it.  The consumer's   *)
(* index store is buffered too.  The loads happen in program order, which  *)
(* is what Acquire gives: nothing after the load of the other side's index *)
(* happens before it.                                                      *)
(*                                                                         *)
(* A message is a length and some data, stored by two accesses, so that a  *)
(* torn read is a value that was never sent.  Either process may stop for  *)
(* good between any two steps; the producer has no fairness, so it may     *)
(* stop in the middle of send.                                             *)
(***************************************************************************)
EXTENDS Integers, Sequences

CONSTANTS
  Capacity,  \* slots of the ring
  SlotSize,  \* slot_size: the longest payload
  Modulus,   \* the indices are Modulus-valued counters; 2^64 in the code
  Data,      \* payload contents
  Zero       \* the contents of a fresh file

\* The code takes slots modulo capacity of a wrapping index, so a slot
\* sequence without a jump at the wrap needs a capacity that divides 2^64.
ASSUME RingAssumption ==
  /\ Capacity \in Nat \ {0} /\ SlotSize \in Nat /\ Modulus \in Nat
  /\ Modulus > Capacity /\ Modulus % Capacity = 0
  /\ Zero \notin Data

Indices == 0 .. Modulus - 1
Slots == 0 .. Capacity - 1
Messages == [len : 0 .. SlotSize, data : Data]
Payloads == [len : 0 .. SlotSize + 1, data : Data]  \* what a caller may pass to send
Nothing == [len |-> 0, data |-> Zero]

VARIABLES
  producer, consumer,  \* the header's atomics, as the other side sees them
  slots,               \* slot contents, as the consumer sees them
  writes,              \* the producer's stores not yet visible, oldest first
  acks,                \* the consumer's index stores not yet visible
  endpoint,            \* the producer's EndpointState
  p_pc, p_index, p_msg,          \* the producer inside send
  c_pc, c_index, c_len, c_data,  \* the consumer inside recv
  delivered,           \* what recv returned last
  queue                \* auxiliary: messages published and not yet returned

shared == <<producer, consumer, slots>>
p_vars == <<p_pc, p_index, p_msg>>
c_vars == <<c_pc, c_index, c_len, c_data>>
vars == <<shared, writes, acks, endpoint, p_vars, c_vars, delivered, queue>>

Store == [at : {"len"}, slot : Slots, value : 0 .. SlotSize]
    \cup [at : {"data"}, slot : Slots, value : Data]
    \cup [at : {"producer"}, value : Indices, msg : Messages]

\* Every variable is of its type; the lengths in the slots stay within
\* slot_size, as the check of send and recv on the length asks.
TypeOK ==
  /\ producer \in Indices /\ consumer \in Indices
  /\ slots \in [Slots -> [len : 0 .. SlotSize, data : Data \cup {Zero}]]
  /\ writes \in Seq(Store)
  /\ acks \in Seq(Indices)
  /\ endpoint \in [revoked : BOOLEAN, peer_down : BOOLEAN]
  /\ p_pc \in {"idle", "len", "data", "publish"}
  /\ p_index \in Indices /\ p_msg \in Messages \cup {Nothing}
  /\ c_pc \in {"idle", "len", "data", "ack"}
  /\ c_index \in Indices /\ c_len \in 0 .. SlotSize /\ c_data \in Data \cup {Zero}
  /\ delivered \in [len : 0 .. SlotSize, data : Data \cup {Zero}]
  /\ queue \in Seq(Messages)

\* SharedRing::create on a truncated file, then init.
Init ==
  /\ producer = 0 /\ consumer = 0
  /\ slots = [s \in Slots |-> Nothing]
  /\ writes = <<>> /\ acks = <<>>
  /\ endpoint = [revoked |-> FALSE, peer_down |-> FALSE]
  /\ p_pc = "idle" /\ p_index = 0 /\ p_msg = Nothing
  /\ c_pc = "idle" /\ c_index = 0 /\ c_len = 0 /\ c_data = Zero
  /\ delivered = Nothing
  /\ queue = <<>>

-----------------------------------------------------------------------------
wrapping_add(i) == (i + 1) % Modulus
wrapping_sub(i, j) == (i - j) % Modulus
SlotOf(index) == index % Capacity

\* EndpointState::status.
Status ==
  IF endpoint.peer_down THEN "PeerDown"
  ELSE IF endpoint.revoked THEN "Revoked" ELSE "Ok"

IsFull == wrapping_sub(p_index, consumer) >= Capacity

\* Mutant: send without the test of payload.len().
SendStartUnbounded(m) ==
  /\ p_pc = "idle"
  /\ Status = "Ok"
  /\ ~IsFull
  /\ p_pc' = "len"
  /\ p_msg' = m
  /\ UNCHANGED <<shared, writes, acks, endpoint, p_index, c_vars, delivered, queue>>

\* send(m) up to the point where it owns a slot.  The producer's own index
\* is its last store, visible or not.  A payload longer than a slot, a full
\* ring or a dead endpoint makes send return with nothing changed.
SendStart(m) ==
  /\ p_pc = "idle"
  /\ Status = "Ok"
  /\ m.len <= SlotSize
  /\ ~IsFull
  /\ p_pc' = "len"
  /\ p_msg' = m
  /\ UNCHANGED <<shared, writes, acks, endpoint, p_index, c_vars, delivered, queue>>

SendLen ==
  /\ p_pc = "len"
  /\ p_pc' = "data"
  /\ writes' = Append(writes, [at |-> "len", slot |-> SlotOf(p_index), value |-> p_msg.len])
  /\ UNCHANGED <<shared, acks, endpoint, p_index, p_msg, c_vars, delivered, queue>>

SendData ==
  /\ p_pc = "data"
  /\ p_pc' = "publish"
  /\ writes' = Append(writes, [at |-> "data", slot |-> SlotOf(p_index), value |-> p_msg.data])
  /\ UNCHANGED <<shared, acks, endpoint, p_index, p_msg, c_vars, delivered, queue>>

\* producer.store(producer.wrapping_add(1), Release).
SendPublish ==
  /\ p_pc = "publish"
  /\ p_pc' = "idle"
  /\ p_index' = wrapping_add(p_index)
  /\ p_msg' = Nothing
  /\ writes' = Append(writes, [at |-> "producer", value |-> wrapping_add(p_index),
                               msg |-> p_msg])
  /\ UNCHANGED <<shared, acks, endpoint, c_vars, delivered, queue>>

\* mark_revoked or mark_peer_down, by the producer between two sends.
MarkEndpoint(flag) ==
  /\ p_pc = "idle"
  /\ endpoint' = [endpoint EXCEPT ![flag] = TRUE]
  /\ UNCHANGED <<shared, writes, acks, p_vars, c_vars, delivered, queue>>

\* Two stores to the same place stay in order.
SamePlace(v, w) ==
  v.at = w.at /\ (v.at # "producer" => v.slot = w.slot)

\* Mutant: the index stored with Relaxed.
MayDrainRelaxed(i) == \A j \in 1 .. i - 1 : ~SamePlace(writes[j], writes[i])

\* The i-th buffered store of the producer may become visible: a Release
\* store after all before it, a plain store after those to the same place.
MayDrain(i) ==
  IF writes[i].at = "producer" THEN i = 1
  ELSE \A j \in 1 .. i - 1 : ~SamePlace(writes[j], writes[i])

Drain(i) ==
  LET w == writes[i]
  IN  /\ MayDrain(i)
      /\ writes' = SubSeq(writes, 1, i - 1) \o SubSeq(writes, i + 1, Len(writes))
      /\ CASE w.at = "producer" -> /\ producer' = w.value
                                   /\ queue' = Append(queue, w.msg)
                                   /\ UNCHANGED slots
           [] w.at = "len"  -> /\ slots' = [slots EXCEPT ![w.slot].len = w.value]
                               /\ UNCHANGED <<producer, queue>>
           [] w.at = "data" -> /\ slots' = [slots EXCEPT ![w.slot].data = w.value]
                               /\ UNCHANGED <<producer, queue>>
      /\ UNCHANGED <<consumer, acks, endpoint, p_vars, c_vars, delivered>>

-----------------------------------------------------------------------------
\* Mutant: emptiness decided by order, not by equality.
RecvStartOrdered ==
  /\ c_pc = "idle"
  /\ c_index < producer
  /\ c_pc' = "len"
  /\ UNCHANGED <<shared, writes, acks, endpoint, p_vars, c_index, c_len, c_data,
                 delivered, queue>>

\* recv up to the Acquire load of producer; an empty ring returns None.  The
\* status it tests first is that of the receiver's own endpoint, which net
\* never marks: endpoint is the sender's.
RecvStart ==
  /\ c_pc = "idle"
  /\ c_index # producer
  /\ c_pc' = "len"
  /\ UNCHANGED <<shared, writes, acks, endpoint, p_vars, c_index, c_len, c_data,
                 delivered, queue>>

\* A length above slot_size would make recv return InvalidObject and stay
\* where it is.  NoOverwrite says the length read is the one send stored, so
\* that return is never taken.
RecvLen ==
  /\ c_pc = "len"
  /\ c_pc' = "data"
  /\ c_len' = slots[SlotOf(c_index)].len
  /\ UNCHANGED <<shared, writes, acks, endpoint, p_vars, c_index, c_data, delivered, queue>>

RecvData ==
  /\ c_pc = "data"
  /\ c_pc' = "ack"
  /\ c_data' = slots[SlotOf(c_index)].data
  /\ UNCHANGED <<shared, writes, acks, endpoint, p_vars, c_index, c_len, delivered, queue>>

\* consumer.store(consumer.wrapping_add(1), Release) and the return.
RecvAck ==
  /\ c_pc = "ack"
  /\ c_pc' = "idle"
  /\ c_index' = wrapping_add(c_index)
  /\ acks' = Append(acks, wrapping_add(c_index))
  /\ delivered' = [len |-> c_len, data |-> c_data]
  /\ c_len' = 0 /\ c_data' = Zero
  /\ queue' = Tail(queue)
  /\ UNCHANGED <<shared, writes, endpoint, p_vars>>

DrainAck ==
  /\ acks # <<>>
  /\ consumer' = Head(acks)
  /\ acks' = Tail(acks)
  /\ UNCHANGED <<producer, slots, writes, endpoint, p_vars, c_vars, delivered, queue>>

Send == (\E m \in Payloads : SendStart(m)) \/ SendLen \/ SendData \/ SendPublish
Recv == RecvStart \/ RecvLen \/ RecvData \/ RecvAck
Visible == (\E i \in 1 .. Len(writes) : Drain(i)) \/ DrainAck

Next ==
  \/ Send
  \/ Recv
  \/ Visible
  \/ \E flag \in {"revoked", "peer_down"} : MarkEndpoint(flag)

\* The consumer polls in a loop, and a store becomes visible some day.
Spec == Init /\ [][Next]_vars /\ WF_vars(Recv) /\ WF_vars(Visible)

-----------------------------------------------------------------------------
Fifo == INSTANCE BoundedFifo

\* The ring, indices wrapping and stores delayed, is a bounded FIFO: what
\* recv returns is what send was given, whole, in order, once, and a message
\* whose index was stored is returned some day.
ImplementsFifo == Fifo!Spec

\* The producer never overwrites a slot the consumer may still read: no
\* store to the slot of an undelivered message is on its way while the
\* consumer is at that message.
NoOverwrite ==
  c_pc # "idle" =>
    /\ \A i \in 1 .. Len(writes) :
         writes[i].at # "producer" => writes[i].slot # SlotOf(c_index)
    /\ slots[SlotOf(c_index)] = Head(queue)
-----------------------------------------------------------------------------
\* How far an index is ahead of what the producer knows of the consumer.
Off(i) == wrapping_sub(i, consumer)

\* The consumer's unseen index stores, the visible messages and the unseen
\* messages are consecutive stretches, Capacity long together at most, and
\* shorter while the producer owns a slot.
Window ==
  /\ Off(c_index) = Len(acks)
  /\ \A i \in DOMAIN acks : Off(acks[i]) = i
  /\ Off(producer) = Len(acks) + Len(queue)
  /\ Off(producer) <= Off(p_index) /\ Off(p_index) <= Capacity
  /\ p_pc # "idle" => Off(p_index) < Capacity /\ p_msg \in Messages
  /\ c_pc # "idle" => queue # <<>>

IsIndex(i) == i \in DOMAIN writes /\ writes[i].at = "producer"

\* The unseen index stores are those of the messages sent and not visible,
\* each once and in order.
IndexStores ==
  /\ \A i \in DOMAIN writes : IsIndex(i) =>
       Off(producer) < Off(writes[i].value) /\ Off(writes[i].value) <= Off(p_index)
  /\ \A i, j \in DOMAIN writes : IsIndex(i) /\ IsIndex(j) /\ i < j =>
       Off(writes[i].value) < Off(writes[j].value)
  /\ \A x \in Indices : Off(producer) <= Off(x) /\ Off(x) < Off(p_index) =>
       \E i \in DOMAIN writes : IsIndex(i) /\ writes[i].value = wrapping_add(x)

\* Where send is: the fields of the slot it has stored to.
Begun(at) == IF at = "len" THEN p_pc \in {"data", "publish"} ELSE p_pc = "publish"

Field(m, at) == IF at = "len" THEN m.len ELSE m.data

IsField(j, at, x) ==
  j \in DOMAIN writes /\ writes[j].at = at /\ writes[j].slot = SlotOf(x)

\* A field of the slot of index x is, or is on its way to be, that of m.
Stored(at, x, m) ==
  /\ \A j \in DOMAIN writes : IsField(j, at, x) => writes[j].value = Field(m, at)
  /\ \/ Field(slots[SlotOf(x)], at) = Field(m, at)
     \/ \E j \in DOMAIN writes : IsField(j, at, x)

\* The unseen field stores belong to messages that are not visible yet.
FieldStores ==
  \A at \in {"len", "data"} :
    /\ \A j \in DOMAIN writes : writes[j].at = at =>
         \E x \in Indices : /\ IsField(j, at, x) /\ Off(producer) <= Off(x)
                            /\ Off(x) < Off(p_index) \/ (x = p_index /\ Begun(at))
    /\ \A x \in Indices, i \in DOMAIN writes :
         IsIndex(i) /\ writes[i].value = wrapping_add(x) =>
           /\ Stored(at, x, writes[i].msg)
           /\ \A j \in DOMAIN writes : IsField(j, at, x) => j < i
    /\ Begun(at) => Stored(at, p_index, p_msg)

\* A visible message is whole in its slot, and so is what recv has read.
SlotsHoldQueue ==
  /\ \A x \in Indices : Off(c_index) <= Off(x) /\ Off(x) < Off(producer) =>
       slots[SlotOf(x)] = queue[Off(x) - Off(c_index) + 1]
  /\ c_pc \in {"data", "ack"} => c_len = Head(queue).len
  /\ c_pc = "ack" => c_data = Head(queue).data

\* Why the ring works: the indices agree on who owns which slot, and the
\* stores on their way only touch slots the consumer does not look at.
RingInv == TypeOK /\ Window /\ IndexStores /\ FieldStores /\ SlotsHoldQueue
=============================================================================

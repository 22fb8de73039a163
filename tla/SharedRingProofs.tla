-------------------------- MODULE SharedRingProofs --------------------------
(***************************************************************************)
(* Proofs about the shared ring, for every capacity, slot size and index   *)
(* width: the inductive invariant RingInv, from which it follows that the  *)
(* producer overwrites nothing the consumer may still read and that the    *)
(* ring is a bounded FIFO.                                                 *)
(***************************************************************************)
EXTENDS SharedRing, TLAPS

-----------------------------------------------------------------------------
\* Arithmetic of the wrapping indices.  The remainder is expanded here and
\* nowhere below.

\* The remainder of a number within one modulus of the right range.
LEMMA ModSmall ==
  ASSUME NEW m \in Nat \ {0}, NEW a \in Int
  PROVE  /\ 0 <= a /\ a < m => a % m = a
         /\ 0 - m <= a /\ a < 0 => a % m = a + m
         /\ a = m => a % m = 0
OBVIOUS

\* Two sequences one after the other: the length and the elements of the result.
LEMMA Joined ==
  ASSUME NEW S, NEW s \in Seq(S), NEW t \in Seq(S)
  PROVE  /\ s \o t \in Seq(S)
         /\ Len(s \o t) = Len(s) + Len(t)
         /\ \A i \in 1 .. Len(s) + Len(t) :
              (s \o t)[i] = IF i <= Len(s) THEN s[i] ELSE t[i - Len(s)]
<1>1. s \o t \in Seq(S)
  OBVIOUS
<1>2. Len(s \o t) = Len(s) + Len(t)
  OBVIOUS
<1>3. \A i \in 1 .. Len(s) + Len(t) :
        (s \o t)[i] = IF i <= Len(s) THEN s[i] ELSE t[i - Len(s)]
  OBVIOUS
<1>4. QED
  BY <1>1, <1>2, <1>3, Zenon

\* wrapping_add and wrapping_sub without the remainder.
LEMMA Wrapping ==
  ASSUME NEW i \in Indices, NEW j \in Indices
  PROVE  /\ wrapping_add(i) = IF i = Modulus - 1 THEN 0 ELSE i + 1
         /\ wrapping_sub(i, j) = IF i >= j THEN i - j ELSE i - j + Modulus
<1>1. Modulus \in Nat \ {0}
  BY RingAssumption
<1>2. i \in Int /\ j \in Int /\ 0 <= i /\ i < Modulus /\ 0 <= j /\ j < Modulus
  BY <1>1 DEF Indices
<1>3. wrapping_add(i) = IF i = Modulus - 1 THEN 0 ELSE i + 1
  BY <1>1, <1>2, ModSmall DEF wrapping_add
<1>4. wrapping_sub(i, j) = IF i >= j THEN i - j ELSE i - j + Modulus
  BY <1>1, <1>2, ModSmall, SMTT(30) DEF wrapping_sub
<1>5. QED
  BY <1>3, <1>4, Zenon

\* wrapping_add and wrapping_sub stay among the indices.
LEMMA IndexTypes ==
  ASSUME NEW i \in Indices, NEW j \in Indices
  PROVE  /\ wrapping_add(i) \in Indices /\ wrapping_sub(i, j) \in Indices
         /\ wrapping_sub(i, j) \in Nat /\ wrapping_sub(i, j) < Modulus
         /\ wrapping_sub(i, j) = 0 <=> i = j
<1>1. /\ wrapping_add(i) = IF i = Modulus - 1 THEN 0 ELSE i + 1
      /\ wrapping_sub(i, j) = IF i >= j THEN i - j ELSE i - j + Modulus
  BY Wrapping, Zenon
<1>2. QED
  BY <1>1, RingAssumption DEF Indices

\* Two indices at the same distance from a third are the same.
LEMMA OffInjective ==
  ASSUME NEW i \in Indices, NEW j \in Indices, NEW k \in Indices,
         wrapping_sub(i, k) = wrapping_sub(j, k)
  PROVE  i = j
BY Wrapping, RingAssumption DEF Indices

\* A step of an index takes it one further, if that is not all the way round.
LEMMA OffAdd ==
  ASSUME NEW i \in Indices, NEW k \in Indices
  PROVE  wrapping_sub(i, k) < Modulus - 1 =>
           wrapping_sub(wrapping_add(i), k) = wrapping_sub(i, k) + 1
<1> DEFINE n == wrapping_add(i)
<1>1. n \in Indices /\ n = IF i = Modulus - 1 THEN 0 ELSE i + 1
  BY Wrapping, IndexTypes, Zenon
<1>2. wrapping_sub(n, k) = IF n >= k THEN n - k ELSE n - k + Modulus
  BY <1>1, Wrapping, Zenon
<1>3. wrapping_sub(i, k) = IF i >= k THEN i - k ELSE i - k + Modulus
  BY Wrapping, Zenon
<1> HIDE DEF n
<1>4. wrapping_sub(i, k) < Modulus - 1 => wrapping_sub(n, k) = wrapping_sub(i, k) + 1
  BY <1>1, <1>2, <1>3, RingAssumption DEF Indices
<1>5. QED
  BY <1>4, Zenon DEF n

\* Backwards: the predecessor of an index that is not the origin is one closer.
LEMMA OffAddBack ==
  ASSUME NEW x \in Indices, NEW k \in Indices, wrapping_sub(wrapping_add(x), k) >= 1
  PROVE  wrapping_sub(x, k) = wrapping_sub(wrapping_add(x), k) - 1
<1> DEFINE n == wrapping_add(x)
<1>1. n \in Indices /\ n = IF x = Modulus - 1 THEN 0 ELSE x + 1
  BY Wrapping, IndexTypes, Zenon
<1>2. wrapping_sub(n, k) = IF n >= k THEN n - k ELSE n - k + Modulus
  BY <1>1, Wrapping, Zenon
<1>3. wrapping_sub(x, k) = IF x >= k THEN x - k ELSE x - k + Modulus
  BY Wrapping, Zenon
<1>4. wrapping_sub(n, k) >= 1
  BY Zenon
<1> HIDE DEF n
<1>5. wrapping_sub(x, k) = wrapping_sub(n, k) - 1
  BY <1>1, <1>2, <1>3, <1>4, RingAssumption DEF Indices
<1>6. QED
  BY <1>5, Zenon DEF n

\* A step of the origin brings every other index one closer.
LEMMA OffShift ==
  ASSUME NEW i \in Indices, NEW k \in Indices
  PROVE  /\ wrapping_sub(i, k) >= 1 =>
              wrapping_sub(i, wrapping_add(k)) = wrapping_sub(i, k) - 1
         /\ wrapping_sub(i, k) = 0 =>
              wrapping_sub(i, wrapping_add(k)) = Modulus - 1
<1> DEFINE n == wrapping_add(k)
<1>1. n \in Indices /\ n = IF k = Modulus - 1 THEN 0 ELSE k + 1
  BY Wrapping, IndexTypes, Zenon
<1>2. wrapping_sub(i, n) = IF i >= n THEN i - n ELSE i - n + Modulus
  BY <1>1, Wrapping, Zenon
<1>3. wrapping_sub(i, k) = IF i >= k THEN i - k ELSE i - k + Modulus
  BY Wrapping, Zenon
<1> HIDE DEF n
<1>4. /\ wrapping_sub(i, k) >= 1 => wrapping_sub(i, n) = wrapping_sub(i, k) - 1
      /\ wrapping_sub(i, k) = 0 => wrapping_sub(i, n) = Modulus - 1
  BY <1>1, <1>2, <1>3, RingAssumption DEF Indices
<1>5. QED
  BY <1>4, Zenon DEF n

\* A slot number is a slot.
LEMMA SlotType ==
  ASSUME NEW i \in Indices
  PROVE  SlotOf(i) \in Slots
BY RingAssumption DEF Indices, Slots, SlotOf

\* Quotient and remainder.
LEMMA DivMod ==
  ASSUME NEW c \in Nat \ {0}, NEW a \in Int
  PROVE  \E x \in Int, r \in Int : a = c * x + r /\ r = a % c
<1>1. (a \div c) \in Int /\ (a % c) \in Int /\ a = c * (a \div c) + (a % c)
  OBVIOUS
<1>2. QED
  BY <1>1, Zenon

\* A multiple of c smaller than c is zero.
LEMMA SmallMultiple ==
  ASSUME NEW c \in Nat \ {0}, NEW a \in Int, NEW b \in Int, NEW m \in Int, NEW d \in Int,
         a % c = b % c, m % c = 0,
         d = a - b \/ d = a - b + m \/ d = a - b - m,
         d < c, 0 - d < c
  PROVE  d = 0
<1>1. PICK x \in Int, r \in Int : a = c * x + r /\ r = a % c
  BY DivMod, Zenon
<1>2. PICK y \in Int, s \in Int : b = c * y + s /\ s = b % c
  BY DivMod, Zenon
<1>3. PICK z \in Int, t \in Int : m = c * z + t /\ t = m % c
  BY DivMod, Zenon
<1>4. a - b = c * (x - y) /\ m = c * z
  BY <1>1, <1>2, <1>3
<1>5. a - b + m = c * (x - y + z) /\ a - b - m = c * (x - y - z)
  BY <1>4
<1>6. PICK n \in Int : d = c * n
  <2>1. x - y \in Int /\ x - y + z \in Int /\ x - y - z \in Int
    OBVIOUS
  <2>2. d = c * (x - y) \/ d = c * (x - y + z) \/ d = c * (x - y - z)
    BY <1>4, <1>5, Zenon
  <2>3. QED
    BY <2>1, <2>2, Zenon
<1>7. n = 0
  BY <1>6
<1>8. QED
  BY <1>6, <1>7

\* Indices less than Capacity apart that share a slot are equal: this is where
\* the capacity has to divide the range of the indices.
LEMMA SlotInjective ==
  ASSUME NEW i \in Indices, NEW j \in Indices, NEW k \in Indices,
         SlotOf(i) = SlotOf(j),
         wrapping_sub(i, k) - wrapping_sub(j, k) < Capacity,
         wrapping_sub(j, k) - wrapping_sub(i, k) < Capacity
  PROVE  i = j
<1> DEFINE d == wrapping_sub(i, k) - wrapping_sub(j, k)
<1>1. /\ Capacity \in Nat \ {0} /\ Modulus \in Nat \ {0}
      /\ i \in Int /\ j \in Int /\ Modulus \in Int
  BY RingAssumption DEF Indices
<1>2. i % Capacity = j % Capacity /\ Modulus % Capacity = 0
  BY RingAssumption, Zenon DEF SlotOf
<1>3. /\ wrapping_sub(i, k) = IF i >= k THEN i - k ELSE i - k + Modulus
      /\ wrapping_sub(j, k) = IF j >= k THEN j - k ELSE j - k + Modulus
  BY Wrapping, Zenon
<1>4. d \in Int /\ (d = i - j \/ d = i - j + Modulus \/ d = i - j - Modulus)
  BY <1>1, <1>3 DEF Indices
<1>5. d < Capacity /\ 0 - d < Capacity
  BY <1>1, <1>4, IndexTypes
<1> HIDE DEF d
<1>6. d = 0
  BY <1>1, <1>2, <1>4, <1>5, SmallMultiple, Zenon
<1>7. wrapping_sub(i, k) = wrapping_sub(j, k)
  BY <1>6, IndexTypes DEF d
<1>8. QED
  BY <1>7, OffInjective, Zenon
-----------------------------------------------------------------------------
\* Facts about the stretches of the ring that hold in every state of RingInv.

\* The indices the two sides hold are indices, with their distances numbers.
LEMMA OffTypes ==
  ASSUME TypeOK, NEW i \in Indices
  PROVE  Off(i) \in Nat /\ Off(i) < Modulus /\ SlotOf(i) \in Slots /\ wrapping_add(i) \in Indices
BY IndexTypes, SlotType, Zenon DEF TypeOK, Off

\* A fresh ring satisfies the invariant.
LEMMA InitInv == Init => RingInv
<1> SUFFICES ASSUME Init PROVE RingInv
  BY Zenon
<1>1. /\ 0 \in Indices /\ Capacity \in Nat \ {0} /\ 0 \in 0 .. SlotSize
  BY RingAssumption DEF Indices
<1>2. TypeOK
  BY <1>1 DEF Init, TypeOK, Nothing
<1>3. Off(0) = 0
  BY <1>1, IndexTypes, Zenon DEF Init, Off
<1>4. Window
  BY <1>1, <1>3 DEF Init, Window
<1>5. \A x \in Indices : ~(Off(x) < 0)
  BY <1>2, OffTypes
<1>6. IndexStores
  BY <1>3, <1>5 DEF Init, IndexStores, IsIndex
<1>7. FieldStores
  BY DEF Init, FieldStores, Begun
<1>8. SlotsHoldQueue
  BY <1>3, <1>5, Zenon DEF Init, SlotsHoldQueue
<1>9. QED
  BY <1>2, <1>4, <1>6, <1>7, <1>8, Zenon DEF RingInv

\* The steps that touch neither the header nor the stores on their way: the
\* checks of send, the marks on the endpoint, and the reads of recv.
LEMMA SendStartInv ==
  ASSUME RingInv, NEW m \in Payloads, SendStart(m)
  PROVE  RingInv'
<1>1. m \in Messages
  BY RingAssumption DEF SendStart, Payloads, Messages
<1>2. TypeOK'
  BY <1>1, Zenon DEF RingInv, TypeOK, SendStart, shared, c_vars
<1>3. Off(p_index) \in Nat /\ Off(p_index) < Capacity
  BY OffTypes, RingAssumption DEF RingInv, TypeOK, SendStart, IsFull, Off
<1>4. Window'
  BY <1>1, <1>3, Zenon DEF RingInv, Window, Off, SendStart, shared, c_vars
<1>5. IndexStores'
  BY Zenon DEF RingInv, IndexStores, IsIndex, Off, SendStart, shared
<1>6. FieldStores'
  BY DEF RingInv, FieldStores, Stored, IsField, IsIndex, Begun, Off, SendStart, shared
<1>7. SlotsHoldQueue'
  BY Zenon DEF RingInv, SlotsHoldQueue, Off, SendStart, shared, c_vars
<1>8. QED
  BY <1>2, <1>4, <1>5, <1>6, <1>7, Zenon DEF RingInv

\* What is on its way is told by the header and by send alone.
LEMMA SameStores ==
  ASSUME FieldStores, UNCHANGED <<producer, consumer, slots, writes, p_pc, p_index, p_msg>>
  PROVE  FieldStores'
<1>1. /\ \A at : Begun(at)' <=> Begun(at)
      /\ \A i : IsIndex(i)' <=> IsIndex(i)
      /\ \A x : Off(x)' = wrapping_sub(x, consumer)
      /\ \A j, at, x : IsField(j, at, x)' <=> IsField(j, at, x)
  BY Zenon DEF Begun, IsIndex, IsField, Off
<1>2. /\ \A x : Off(x)' = Off(x)
      /\ \A at, x, m : Stored(at, x, m)' <=> Stored(at, x, m)
  BY <1>1, Zenon DEF Off, Stored
<1> SUFFICES ASSUME NEW at \in {"len", "data"}
             PROVE  /\ \A j \in DOMAIN writes' : writes'[j].at = at =>
                         \E x \in Indices :
                            /\ IsField(j, at, x)' /\ Off(producer)' <= Off(x)'
                            /\ Off(x)' < Off(p_index)' \/ (x = p_index' /\ Begun(at)')
                    /\ \A x \in Indices, i \in DOMAIN writes' :
                         IsIndex(i)' /\ writes'[i].value = wrapping_add(x) =>
                           /\ Stored(at, x, writes[i].msg)'
                           /\ \A j \in DOMAIN writes' : IsField(j, at, x)' => j < i
                    /\ Begun(at)' => Stored(at, p_index, p_msg)'
  BY Zenon DEF FieldStores
<1>3. \A j \in DOMAIN writes' : writes'[j].at = at =>
        \E x \in Indices : /\ IsField(j, at, x)' /\ Off(producer)' <= Off(x)'
                           /\ Off(x)' < Off(p_index)' \/ (x = p_index' /\ Begun(at)')
  BY <1>1, <1>2 DEF FieldStores
<1>4. \A x \in Indices, i \in DOMAIN writes' :
        IsIndex(i)' /\ writes'[i].value = wrapping_add(x) =>
          /\ Stored(at, x, writes[i].msg)'
          /\ \A j \in DOMAIN writes' : IsField(j, at, x)' => j < i
  BY <1>1, <1>2, Zenon DEF FieldStores
<1>5. Begun(at)' => Stored(at, p_index, p_msg)'
  BY <1>1, <1>2, Zenon DEF FieldStores
<1>6. QED
  BY <1>3, <1>4, <1>5, Zenon

\* mark_revoked and mark_peer_down.
LEMMA MarkEndpointInv ==
  ASSUME RingInv, NEW flag \in {"revoked", "peer_down"}, MarkEndpoint(flag)
  PROVE  RingInv'
<1>1. TypeOK'
  BY Zenon DEF RingInv, TypeOK, MarkEndpoint, shared, c_vars, p_vars
<1>2. UNCHANGED <<producer, consumer, slots, writes, acks, p_pc, p_index, p_msg,
                  c_pc, c_index, c_len, c_data, delivered, queue>>
  BY Zenon DEF MarkEndpoint, shared, c_vars, p_vars
<1>3. Window' /\ IndexStores'
  BY <1>2, Zenon DEF RingInv, Window, IndexStores, IsIndex, Off
<1>4. FieldStores'
  BY <1>2, SameStores, Zenon DEF RingInv
<1>5. SlotsHoldQueue'
  BY <1>2, Zenon DEF RingInv, SlotsHoldQueue, Off
<1>6. QED
  BY <1>1, <1>3, <1>4, <1>5, Zenon DEF RingInv

\* The message recv is about to return is whole in the slot it looks at.
LEMMA OldestInSlot ==
  ASSUME RingInv, queue # <<>>
  PROVE  /\ slots[SlotOf(c_index)] = Head(queue)
         /\ c_index \in Indices /\ Off(c_index) \in Nat /\ Off(c_index) < Off(producer)
<1>1. queue \in Seq(Messages) /\ Len(queue) \in Nat /\ Len(queue) > 0
  BY DEF RingInv, TypeOK
<1>2. c_index \in Indices /\ Off(c_index) \in Nat /\ Off(c_index) < Off(producer)
  BY <1>1, OffTypes DEF RingInv, TypeOK, Window
<1>3. slots[SlotOf(c_index)] = queue[Off(c_index) - Off(c_index) + 1]
  BY <1>2 DEF RingInv, SlotsHoldQueue
<1>4. Off(c_index) - Off(c_index) + 1 = 1 /\ Head(queue) = queue[1]
  BY <1>1, <1>2
<1>5. QED
  BY <1>2, <1>3, <1>4, Zenon

\* recv up to the return: the Acquire load of the index, then the two reads.
LEMMA RecvReadsInv ==
  ASSUME RingInv, RecvStart \/ RecvLen \/ RecvData
  PROVE  RingInv'
<1>1. UNCHANGED <<producer, consumer, slots, writes, acks, endpoint, p_pc, p_index, p_msg,
                  c_index, delivered, queue>>
  BY Zenon DEF RecvStart, RecvLen, RecvData, shared, p_vars
<1>2. /\ c_pc' \in {"len", "data", "ack"} /\ SlotOf(c_index) \in Slots
      /\ c_len' \in 0 .. SlotSize /\ c_data' \in Data \cup {Zero}
  BY OffTypes DEF RingInv, TypeOK, RecvStart, RecvLen, RecvData
<1>3. TypeOK'
  BY <1>1, <1>2, Zenon DEF RingInv, TypeOK
<1>4. queue # <<>>
  BY OffInjective DEF RingInv, TypeOK, Window, Off, RecvStart, RecvLen, RecvData
<1>5. Window' /\ IndexStores'
  BY <1>1, <1>4, Zenon DEF RingInv, Window, IndexStores, IsIndex, Off
<1>6. FieldStores'
  BY <1>1, SameStores, Zenon DEF RingInv
<1>7. slots[SlotOf(c_index)] = Head(queue)
  BY <1>4, OldestInSlot, Zenon
<1>8. SlotsHoldQueue'
  BY <1>1, <1>7, Zenon DEF RingInv, SlotsHoldQueue, Off, RecvStart, RecvLen, RecvData
<1>9. QED
  BY <1>3, <1>5, <1>6, <1>8, Zenon DEF RingInv
-----------------------------------------------------------------------------
\* The steps of send that store.

\* No two indices of the window share a slot.
LEMMA SameSlot ==
  ASSUME TypeOK, NEW x \in Indices, NEW y \in Indices, SlotOf(x) = SlotOf(y),
         Off(x) < Capacity, Off(y) < Capacity
  PROVE  x = y
<1>1. consumer \in Indices /\ Off(x) \in Nat /\ Off(y) \in Nat /\ Capacity \in Nat
  BY OffTypes, RingAssumption, Zenon DEF TypeOK
<1>2. Off(x) - Off(y) < Capacity /\ Off(y) - Off(x) < Capacity
  BY <1>1
<1>3. QED
  BY <1>1, <1>2, SlotInjective, Zenon DEF Off

\* An unseen index store is that of a message sent and not visible.
LEMMA Unseen ==
  ASSUME RingInv, NEW x \in Indices, NEW i \in DOMAIN writes, IsIndex(i),
         writes[i].value = wrapping_add(x)
  PROVE  /\ Off(producer) <= Off(x) /\ Off(x) < Off(p_index) /\ Off(x) < Capacity
         /\ Off(writes[i].value) = Off(x) + 1
<1>1. /\ consumer \in Indices /\ producer \in Indices /\ p_index \in Indices
      /\ TypeOK /\ Capacity \in Nat
  BY RingAssumption, Zenon DEF RingInv, TypeOK
<1>2. /\ Off(producer) < Off(wrapping_add(x)) /\ Off(wrapping_add(x)) <= Off(p_index)
      /\ Off(p_index) <= Capacity
  BY Zenon DEF RingInv, IndexStores, Window
<1>3. /\ Off(producer) \in Nat /\ Off(p_index) \in Nat
      /\ Off(x) \in Nat /\ Off(wrapping_add(x)) \in Nat
  BY <1>1, OffTypes, Zenon
<1>4. Off(x) = Off(wrapping_add(x)) - 1
  BY <1>1, <1>2, <1>3, OffAddBack DEF Off
<1>5. QED
  BY <1>1, <1>2, <1>3, <1>4

\* The store of a field of the message being sent.
LEMMA StoreInv ==
  ASSUME RingInv, NEW at \in {"len", "data"}, p_pc = at,
         p_pc' = IF at = "len" THEN "data" ELSE "publish",
         writes' = Append(writes, [at |-> at, slot |-> SlotOf(p_index),
                                   value |-> Field(p_msg, at)]),
         UNCHANGED <<shared, acks, endpoint, p_index, p_msg, c_vars, delivered, queue>>
  PROVE  RingInv'
<1> DEFINE w == [at |-> at, slot |-> SlotOf(p_index), value |-> Field(p_msg, at)]
           L == Len(writes)
<1>1. /\ TypeOK /\ Window /\ IndexStores /\ FieldStores /\ SlotsHoldQueue
      /\ writes \in Seq(Store) /\ p_msg \in Messages /\ p_index \in Indices
      /\ Off(p_index) < Capacity /\ Off(producer) <= Off(p_index)
  BY Zenon DEF RingInv, TypeOK, Window
<1>2. w \in Store
  BY <1>1, SlotType, Zenon DEF Store, Messages, Field
<1>3. /\ L \in Nat /\ DOMAIN writes = 1 .. L /\ DOMAIN writes' = 1 .. L + 1
      /\ writes' \in Seq(Store)
      /\ \A i \in 1 .. L : writes'[i] = writes[i]
      /\ writes'[L + 1] = w
  <2>1. writes \in Seq(Store) /\ w \in Store /\ writes' = Append(writes, w)
    BY <1>1, <1>2, Zenon
  <2> HIDE DEF w
  <2>2. QED
    BY <2>1
<1>4. UNCHANGED <<producer, consumer, slots, acks, endpoint, p_index, p_msg, c_pc, c_index,
                  c_len, c_data, delivered, queue>>
  BY Zenon DEF shared, c_vars
<1>5. TypeOK'
  BY <1>1, <1>3, <1>4, Zenon DEF TypeOK
<1>6. Window'
  BY <1>1, <1>4, Zenon DEF Window, Off
<1>7. \A i \in DOMAIN writes' : IsIndex(i)' => i \in DOMAIN writes /\ IsIndex(i) /\ writes'[i] = writes[i]
  BY SMTT(30) DEF IsIndex
<1>8. IndexStores'
  <2>1. \A i \in DOMAIN writes : IsIndex(i) => i \in DOMAIN writes' /\ IsIndex(i)' /\ writes'[i] = writes[i]
    BY SMTT(30) DEF IsIndex
  <2>2. QED
    BY <1>1, <1>4, <1>7, <2>1, Zenon DEF IndexStores, Off
<1>9. \A x \in Indices, i \in DOMAIN writes :
        IsIndex(i) /\ writes[i].value = wrapping_add(x) => SlotOf(x) # SlotOf(p_index)
  <2> SUFFICES ASSUME NEW x \in Indices, NEW i \in DOMAIN writes, IsIndex(i),
                      writes[i].value = wrapping_add(x), SlotOf(x) = SlotOf(p_index)
               PROVE  FALSE
    BY Zenon
  <2>1. Off(x) < Off(p_index) /\ Off(x) < Capacity
    BY Unseen, Zenon
  <2>2. x = p_index
    BY <1>1, <2>1, SameSlot, Zenon
  <2>3. Off(x) \in Nat
    BY <1>1, OffTypes, Zenon
  <2>4. QED
    BY <2>1, <2>2, <2>3
<1>10. \A bt \in {"len", "data"}, x \in Indices, j \in DOMAIN writes' :
         IsField(j, bt, x)' /\ ~(bt = at /\ SlotOf(x) = SlotOf(p_index)) =>
           j \in DOMAIN writes /\ IsField(j, bt, x) /\ writes'[j] = writes[j]
  BY SMTT(30) DEF IsField
<1>11. \A bt \in {"len", "data"}, x \in Indices, j \in DOMAIN writes :
         j \in DOMAIN writes' /\ writes'[j] = writes[j] /\ (IsField(j, bt, x) => IsField(j, bt, x)')
  BY <1>3 DEF IsField
<1>12. \A bt \in {"len", "data"}, x \in Indices : \A m :
         Stored(bt, x, m) /\ ~(bt = at /\ SlotOf(x) = SlotOf(p_index)) => Stored(bt, x, m)'
  BY <1>4, <1>10, <1>11 DEF Stored
<1>13. Begun(at)' /\ ~Begun(at) /\ \A bt \in {"len", "data"} \ {at} : Begun(bt)' <=> Begun(bt)
  BY Zenon DEF Begun
<1>14. Stored(at, p_index, p_msg)'
  <2>1. \A j \in DOMAIN writes : ~IsField(j, at, p_index)
    <3> SUFFICES ASSUME NEW j \in DOMAIN writes, IsField(j, at, p_index) PROVE FALSE
      BY Zenon
    <3>1. PICK x \in Indices : /\ IsField(j, at, x) /\ Off(producer) <= Off(x)
                               /\ Off(x) < Off(p_index)
      BY <1>1, <1>13, Zenon DEF FieldStores, IsField
    <3>2. SlotOf(x) = SlotOf(p_index) /\ Off(x) \in Nat /\ Off(p_index) \in Nat
      BY <1>1, <3>1, OffTypes, Zenon DEF IsField
    <3>3. x = p_index
      BY <1>1, <3>1, <3>2, SameSlot, RingAssumption
    <3>4. QED
      BY <3>1, <3>2, <3>3
  <2>2. PICK n : n = L + 1 /\ n \in DOMAIN writes'
    BY <1>3
  <2>3. \A j \in DOMAIN writes' : IsField(j, at, p_index)' => j = n
    BY <2>1, <2>2 DEF IsField
  <2>4. IsField(n, at, p_index)' /\ writes'[n].value = Field(p_msg, at)'
    BY <2>2 DEF IsField
  <2>5. QED
    BY <2>2, <2>3, <2>4, Zenon DEF Stored
<1>15. FieldStores'
  <2> SUFFICES ASSUME NEW bt \in {"len", "data"}
               PROVE  /\ \A j \in DOMAIN writes' : writes'[j].at = bt =>
                           \E x \in Indices :
                              /\ IsField(j, bt, x)' /\ Off(producer)' <= Off(x)'
                              /\ Off(x)' < Off(p_index)' \/ (x = p_index' /\ Begun(bt)')
                      /\ \A x \in Indices, i \in DOMAIN writes' :
                           IsIndex(i)' /\ writes'[i].value = wrapping_add(x) =>
                             /\ Stored(bt, x, writes[i].msg)'
                             /\ \A j \in DOMAIN writes' : IsField(j, bt, x)' => j < i
                      /\ Begun(bt)' => Stored(bt, p_index, p_msg)'
    BY Zenon DEF FieldStores
  <2>1. ASSUME NEW j \in DOMAIN writes', writes'[j].at = bt
        PROVE  \E x \in Indices :
                 /\ IsField(j, bt, x)' /\ Off(producer)' <= Off(x)'
                 /\ Off(x)' < Off(p_index)' \/ (x = p_index' /\ Begun(bt)')
    <3>1. CASE j \in DOMAIN writes
      <4>1. PICK x \in Indices :
              /\ IsField(j, bt, x) /\ Off(producer) <= Off(x)
              /\ Off(x) < Off(p_index) \/ (x = p_index /\ Begun(bt))
        BY <1>1, <1>3, <2>1, <3>1, Zenon DEF FieldStores
      <4>2. IsField(j, bt, x)' /\ (Begun(bt) => Begun(bt)')
        BY <1>11, <1>13, <3>1, <4>1, Zenon
      <4>3. QED
        BY <1>4, <4>1, <4>2, Zenon DEF Off
    <3>2. CASE j = L + 1
      <4>1. bt = at /\ IsField(j, bt, p_index)' /\ Begun(bt)'
        BY <1>13, <2>1, <3>2, SMTT(30) DEF IsField
      <4>2. QED
        BY <1>1, <1>4, <4>1, Zenon DEF Off
    <3>3. QED
      BY <3>1, <3>2
  <2>2. ASSUME NEW x \in Indices, NEW i \in DOMAIN writes', IsIndex(i)',
               writes'[i].value = wrapping_add(x)
        PROVE  /\ Stored(bt, x, writes[i].msg)'
               /\ \A j \in DOMAIN writes' : IsField(j, bt, x)' => j < i
    <3>1. i \in DOMAIN writes /\ IsIndex(i) /\ writes'[i] = writes[i]
      BY <1>7, <2>2, Zenon
    <3>2. SlotOf(x) # SlotOf(p_index)
      BY <1>9, <2>2, <3>1, Zenon
    <3>3. Stored(bt, x, writes[i].msg) /\ \A j \in DOMAIN writes : IsField(j, bt, x) => j < i
      BY <1>1, <2>2, <3>1, Zenon DEF FieldStores
    <3>4. Stored(bt, x, writes[i].msg)'
      BY <1>4, <1>10, <1>11, <3>1, <3>2, <3>3 DEF Stored
    <3>5. QED
      BY <1>10, <3>2, <3>3, <3>4, Zenon
  <2>3. Begun(bt)' => Stored(bt, p_index, p_msg)'
    <3>1. CASE bt = at
      BY <1>14, <3>1, Zenon
    <3>2. CASE bt # at /\ Begun(bt)'
      <4>1. Stored(bt, p_index, p_msg)
        BY <1>1, <1>13, <3>2, Zenon DEF FieldStores
      <4>2. QED
        BY <1>4, <4>1, SMTT(30) DEF Stored, IsField
    <3>3. QED
      BY <3>1, <3>2, Zenon
  <2>4. QED
    BY <2>1, <2>2, <2>3, Zenon
<1>16. SlotsHoldQueue'
  BY <1>1, <1>4, Zenon DEF SlotsHoldQueue, Off
<1>17. QED
  BY <1>5, <1>6, <1>8, <1>15, <1>16, Zenon DEF RingInv

\* The store of the index.
LEMMA SendPublishInv ==
  ASSUME RingInv, SendPublish
  PROVE  RingInv'
<1> DEFINE w == [at |-> "producer", value |-> wrapping_add(p_index), msg |-> p_msg]
           L == Len(writes)
<1>1. /\ TypeOK /\ Window /\ IndexStores /\ FieldStores /\ SlotsHoldQueue
      /\ writes \in Seq(Store) /\ p_msg \in Messages /\ p_index \in Indices
      /\ consumer \in Indices /\ producer \in Indices
      /\ Off(p_index) < Capacity /\ Off(producer) <= Off(p_index)
  BY Zenon DEF RingInv, TypeOK, Window, SendPublish
<1>2. w \in Store /\ wrapping_add(p_index) \in Indices
  BY <1>1, IndexTypes, Zenon DEF Store
<1>3. /\ L \in Nat /\ DOMAIN writes = 1 .. L /\ DOMAIN writes' = 1 .. L + 1
      /\ writes' \in Seq(Store)
      /\ \A i \in 1 .. L : writes'[i] = writes[i]
      /\ writes'[L + 1] = w
  <2>1. writes \in Seq(Store) /\ w \in Store /\ writes' = Append(writes, w)
    BY <1>1, <1>2, Zenon DEF SendPublish
  <2> HIDE DEF w
  <2>2. QED
    BY <2>1
<1>4. UNCHANGED <<producer, consumer, slots, acks, endpoint, c_pc, c_index,
                  c_len, c_data, delivered, queue>>
  BY Zenon DEF SendPublish, shared, c_vars
<1>5. /\ p_index' \in Indices /\ p_index' = wrapping_add(p_index)
      /\ Off(p_index)' = Off(p_index) + 1 /\ Off(p_index) \in Nat
      /\ Off(producer)' = Off(producer) /\ Off(producer) \in Nat
      /\ \A x \in Indices : Off(x)' = Off(x) /\ Off(x) \in Nat
  <2>1. p_index' = wrapping_add(p_index)
    BY Zenon DEF SendPublish
  <2>2. Off(p_index) \in Nat /\ Off(p_index) < Modulus - 1 /\ Off(producer) \in Nat
    BY <1>1, OffTypes, RingAssumption
  <2>3. wrapping_sub(wrapping_add(p_index), consumer) = wrapping_sub(p_index, consumer) + 1
    BY <1>1, <2>2, OffAdd, Zenon DEF Off
  <2>4. QED
    BY <1>1, <1>2, <1>4, <2>1, <2>2, <2>3, OffTypes, Zenon DEF Off
<1>6. TypeOK'
  BY <1>1, <1>3, <1>4, <1>5, Zenon DEF TypeOK, SendPublish
<1>7. Window'
  <2>1. Off(p_index) + 1 <= Capacity /\ Off(producer) <= Off(p_index) + 1
    BY <1>1, <1>5, RingAssumption
  <2>2. p_pc' = "idle"
    BY Zenon DEF SendPublish
  <2>3. Off(c_index)' = Off(c_index) /\ \A i : Off(acks[i])' = Off(acks[i])
    BY <1>4, Zenon DEF Off
  <2>4. QED
    BY <1>1, <1>4, <1>5, <2>1, <2>2, <2>3, Zenon DEF Window
<1>8. PICK n : n = L + 1 /\ n \in DOMAIN writes' /\ n \notin DOMAIN writes
  BY <1>3
<1>9. /\ \A i \in DOMAIN writes' : i = n \/ (i \in DOMAIN writes /\ writes'[i] = writes[i])
      /\ \A i \in DOMAIN writes : i \in DOMAIN writes' /\ writes'[i] = writes[i] /\ i < n
      /\ writes'[n] = w /\ writes'[n].at = "producer" /\ writes'[n].msg = p_msg
      /\ writes'[n].value = wrapping_add(p_index)
  BY <1>3, <1>8
<1> HIDE DEF L, w
<1>10. \A i \in DOMAIN writes : IsIndex(i) => Off(writes[i].value)' = Off(writes[i].value)
  BY <1>4, <1>9, Zenon DEF Off
<1>11. IndexStores'
  <2>1. ASSUME NEW i \in DOMAIN writes', IsIndex(i)'
        PROVE  Off(producer)' < Off(writes[i].value)' /\ Off(writes[i].value)' <= Off(p_index)'
    <3>1. CASE i = n
      <4>1. Off(writes[i].value)' = Off(p_index)'
        BY <1>5, <1>9, <3>1, Zenon DEF Off
      <4>2. QED
        BY <1>1, <1>5, <4>1
    <3>2. CASE i \in DOMAIN writes /\ writes'[i] = writes[i]
      <4>1. IsIndex(i)
        BY <2>1, <3>2, Zenon DEF IsIndex
      <4>2. Off(producer) < Off(writes[i].value) /\ Off(writes[i].value) <= Off(p_index)
        BY <1>1, <3>2, <4>1, Zenon DEF IndexStores
      <4>3. writes[i].value \in Indices
        BY <1>1, <3>2, <4>1 DEF IsIndex, Store
      <4>4. QED
        BY <1>5, <3>2, <4>2, <4>3
    <3>3. QED
      BY <1>9, <3>1, <3>2, Zenon
  <2>2. ASSUME NEW i \in DOMAIN writes', NEW j \in DOMAIN writes', IsIndex(i)', IsIndex(j)', i < j
        PROVE  Off(writes[i].value)' < Off(writes[j].value)'
    <3>1. i \in DOMAIN writes /\ writes'[i] = writes[i] /\ IsIndex(i)
      BY <1>3, <2>2, SMTT(30) DEF IsIndex
    <3>2. Off(writes[i].value) <= Off(p_index) /\ writes[i].value \in Indices
      BY <1>1, <3>1 DEF IndexStores, IsIndex, Store
    <3>3. CASE j = n
      <4>1. Off(writes[j].value)' = Off(p_index) + 1
        BY <1>5, <1>9, <3>3, Zenon DEF Off
      <4>2. QED
        BY <1>5, <3>1, <3>2, <4>1
    <3>4. CASE j \in DOMAIN writes /\ writes'[j] = writes[j]
      <4>1. IsIndex(j)
        BY <2>2, <3>4, Zenon DEF IsIndex
      <4>2. QED
        BY <1>1, <1>10, <2>2, <3>1, <3>4, <4>1, Zenon DEF IndexStores
    <3>5. QED
      BY <1>9, <3>3, <3>4, Zenon
  <2>3. ASSUME NEW x \in Indices, Off(producer)' <= Off(x)', Off(x)' < Off(p_index)'
        PROVE  \E i \in DOMAIN writes' : IsIndex(i)' /\ writes'[i].value = wrapping_add(x)
    <3>1. CASE Off(x) < Off(p_index)
      <4>1. PICK i \in DOMAIN writes : IsIndex(i) /\ writes[i].value = wrapping_add(x)
        BY <1>1, <1>5, <2>3, <3>1, Zenon DEF IndexStores
      <4>2. i \in DOMAIN writes' /\ IsIndex(i)' /\ writes'[i].value = wrapping_add(x)
        BY <1>9, <4>1, Zenon DEF IsIndex
      <4>3. QED
        BY <4>2, Zenon
    <3>2. CASE Off(x) = Off(p_index)
      <4>1. x = p_index
        BY <1>1, <3>2, OffInjective, Zenon DEF Off
      <4>2. IsIndex(n)' /\ writes'[n].value = wrapping_add(x)
        BY <1>8, <1>9, <4>1, Zenon DEF IsIndex
      <4>3. QED
        BY <1>8, <4>2, Zenon
    <3>3. QED
      BY <1>5, <2>3, <3>1, <3>2
  <2>4. QED
    BY <2>1, <2>2, <2>3, Zenon DEF IndexStores
<1>12. \A bt \in {"len", "data"}, x \in Indices : \A j :
         /\ IsField(j, bt, x)' <=> IsField(j, bt, x)
         /\ IsField(j, bt, x) => j \in DOMAIN writes /\ j \in DOMAIN writes'
                                 /\ writes'[j] = writes[j] /\ j < n
  BY <1>9, Zenon DEF IsField
<1>13. \A bt \in {"len", "data"}, x \in Indices : \A m : Stored(bt, x, m) => Stored(bt, x, m)'
  BY <1>4, <1>12 DEF Stored
<1>14. \A bt \in {"len", "data"} : Begun(bt) /\ ~Begun(bt)'
  BY Zenon DEF Begun, SendPublish
<1>15. FieldStores'
  <2> SUFFICES ASSUME NEW bt \in {"len", "data"}
               PROVE  /\ \A j \in DOMAIN writes' : writes'[j].at = bt =>
                           \E x \in Indices :
                              /\ IsField(j, bt, x)' /\ Off(producer)' <= Off(x)'
                              /\ Off(x)' < Off(p_index)' \/ (x = p_index' /\ Begun(bt)')
                      /\ \A x \in Indices, i \in DOMAIN writes' :
                           IsIndex(i)' /\ writes'[i].value = wrapping_add(x) =>
                             /\ Stored(bt, x, writes[i].msg)'
                             /\ \A j \in DOMAIN writes' : IsField(j, bt, x)' => j < i
    BY <1>14, Zenon DEF FieldStores
  <2>1. ASSUME NEW j \in DOMAIN writes', writes'[j].at = bt
        PROVE  \E x \in Indices :
                 /\ IsField(j, bt, x)' /\ Off(producer)' <= Off(x)'
                 /\ Off(x)' < Off(p_index)' \/ (x = p_index' /\ Begun(bt)')
    <3>1. j \in DOMAIN writes /\ writes[j].at = bt
      BY <1>9, <2>1, Zenon
    <3>2. PICK x \in Indices : /\ IsField(j, bt, x) /\ Off(producer) <= Off(x)
                               /\ Off(x) < Off(p_index) \/ x = p_index
      BY <1>1, <3>1, Zenon DEF FieldStores
    <3>3. Off(x) < Off(p_index) + 1
      BY <1>5, <3>2
    <3>4. QED
      BY <1>5, <1>12, <3>2, <3>3, Zenon
  <2>2. ASSUME NEW x \in Indices, NEW i \in DOMAIN writes', IsIndex(i)',
               writes'[i].value = wrapping_add(x)
        PROVE  /\ Stored(bt, x, writes[i].msg)'
               /\ \A j \in DOMAIN writes' : IsField(j, bt, x)' => j < i
    <3>1. PICK m : m = writes'[i].msg
      BY Zenon
    <3>2. CASE i = n
      <4>1. x = p_index
        <5>1. Off(wrapping_add(x)) = Off(p_index) + 1
          BY <1>2, <1>5, <1>9, <2>2, <3>2, Zenon DEF Off
        <5>2. Off(x) = Off(wrapping_add(x)) - 1
          BY <1>1, <1>5, <5>1, OffAddBack DEF Off
        <5>3. Off(x) = Off(p_index)
          BY <1>5, <5>1, <5>2
        <5>4. QED
          BY <1>1, <5>3, OffInjective, Zenon DEF Off
      <4>2. Stored(bt, x, m)
        BY <1>1, <1>9, <1>14, <3>1, <3>2, <4>1, Zenon DEF FieldStores
      <4>3. Stored(bt, x, m)'
        BY <1>13, <4>2, Zenon
      <4>4. QED
        BY <1>12, <3>1, <3>2, <4>3, Zenon
    <3>3. CASE i \in DOMAIN writes /\ writes'[i] = writes[i]
      <4>1. Stored(bt, x, m) /\ \A j \in DOMAIN writes : IsField(j, bt, x) => j < i
        BY <1>1, <2>2, <3>1, <3>3, Zenon DEF FieldStores, IsIndex
      <4>2. Stored(bt, x, m)'
        BY <1>13, <4>1, Zenon
      <4>3. QED
        BY <1>12, <3>1, <4>1, <4>2, Zenon
    <3>4. QED
      BY <1>9, <3>2, <3>3, Zenon
  <2>3. QED
    BY <2>1, <2>2, Zenon
<1>16. SlotsHoldQueue'
  BY <1>1, <1>4, Zenon DEF SlotsHoldQueue, Off
<1>17. QED
  BY <1>6, <1>7, <1>11, <1>15, <1>16, Zenon DEF RingInv

-----------------------------------------------------------------------------
\* The steps in which a store becomes visible.

\* Where the j-th store left was before the i-th one was taken out.
Old(i, j) == IF j < i THEN j ELSE j + 1

\* Taking one element out of a sequence keeps the others in order.
LEMMA Removal ==
  ASSUME NEW S, NEW s \in Seq(S), NEW i \in 1 .. Len(s)
  PROVE  LET t == SubSeq(s, 1, i - 1) \o SubSeq(s, i + 1, Len(s))
         IN  /\ t \in Seq(S) /\ Len(t) = Len(s) - 1
             /\ \A j \in 1 .. Len(s) - 1 : t[j] = s[Old(i, j)]
<1> DEFINE a == SubSeq(s, 1, i - 1)
           b == SubSeq(s, i + 1, Len(s))
<1>1. Len(s) \in Nat /\ i \in Int /\ 1 <= i /\ i <= Len(s)
  OBVIOUS
<1>2. a \in Seq(S) /\ Len(a) = i - 1 /\ \A j \in 1 .. i - 1 : a[j] = s[j]
  BY <1>1
<1>3. b \in Seq(S) /\ Len(b) = Len(s) - i /\ \A j \in 1 .. Len(s) - i : b[j] = s[i + j]
  BY <1>1
<1> HIDE DEF a, b
<1>4. \A j \in 1 .. Len(s) - 1 : (a \o b)[j] = s[Old(i, j)]
  <2> SUFFICES ASSUME NEW j \in 1 .. Len(s) - 1
               PROVE  (a \o b)[j] = s[Old(i, j)]
    BY Zenon
  <2>1. j \in Int /\ 1 <= j /\ j <= Len(s) - 1
    BY <1>1
  <2>2. j \in 1 .. Len(a) + Len(b)
    BY <1>1, <1>2, <1>3, <2>1
  <2>3. (a \o b)[j] = IF j <= Len(a) THEN a[j] ELSE b[j - Len(a)]
    BY <1>2, <1>3, <2>2, Joined, Zenon
  <2>4. CASE j < i
    BY <1>1, <1>2, <2>1, <2>3, <2>4 DEF Old
  <2>5. CASE ~(j < i)
    <3>1. j - Len(a) \in 1 .. Len(s) - i /\ i + (j - Len(a)) = j + 1 /\ ~(j <= Len(a))
      BY <1>1, <1>2, <2>1, <2>5
    <3>2. b[j - Len(a)] = s[i + (j - Len(a))]
      BY <1>3, <3>1, Zenon
    <3>3. QED
      BY <2>3, <2>5, <3>1, <3>2, Zenon DEF Old
  <2>6. QED
    BY <2>4, <2>5, Zenon
<1>5. a \o b \in Seq(S) /\ Len(a \o b) = Len(a) + Len(b)
  BY <1>2, <1>3, Joined, Zenon
<1>6. Len(a \o b) = Len(s) - 1
  BY <1>1, <1>2, <1>3, <1>5
<1>7. QED
  BY <1>4, <1>5, <1>6, Zenon DEF a, b

\* What Drain leaves in the buffer, in terms of the positions before.
LEMMA DrainShift ==
  ASSUME TypeOK, NEW i \in 1 .. Len(writes), Drain(i)
  PROVE  /\ writes' \in Seq(Store) /\ i \in DOMAIN writes /\ writes[i] \in Store
         /\ \A j \in DOMAIN writes' : /\ Old(i, j) \in DOMAIN writes /\ Old(i, j) # i
                                      /\ writes'[j] = writes[Old(i, j)]
         /\ \A k \in DOMAIN writes \ {i} : \E j \in DOMAIN writes' : Old(i, j) = k
         /\ \A j, k \in DOMAIN writes' : j < k <=> Old(i, j) < Old(i, k)
<1>1. /\ writes \in Seq(Store) /\ DOMAIN writes = 1 .. Len(writes) /\ Len(writes) \in Nat
  BY DEF TypeOK
<1>2. writes' = SubSeq(writes, 1, i - 1) \o SubSeq(writes, i + 1, Len(writes))
  BY Zenon DEF Drain
<1>3. /\ writes' \in Seq(Store) /\ Len(writes') = Len(writes) - 1
      /\ \A j \in 1 .. Len(writes) - 1 : writes'[j] = writes[Old(i, j)]
  BY <1>1, <1>2, Removal, Zenon
<1>4. DOMAIN writes' = 1 .. Len(writes) - 1
  BY <1>3
<1>5. \A j \in DOMAIN writes' : /\ Old(i, j) \in DOMAIN writes /\ Old(i, j) # i
                                /\ writes'[j] = writes[Old(i, j)]
  BY <1>1, <1>3, <1>4 DEF Old
<1>6. ASSUME NEW k \in DOMAIN writes \ {i}
      PROVE  \E j \in DOMAIN writes' : Old(i, j) = k
  <2>1. CASE k < i
    BY <1>1, <1>4, <2>1 DEF Old
  <2>2. CASE ~(k < i)
    <3>1. k - 1 \in DOMAIN writes' /\ Old(i, k - 1) = k
      BY <1>1, <1>4, <2>2 DEF Old
    <3>2. QED
      BY <3>1, Zenon
  <2>3. QED
    BY <2>1, <2>2, Zenon
<1>7. \A j, k \in DOMAIN writes' : j < k <=> Old(i, j) < Old(i, k)
  BY <1>1, <1>4 DEF Old
<1>8. QED
  BY <1>1, <1>3, <1>5, <1>6, <1>7

\* A field store that becomes visible: the slot is not one of a visible
\* message, and the field gets the value its message has.
LEMMA DrainFieldInv ==
  ASSUME RingInv, NEW i \in 1 .. Len(writes), Drain(i), writes[i].at # "producer"
  PROVE  RingInv'
<1>1. /\ TypeOK /\ Window /\ IndexStores /\ FieldStores /\ SlotsHoldQueue
      /\ p_index \in Indices /\ producer \in Indices /\ consumer \in Indices
      /\ slots \in [Slots -> [len : 0 .. SlotSize, data : Data \cup {Zero}]]
  BY Zenon DEF RingInv, TypeOK
<1>2. /\ writes' \in Seq(Store) /\ i \in DOMAIN writes /\ writes[i] \in Store
      /\ \A j \in DOMAIN writes' : /\ Old(i, j) \in DOMAIN writes /\ Old(i, j) # i
                                   /\ writes'[j] = writes[Old(i, j)]
      /\ \A k \in DOMAIN writes \ {i} : \E j \in DOMAIN writes' : Old(i, j) = k
      /\ \A j, k \in DOMAIN writes' : j < k <=> Old(i, j) < Old(i, k)
  BY <1>1, DrainShift, Zenon
<1>3. PICK at \in {"len", "data"} : at = writes[i].at
  BY <1>2, Zenon DEF Store
<1>4. PICK s, v : s \in Slots /\ s = writes[i].slot /\ v = writes[i].value
  BY <1>2, <1>3, Zenon DEF Store
<1>5. /\ producer' = producer /\ queue' = queue
      /\ slots' \in [Slots -> [len : 0 .. SlotSize, data : Data \cup {Zero}]]
      /\ \A t \in Slots, bt \in {"len", "data"} :
           Field(slots'[t], bt) = IF t = s /\ bt = at THEN v ELSE Field(slots[t], bt)
      /\ \A t \in Slots : t # s => slots'[t] = slots[t]
  <2>1. CASE at = "len"
    <3>1. /\ slots' = [slots EXCEPT ![s].len = v] /\ UNCHANGED <<producer, queue>>
          /\ v \in 0 .. SlotSize
      BY <1>2, <1>3, <1>4, <2>1, Zenon DEF Drain, Store
    <3>2. QED
      BY <1>1, <2>1, <3>1, Zenon DEF Field
  <2>2. CASE at = "data"
    <3>1. /\ slots' = [slots EXCEPT ![s].data = v] /\ UNCHANGED <<producer, queue>>
          /\ v \in Data
      BY <1>2, <1>3, <1>4, <2>2, Zenon DEF Drain, Store
    <3>2. QED
      BY <1>1, <2>2, <3>1, Zenon DEF Field
  <2>3. QED
    BY <2>1, <2>2, Zenon
<1>6. UNCHANGED <<consumer, acks, endpoint, p_pc, p_index, p_msg, c_pc, c_index, c_len, c_data,
                  delivered>>
  BY Zenon DEF Drain, p_vars, c_vars
<1>7. TypeOK'
  BY <1>1, <1>2, <1>5, <1>6, Zenon DEF TypeOK
<1>8. Window'
  BY <1>1, <1>5, <1>6, Zenon DEF Window, Off
<1>9. /\ \A j \in DOMAIN writes' : IsIndex(j)' <=> IsIndex(Old(i, j))
      /\ ~IsIndex(i)
  BY <1>2, Zenon DEF IsIndex
<1>10. \A x : Off(x)' = wrapping_sub(x, consumer)
  BY <1>6, Zenon DEF Off
<1>11. IndexStores'
  <2>1. ASSUME NEW j \in DOMAIN writes', IsIndex(j)'
        PROVE  Off(producer)' < Off(writes[j].value)' /\ Off(writes[j].value)' <= Off(p_index)'
    <3>1. PICK k \in DOMAIN writes : k = Old(i, j) /\ IsIndex(k) /\ writes'[j] = writes[k]
      BY <1>2, <1>9, <2>1, Zenon
    <3>2. Off(producer) < Off(writes[k].value) /\ Off(writes[k].value) <= Off(p_index)
      BY <1>1, <3>1, Zenon DEF IndexStores
    <3>3. QED
      BY <1>5, <1>6, <3>1, <3>2, Zenon DEF Off
  <2>2. ASSUME NEW j \in DOMAIN writes', NEW l \in DOMAIN writes', IsIndex(j)', IsIndex(l)', j < l
        PROVE  Off(writes[j].value)' < Off(writes[l].value)'
    <3>1. PICK k \in DOMAIN writes : k = Old(i, j) /\ IsIndex(k) /\ writes'[j] = writes[k]
      BY <1>2, <1>9, <2>2, Zenon
    <3>2. PICK m \in DOMAIN writes : m = Old(i, l) /\ IsIndex(m) /\ writes'[l] = writes[m]
      BY <1>2, <1>9, <2>2, Zenon
    <3>3. k < m
      BY <1>2, <2>2, <3>1, <3>2, Zenon
    <3>4. Off(writes[k].value) < Off(writes[m].value)
      BY <1>1, <3>1, <3>2, <3>3, Zenon DEF IndexStores
    <3>5. QED
      BY <1>6, <3>1, <3>2, <3>4, Zenon DEF Off
  <2>3. ASSUME NEW x \in Indices, Off(producer)' <= Off(x)', Off(x)' < Off(p_index)'
        PROVE  \E j \in DOMAIN writes' : IsIndex(j)' /\ writes'[j].value = wrapping_add(x)
    <3>1. Off(producer) <= Off(x) /\ Off(x) < Off(p_index)
      BY <1>5, <1>6, <2>3, Zenon DEF Off
    <3>2. PICK k \in DOMAIN writes : IsIndex(k) /\ writes[k].value = wrapping_add(x)
      BY <1>1, <3>1, Zenon DEF IndexStores
    <3>3. PICK j \in DOMAIN writes' : Old(i, j) = k
      BY <1>2, <1>9, <3>2, Zenon
    <3>4. QED
      BY <1>2, <1>9, <3>2, <3>3, Zenon
  <2>4. QED
    BY <2>1, <2>2, <2>3, Zenon DEF IndexStores
<1>12. /\ \A bt \in {"len", "data"}, x \in Indices, j \in DOMAIN writes' :
            IsField(j, bt, x)' <=> IsField(Old(i, j), bt, x)
       /\ \A bt \in {"len", "data"}, x \in Indices :
            IsField(i, bt, x) <=> bt = at /\ SlotOf(x) = s
  BY <1>2, <1>3, <1>4, Zenon DEF IsField
<1>13. ASSUME NEW bt \in {"len", "data"}, NEW x \in Indices, NEW m, Stored(bt, x, m)
       PROVE  Stored(bt, x, m)'
  <2>1. ASSUME NEW j \in DOMAIN writes', IsField(j, bt, x)'
        PROVE  writes'[j].value = Field(m, bt)
    <3>1. PICK k \in DOMAIN writes : k = Old(i, j) /\ writes'[j] = writes[k]
      BY <1>2, Zenon
    <3>2. IsField(k, bt, x)
      BY <1>12, <2>1, <3>1, Zenon
    <3>3. writes[k].value = Field(m, bt)
      BY <1>13, <3>2, Zenon DEF Stored
    <3>4. QED
      BY <3>1, <3>3, Zenon
  <2>2. SlotOf(x) \in Slots
    BY SlotType, Zenon
  <2>3. CASE bt = at /\ SlotOf(x) = s
    <3>1. v = Field(m, bt)
      BY <1>2, <1>4, <1>12, <1>13, <2>3, Zenon DEF Stored
    <3>2. Field(slots'[SlotOf(x)], bt) = Field(m, bt)
      BY <1>5, <2>2, <2>3, <3>1, Zenon
    <3>3. QED
      BY <2>1, <3>2, Zenon DEF Stored, Field
  <2>4. CASE ~(bt = at /\ SlotOf(x) = s)
    <3>1. Field(slots'[SlotOf(x)], bt) = Field(slots[SlotOf(x)], bt)
      BY <1>5, <2>2, <2>4, Zenon
    <3>2. ASSUME NEW k \in DOMAIN writes, IsField(k, bt, x)
          PROVE  \E j \in DOMAIN writes' : IsField(j, bt, x)'
      <4>1. k # i
        BY <1>12, <2>4, <3>2, Zenon
      <4>2. PICK j \in DOMAIN writes' : Old(i, j) = k
        BY <1>2, <4>1, Zenon
      <4>3. QED
        BY <1>12, <3>2, <4>2, Zenon
    <3>3. QED
      BY <1>13, <2>1, <3>1, <3>2, Zenon DEF Stored, Field
  <2>5. QED
    BY <2>3, <2>4, Zenon
<1>14. \A bt : Begun(bt)' <=> Begun(bt)
  BY <1>6, Zenon DEF Begun
<1>15. FieldStores'
  <2> SUFFICES ASSUME NEW bt \in {"len", "data"}
               PROVE  /\ \A j \in DOMAIN writes' : writes'[j].at = bt =>
                           \E x \in Indices :
                              /\ IsField(j, bt, x)' /\ Off(producer)' <= Off(x)'
                              /\ Off(x)' < Off(p_index)' \/ (x = p_index' /\ Begun(bt)')
                      /\ \A x \in Indices, j \in DOMAIN writes' :
                           IsIndex(j)' /\ writes'[j].value = wrapping_add(x) =>
                             /\ Stored(bt, x, writes[j].msg)'
                             /\ \A k \in DOMAIN writes' : IsField(k, bt, x)' => k < j
                      /\ Begun(bt)' => Stored(bt, p_index, p_msg)'
    BY Zenon DEF FieldStores
  <2>1. ASSUME NEW j \in DOMAIN writes', writes'[j].at = bt
        PROVE  \E x \in Indices :
                 /\ IsField(j, bt, x)' /\ Off(producer)' <= Off(x)'
                 /\ Off(x)' < Off(p_index)' \/ (x = p_index' /\ Begun(bt)')
    <3>1. PICK k \in DOMAIN writes : k = Old(i, j) /\ writes[k].at = bt
      BY <1>2, <2>1, Zenon
    <3>2. PICK x \in Indices :
              /\ IsField(k, bt, x) /\ Off(producer) <= Off(x)
              /\ Off(x) < Off(p_index) \/ (x = p_index /\ Begun(bt))
      <4>1. FieldStores
        BY <1>1, Zenon
      <4>2. QED
        BY <3>1, <4>1, Zenon DEF FieldStores
    <3>3. IsField(j, bt, x)'
      BY <1>12, <3>1, <3>2, Zenon
    <3>4. QED
      BY <1>5, <1>6, <1>14, <3>2, <3>3, Zenon DEF Off
  <2>2. ASSUME NEW x \in Indices, NEW j \in DOMAIN writes', IsIndex(j)',
               writes'[j].value = wrapping_add(x)
        PROVE  /\ Stored(bt, x, writes[j].msg)'
               /\ \A k \in DOMAIN writes' : IsField(k, bt, x)' => k < j
    <3>1. PICK n \in DOMAIN writes : n = Old(i, j) /\ IsIndex(n) /\ writes'[j] = writes[n]
      BY <1>2, <1>9, <2>2, Zenon
    <3>2. PICK m : m = writes'[j].msg
      BY Zenon
    <3>3. Stored(bt, x, m) /\ \A k \in DOMAIN writes : IsField(k, bt, x) => k < n
      BY <1>1, <2>2, <3>1, <3>2, Zenon DEF FieldStores
    <3>4. Stored(bt, x, m)'
      BY <1>13, <3>3, Zenon
    <3>5. \A k \in DOMAIN writes' : IsField(k, bt, x)' => k < j
      BY <1>2, <1>12, <3>1, <3>3, Zenon
    <3>6. QED
      BY <3>2, <3>4, <3>5, Zenon
  <2>3. Begun(bt)' => Stored(bt, p_index, p_msg)'
    <3> SUFFICES ASSUME Begun(bt)' PROVE Stored(bt, p_index, p_msg)'
      BY Zenon
    <3>1. PICK x, m : x \in Indices /\ x = p_index /\ m = p_msg
      BY <1>1, Zenon
    <3>2. Stored(bt, x, m)
      BY <1>1, <1>14, <3>1, Zenon DEF FieldStores
    <3>3. Stored(bt, x, m)'
      BY <1>13, <3>1, <3>2, Zenon
    <3>4. x = p_index' /\ m = p_msg'
      BY <1>6, <3>1, Zenon
    <3>5. QED
      BY <3>3, <3>4, Zenon
  <2>4. QED
    BY <2>1, <2>2, <2>3, Zenon
<1>16. SlotsHoldQueue'
  <2>1. PICK y \in Indices : /\ IsField(i, at, y) /\ Off(producer) <= Off(y)
                             /\ Off(y) < Off(p_index) \/ (y = p_index /\ Begun(at))
    <3>1. FieldStores /\ i \in DOMAIN writes /\ writes[i].at = at
      BY <1>1, <1>2, <1>3, Zenon
    <3>2. QED
      BY <3>1, Zenon DEF FieldStores
  <2>2. /\ Off(producer) \in Nat /\ Off(p_index) \in Nat /\ Capacity \in Nat
        /\ \A x \in Indices : Off(x) \in Nat
    BY <1>1, OffTypes, RingAssumption, Zenon
  <2>3. Off(y) < Capacity /\ SlotOf(y) = s
    <3>1. Off(p_index) <= Capacity /\ (p_pc # "idle" => Off(p_index) < Capacity)
      BY <1>1, Zenon DEF Window
    <3>2. Begun(at) => p_pc # "idle"
      BY Zenon DEF Begun
    <3>3. SlotOf(y) = s
      BY <1>12, <2>1, Zenon
    <3>4. QED
      BY <2>1, <2>2, <3>1, <3>2, <3>3
  <2>4. ASSUME NEW x \in Indices, Off(c_index) <= Off(x), Off(x) < Off(producer)
        PROVE  slots'[SlotOf(x)] = queue[Off(x) - Off(c_index) + 1]
    <3>1. Off(x) < Capacity /\ Off(x) < Off(y)
      BY <2>1, <2>2, <2>3, <2>4
    <3>2. x # y
      BY <2>2, <3>1
    <3>3. SlotOf(x) # s
      BY <1>1, <2>3, <3>1, <3>2, SameSlot, Zenon
    <3>4. slots'[SlotOf(x)] = slots[SlotOf(x)]
      BY <1>5, <3>3, SlotType, Zenon
    <3>5. QED
      BY <1>1, <2>4, <3>4, Zenon DEF SlotsHoldQueue
  <2>5. QED
    BY <1>1, <1>5, <1>6, <2>4, Zenon DEF SlotsHoldQueue, Off
<1>17. QED
  BY <1>7, <1>8, <1>11, <1>15, <1>16, Zenon DEF RingInv

\* The oldest unseen index store becomes visible: it is that of the message
\* after the visible ones, whose fields are in its slot already.
LEMMA DrainIndexInv ==
  ASSUME RingInv, NEW i \in 1 .. Len(writes), Drain(i), writes[i].at = "producer"
  PROVE  /\ RingInv'
         /\ queue' = Append(queue, writes[i].msg) /\ writes[i].msg \in Messages
         /\ delivered' = delivered /\ Len(queue) < Capacity
<1>1. /\ TypeOK /\ Window /\ IndexStores /\ FieldStores /\ SlotsHoldQueue
      /\ p_index \in Indices /\ producer \in Indices /\ consumer \in Indices
      /\ c_index \in Indices /\ queue \in Seq(Messages) /\ acks \in Seq(Indices)
      /\ slots \in [Slots -> [len : 0 .. SlotSize, data : Data \cup {Zero}]]
  BY Zenon DEF RingInv, TypeOK
<1>2. /\ writes' \in Seq(Store) /\ i \in DOMAIN writes /\ writes[i] \in Store
      /\ \A j \in DOMAIN writes' : /\ Old(i, j) \in DOMAIN writes /\ Old(i, j) # i
                                   /\ writes'[j] = writes[Old(i, j)]
      /\ \A k \in DOMAIN writes \ {i} : \E j \in DOMAIN writes' : Old(i, j) = k
      /\ \A j, k \in DOMAIN writes' : j < k <=> Old(i, j) < Old(i, k)
  BY <1>1, DrainShift, Zenon
<1>3. /\ i = 1 /\ producer' = writes[i].value /\ queue' = Append(queue, writes[i].msg)
      /\ UNCHANGED <<slots, consumer, acks, endpoint, p_pc, p_index, p_msg, c_pc, c_index,
                     c_len, c_data, delivered>>
  BY Zenon DEF Drain, MayDrain, p_vars, c_vars
<1>4. PICK m \in Messages, v \in Indices : m = writes[i].msg /\ v = writes[i].value
  BY <1>2, Zenon DEF Store
<1>5. /\ Off(producer) \in Nat /\ Off(p_index) \in Nat /\ Off(c_index) \in Nat
      /\ Off(v) \in Nat /\ Capacity \in Nat /\ Len(queue) \in Nat /\ Len(acks) \in Nat
      /\ \A x \in Indices : Off(x) \in Nat /\ Off(x)' = Off(x)
  <2>1. \A x \in Indices : Off(x) \in Nat
    BY <1>1, OffTypes, Zenon
  <2>2. \A x : Off(x)' = wrapping_sub(x, consumer)
    BY <1>3, Zenon DEF Off
  <2>3. \A x \in Indices : Off(x)' = Off(x)
    BY <2>2, Zenon DEF Off
  <2>4. Capacity \in Nat /\ Len(queue) \in Nat /\ Len(acks) \in Nat
    BY <1>1, RingAssumption
  <2>5. QED
    BY <1>1, <1>4, <2>1, <2>3, <2>4, Zenon
<1>6. IsIndex(i)
  BY <1>2, Zenon DEF IsIndex
<1>7. \A j \in DOMAIN writes : j \in Nat /\ j >= i
  <2>1. writes \in Seq(Store) /\ i = 1
    BY <1>1, <1>3, Zenon DEF TypeOK
  <2>2. QED
    BY <2>1

\* It is the next index.
<1>8. Off(v) = Off(producer) + 1 /\ v = wrapping_add(producer) /\ Off(v) <= Off(p_index)
  <2>1. Off(producer) < Off(v) /\ Off(v) <= Off(p_index)
    <3>1. IndexStores /\ i \in DOMAIN writes /\ v = writes[i].value
      BY <1>1, <1>2, <1>4, Zenon
    <3>2. QED
      BY <1>6, <3>1, Zenon DEF IndexStores
  <2>2. PICK k \in DOMAIN writes : IsIndex(k) /\ writes[k].value = wrapping_add(producer)
    <3>1. IndexStores /\ producer \in Indices /\ Off(producer) <= Off(producer)
      BY <1>1, <1>5
    <3>2. Off(producer) < Off(p_index)
      BY <1>5, <2>1
    <3>3. QED
      BY <3>1, <3>2, Zenon DEF IndexStores
  <2>3. Off(writes[k].value) = Off(producer) + 1
    BY <1>1, <2>2, Unseen, Zenon
  <2>4. k = i
    <3> SUFFICES ASSUME k # i PROVE FALSE
      BY Zenon
    <3>1. i < k
      BY <1>2, <1>3, <1>7
    <3>2. Off(v) < Off(writes[k].value)
      BY <1>1, <1>2, <1>4, <1>6, <2>2, <3>1, Zenon DEF IndexStores
    <3>3. QED
      BY <1>5, <2>1, <2>3, <3>2
  <2>5. QED
    BY <1>4, <2>1, <2>2, <2>3, <2>4, Zenon
\* Its fields are in its slot, and no store to the slot is left.
<1>9. \A bt \in {"len", "data"} :
        /\ Field(slots[SlotOf(producer)], bt) = Field(m, bt)
        /\ \A j \in DOMAIN writes : ~IsField(j, bt, producer)
  <2> TAKE bt \in {"len", "data"}
  <2>1. /\ Stored(bt, producer, m)
        /\ \A j \in DOMAIN writes : IsField(j, bt, producer) => j < i
    BY <1>1, <1>2, <1>4, <1>6, <1>8, Zenon DEF FieldStores
  <2>2. \A j \in DOMAIN writes : ~IsField(j, bt, producer)
    BY <1>3, <1>7, <2>1
  <2>3. QED
    BY <2>1, <2>2, Zenon DEF Stored
<1>10. slots[SlotOf(producer)] = m
  <2>1. slots[SlotOf(producer)] \in [len : 0 .. SlotSize, data : Data \cup {Zero}]
    BY <1>1, SlotType, Zenon
  <2>2. slots[SlotOf(producer)].len = m.len /\ slots[SlotOf(producer)].data = m.data
    BY <1>9, Zenon DEF Field
  <2>3. QED
    BY <2>1, <2>2 DEF Messages
<1>11. /\ queue' \in Seq(Messages) /\ Len(queue') = Len(queue) + 1
       /\ \A k \in 1 .. Len(queue) : queue'[k] = queue[k]
       /\ queue'[Len(queue) + 1] = m
  BY <1>1, <1>3, <1>4
<1>12. /\ producer' = v /\ Off(producer)' = Off(v) /\ Off(p_index)' = Off(p_index)
       /\ Off(c_index)' = Off(c_index)
  BY <1>1, <1>3, <1>4, <1>5, Zenon DEF Off
<1>13. TypeOK'
  BY <1>1, <1>2, <1>3, <1>4, <1>11, Zenon DEF TypeOK
<1>14. Window'
  <2>1. Off(producer) = Len(acks) + Len(queue)
    BY <1>1, Zenon DEF Window
  <2>2. Off(v) = Len(acks) + Len(queue')
    BY <1>5, <1>8, <1>11, <2>1
  <2>3. queue' # <<>>
    BY <1>5, <1>11
  <2>4. \A j : Off(acks[j])' = Off(acks[j])
    BY <1>3, Zenon DEF Off
  <2>5. QED
    BY <1>1, <1>3, <1>8, <1>12, <2>2, <2>3, <2>4, Zenon DEF Window
<1>15. \A j \in DOMAIN writes' : IsIndex(j)' <=> IsIndex(Old(i, j))
  BY <1>2, Zenon DEF IsIndex
<1>16. IndexStores'
  <2>1. ASSUME NEW j \in DOMAIN writes', IsIndex(j)'
        PROVE  Off(producer)' < Off(writes[j].value)' /\ Off(writes[j].value)' <= Off(p_index)'
    <3>1. PICK k \in DOMAIN writes : /\ k = Old(i, j) /\ k # i /\ IsIndex(k)
                                      /\ writes'[j] = writes[k]
      BY <1>2, <1>15, <2>1, Zenon
    <3>2. i < k
      BY <1>7, <3>1, SMTT(30)
    <3>3. Off(v) < Off(writes[k].value) /\ Off(writes[k].value) <= Off(p_index)
      BY <1>1, <1>2, <1>4, <1>6, <3>1, <3>2, Zenon DEF IndexStores
    <3>4. Off(writes[j].value)' = Off(writes[k].value)
      BY <1>3, <3>1, Zenon DEF Off
    <3>5. QED
      BY <1>12, <3>3, <3>4, Zenon
  <2>2. ASSUME NEW j \in DOMAIN writes', NEW l \in DOMAIN writes', IsIndex(j)', IsIndex(l)', j < l
        PROVE  Off(writes[j].value)' < Off(writes[l].value)'
    <3>1. PICK k \in DOMAIN writes : k = Old(i, j) /\ IsIndex(k) /\ writes'[j] = writes[k]
      BY <1>2, <1>15, <2>2, Zenon
    <3>2. PICK n \in DOMAIN writes : n = Old(i, l) /\ IsIndex(n) /\ writes'[l] = writes[n]
      BY <1>2, <1>15, <2>2, Zenon
    <3>3. k < n
      BY <1>2, <2>2, <3>1, <3>2, Zenon
    <3>4. Off(writes[k].value) < Off(writes[n].value)
      BY <1>1, <3>1, <3>2, <3>3, Zenon DEF IndexStores
    <3>5. QED
      BY <1>3, <3>1, <3>2, <3>4, Zenon DEF Off
  <2>3. ASSUME NEW x \in Indices, Off(producer)' <= Off(x)', Off(x)' < Off(p_index)'
        PROVE  \E j \in DOMAIN writes' : IsIndex(j)' /\ writes'[j].value = wrapping_add(x)
    <3>1. Off(v) <= Off(x) /\ Off(x) < Off(p_index)
      BY <1>5, <1>12, <2>3, Zenon
    <3>2. PICK k \in DOMAIN writes : IsIndex(k) /\ writes[k].value = wrapping_add(x)
      <4>1. IndexStores /\ Off(producer) <= Off(x)
        BY <1>1, <1>5, <1>8, <3>1
      <4>2. QED
        BY <3>1, <4>1, Zenon DEF IndexStores
    <3>3. Off(writes[k].value) = Off(x) + 1
      BY <1>1, <3>2, Unseen, Zenon
    <3>4. k # i
      BY <1>4, <1>5, <3>1, <3>3
    <3>5. PICK j \in DOMAIN writes' : Old(i, j) = k
      BY <1>2, <3>4, Zenon
    <3>6. QED
      BY <1>2, <1>15, <3>2, <3>5, Zenon
  <2>4. QED
    BY <2>1, <2>2, <2>3, Zenon DEF IndexStores
<1>17. \A bt \in {"len", "data"}, x \in Indices, j \in DOMAIN writes' :
         IsField(j, bt, x)' <=> IsField(Old(i, j), bt, x)
  BY <1>2, Zenon DEF IsField
<1>18. ASSUME NEW bt \in {"len", "data"}, NEW x \in Indices, NEW n, Stored(bt, x, n)
       PROVE  Stored(bt, x, n)'
  <2>1. ASSUME NEW j \in DOMAIN writes', IsField(j, bt, x)'
        PROVE  writes'[j].value = Field(n, bt)
    <3>1. PICK k \in DOMAIN writes : k = Old(i, j) /\ writes'[j] = writes[k]
      BY <1>2, Zenon
    <3>2. IsField(k, bt, x)
      BY <1>17, <2>1, <3>1, Zenon
    <3>3. writes[k].value = Field(n, bt)
      BY <1>18, <3>2, Zenon DEF Stored
    <3>4. QED
      BY <3>1, <3>3, Zenon
  <2>2. ASSUME NEW k \in DOMAIN writes, IsField(k, bt, x)
        PROVE  \E j \in DOMAIN writes' : IsField(j, bt, x)'
    <3>1. k # i
      BY <1>6, <2>2, Zenon DEF IsField, IsIndex
    <3>2. PICK j \in DOMAIN writes' : Old(i, j) = k
      BY <1>2, <3>1, Zenon
    <3>3. QED
      BY <1>17, <2>2, <3>2, Zenon
  <2>3. QED
    BY <1>3, <1>18, <2>1, <2>2, Zenon DEF Stored, Field
<1>19. \A bt : Begun(bt)' <=> Begun(bt)
  BY <1>3, Zenon DEF Begun
<1>20. FieldStores'
  <2> SUFFICES ASSUME NEW bt \in {"len", "data"}
               PROVE  /\ \A j \in DOMAIN writes' : writes'[j].at = bt =>
                           \E x \in Indices :
                              /\ IsField(j, bt, x)' /\ Off(producer)' <= Off(x)'
                              /\ Off(x)' < Off(p_index)' \/ (x = p_index' /\ Begun(bt)')
                      /\ \A x \in Indices, j \in DOMAIN writes' :
                           IsIndex(j)' /\ writes'[j].value = wrapping_add(x) =>
                             /\ Stored(bt, x, writes[j].msg)'
                             /\ \A k \in DOMAIN writes' : IsField(k, bt, x)' => k < j
                      /\ Begun(bt)' => Stored(bt, p_index, p_msg)'
    BY Zenon DEF FieldStores
  <2>1. ASSUME NEW j \in DOMAIN writes', writes'[j].at = bt
        PROVE  \E x \in Indices :
                 /\ IsField(j, bt, x)' /\ Off(producer)' <= Off(x)'
                 /\ Off(x)' < Off(p_index)' \/ (x = p_index' /\ Begun(bt)')
    <3>1. PICK k \in DOMAIN writes : k = Old(i, j) /\ writes[k].at = bt
      BY <1>2, <2>1, Zenon
    <3>2. PICK x \in Indices :
              /\ IsField(k, bt, x) /\ Off(producer) <= Off(x)
              /\ Off(x) < Off(p_index) \/ (x = p_index /\ Begun(bt))
      <4>1. FieldStores
        BY <1>1, Zenon
      <4>2. QED
        BY <3>1, <4>1, Zenon DEF FieldStores
    <3>3. IsField(j, bt, x)'
      BY <1>17, <3>1, <3>2, Zenon
    <3>4. Off(x) # Off(producer)
      <4>1. x # producer
        BY <1>9, <3>2, Zenon
      <4>2. consumer \in Indices /\ producer \in Indices
        BY <1>1, Zenon
      <4>3. QED
        BY <4>1, <4>2, OffInjective, Zenon DEF Off
    <3>5. Off(v) <= Off(x)
      <4>1. Off(x) \in Nat /\ Off(producer) \in Nat /\ Off(v) = Off(producer) + 1
        BY <1>5, <1>8, Zenon
      <4>2. QED
        BY <3>2, <3>4, <4>1
    <3>6. QED
      BY <1>3, <1>5, <1>12, <1>19, <3>2, <3>3, <3>5, Zenon
  <2>2. ASSUME NEW x \in Indices, NEW j \in DOMAIN writes', IsIndex(j)',
               writes'[j].value = wrapping_add(x)
        PROVE  /\ Stored(bt, x, writes[j].msg)'
               /\ \A k \in DOMAIN writes' : IsField(k, bt, x)' => k < j
    <3>1. PICK n \in DOMAIN writes : n = Old(i, j) /\ IsIndex(n) /\ writes'[j] = writes[n]
      BY <1>2, <1>15, <2>2, Zenon
    <3>2. PICK msg : msg = writes'[j].msg
      BY Zenon
    <3>3. Stored(bt, x, msg) /\ \A k \in DOMAIN writes : IsField(k, bt, x) => k < n
      BY <1>1, <2>2, <3>1, <3>2, Zenon DEF FieldStores
    <3>4. Stored(bt, x, msg)'
      BY <1>18, <3>3, Zenon
    <3>5. \A k \in DOMAIN writes' : IsField(k, bt, x)' => k < j
      BY <1>2, <1>17, <3>1, <3>3, Zenon
    <3>6. QED
      BY <3>2, <3>4, <3>5, Zenon
  <2>3. Begun(bt)' => Stored(bt, p_index, p_msg)'
    <3> SUFFICES ASSUME Begun(bt)' PROVE Stored(bt, p_index, p_msg)'
      BY Zenon
    <3>1. PICK x, msg : x \in Indices /\ x = p_index /\ msg = p_msg
      BY <1>1, Zenon
    <3>2. Stored(bt, x, msg)
      BY <1>1, <1>19, <3>1, Zenon DEF FieldStores
    <3>3. Stored(bt, x, msg)'
      BY <1>18, <3>1, <3>2, Zenon
    <3>4. x = p_index' /\ msg = p_msg'
      BY <1>3, <3>1, Zenon
    <3>5. QED
      BY <3>3, <3>4, Zenon
  <2>4. QED
    BY <2>1, <2>2, <2>3, Zenon
<1>21. SlotsHoldQueue'
  <2>1. Off(c_index) = Len(acks) /\ Off(producer) = Len(acks) + Len(queue)
    BY <1>1, Zenon DEF Window
  <2>2. ASSUME NEW x \in Indices, Off(c_index) <= Off(x), Off(x) < Off(v)
        PROVE  slots[SlotOf(x)] = queue'[Off(x) - Off(c_index) + 1]
    <3>1. CASE Off(x) < Off(producer)
      <4>1. slots[SlotOf(x)] = queue[Off(x) - Off(c_index) + 1]
        BY <1>1, <2>2, <3>1, Zenon DEF SlotsHoldQueue
      <4>2. Off(x) - Off(c_index) + 1 \in 1 .. Len(queue)
        BY <1>5, <2>1, <2>2, <3>1
      <4>3. QED
        BY <1>11, <4>1, <4>2, Zenon
    <3>2. CASE Off(x) = Off(producer)
      <4>1. x = producer
        BY <1>1, <3>2, OffInjective, Zenon DEF Off
      <4>2. Off(x) - Off(c_index) + 1 = Len(queue) + 1
        BY <1>5, <2>1, <3>2
      <4>3. QED
        BY <1>10, <1>11, <4>1, <4>2, Zenon
    <3>3. QED
      BY <1>5, <1>8, <2>2, <3>1, <3>2, SMTT(30)
  <2>3. c_pc # "idle" => Head(queue') = Head(queue)
    <3> SUFFICES ASSUME c_pc # "idle" PROVE Head(queue') = Head(queue)
      BY Zenon
    <3>1. queue # <<>> /\ Len(queue) >= 1
      BY <1>1, <1>5 DEF Window
    <3>2. queue'[1] = queue[1]
      BY <1>5, <1>11, <3>1
    <3>3. QED
      BY <1>1, <1>11, <3>1, <3>2
  <2>4. QED
    BY <1>1, <1>3, <1>5, <1>12, <2>2, <2>3, Zenon DEF SlotsHoldQueue
<1>22. Len(queue) < Capacity
  BY <1>1, <1>5, <1>8 DEF Window
<1>23. QED
  BY <1>3, <1>4, <1>13, <1>14, <1>16, <1>20, <1>21, <1>22, Zenon DEF RingInv
-----------------------------------------------------------------------------
\* The steps that give a slot back.

\* recv returns the oldest visible message, whole.
LEMMA RecvAckInv ==
  ASSUME RingInv, RecvAck
  PROVE  /\ RingInv'
         /\ queue # <<>> /\ delivered' = Head(queue) /\ queue' = Tail(queue)
<1>1. /\ TypeOK /\ Window /\ IndexStores /\ FieldStores /\ SlotsHoldQueue
      /\ p_index \in Indices /\ producer \in Indices /\ consumer \in Indices
      /\ c_index \in Indices /\ queue \in Seq(Messages) /\ acks \in Seq(Indices)
      /\ wrapping_add(c_index) \in Indices
  BY IndexTypes, Zenon DEF RingInv, TypeOK
<1>2. /\ UNCHANGED <<producer, consumer, slots, writes, endpoint, p_pc, p_index, p_msg>>
      /\ c_pc = "ack" /\ c_pc' = "idle" /\ c_index' = wrapping_add(c_index)
      /\ acks' = Append(acks, wrapping_add(c_index)) /\ queue' = Tail(queue)
      /\ delivered' = [len |-> c_len, data |-> c_data] /\ c_len' = 0 /\ c_data' = Zero
  BY Zenon DEF RecvAck, shared, p_vars
<1>3. /\ queue # <<>> /\ Len(queue) \in Nat /\ Len(queue) >= 1 /\ Len(acks) \in Nat
      /\ Head(queue) \in Messages /\ queue' \in Seq(Messages) /\ Len(queue') = Len(queue) - 1
      /\ \A k \in 1 .. Len(queue) - 1 : queue'[k] = queue[k + 1]
  <2>1. queue # <<>> /\ Len(queue) \in Nat /\ Len(queue) >= 1 /\ Len(acks) \in Nat
    BY <1>1, <1>2 DEF Window
  <2>2. QED
    BY <1>1, <1>2, <2>1
<1>4. delivered' = Head(queue)
  <2>1. c_len = Head(queue).len /\ c_data = Head(queue).data
    BY <1>1, <1>2, Zenon DEF SlotsHoldQueue
  <2>2. QED
    BY <1>2, <1>3, <2>1, Zenon DEF Messages
<1>5. /\ Off(producer) \in Nat /\ Off(p_index) \in Nat /\ Off(c_index) \in Nat /\ Capacity \in Nat
      /\ \A x \in Indices : Off(x) \in Nat /\ Off(x)' = Off(x)
      /\ Off(producer)' = Off(producer) /\ Off(p_index)' = Off(p_index)
  BY <1>1, <1>2, OffTypes, RingAssumption, Zenon DEF Off
<1>6. /\ Off(c_index) = Len(acks) /\ Off(producer) = Len(acks) + Len(queue)
      /\ Off(producer) <= Off(p_index) /\ Off(p_index) <= Capacity
  BY <1>1, Zenon DEF Window
<1>7. Off(wrapping_add(c_index)) = Len(acks) + 1 /\ Off(c_index)' = Len(acks) + 1
  <2>1. Off(c_index) < Modulus - 1
    BY <1>3, <1>5, <1>6, RingAssumption
  <2>2. Off(wrapping_add(c_index)) = Off(c_index) + 1
    BY <1>1, <2>1, OffAdd, Zenon DEF Off
  <2>3. QED
    BY <1>2, <1>6, <2>2, Zenon DEF Off
<1>8. /\ acks' \in Seq(Indices) /\ Len(acks') = Len(acks) + 1
      /\ \A k \in 1 .. Len(acks) : acks'[k] = acks[k]
      /\ acks'[Len(acks) + 1] = wrapping_add(c_index)
  BY <1>1, <1>2, SMTT(30)
<1>9. TypeOK'
  <2>1. delivered' \in [len : 0 .. SlotSize, data : Data \cup {Zero}] /\ 0 \in 0 .. SlotSize
    <3>1. c_len \in 0 .. SlotSize /\ c_data \in Data \cup {Zero} /\ SlotSize \in Nat
      BY <1>1, RingAssumption, Zenon DEF TypeOK
    <3>2. QED
      BY <1>2, <3>1
  <2>2. QED
    BY <1>1, <1>2, <1>3, <1>8, <2>1, Zenon DEF TypeOK
<1>10. Window'
  <2>1. ASSUME NEW k \in DOMAIN acks'
        PROVE  Off(acks[k])' = k
    <3>1. Off(acks[k])' = Off(acks'[k])
      BY <1>2, Zenon DEF Off
    <3>2. CASE k \in 1 .. Len(acks)
      BY <1>1, <1>8, <3>1, <3>2 DEF Window
    <3>3. CASE k = Len(acks) + 1
      BY <1>7, <1>8, <3>1, <3>3, Zenon
    <3>4. QED
      BY <1>8, <3>2, <3>3
  <2>2. Off(producer) = (Len(acks) + 1) + (Len(queue) - 1)
    BY <1>3, <1>6, SMTT(30)
  <2>3. QED
    BY <1>1, <1>2, <1>3, <1>5, <1>6, <1>7, <1>8, <2>1, <2>2, Zenon DEF Window
<1>11. IndexStores'
  BY <1>1, <1>2, Zenon DEF IndexStores, IsIndex, Off
<1>12. FieldStores'
  BY <1>1, <1>2, SameStores, Zenon
<1>13. SlotsHoldQueue'
  <2>1. ASSUME NEW x \in Indices, Off(c_index)' <= Off(x)', Off(x)' < Off(producer)'
        PROVE  slots'[SlotOf(x)] = queue'[Off(x)' - Off(c_index)' + 1]
    <3>1. /\ Off(x) \in Nat /\ Off(x)' = Off(x)
          /\ Len(acks) + 1 <= Off(x) /\ Off(x) < Len(acks) + Len(queue)
      BY <1>5, <1>6, <1>7, <2>1, Zenon
    <3>2. slots[SlotOf(x)] = queue[Off(x) - Off(c_index) + 1]
      BY <1>1, <1>3, <1>5, <1>6, <3>1 DEF SlotsHoldQueue
    <3>3. PICK k \in 1 .. Len(queue) - 1 : k = Off(x) - Len(acks)
      BY <1>3, <3>1
    <3>4. k + 1 = Off(x) - Off(c_index) + 1 /\ k = Off(x)' - Off(c_index)' + 1
      BY <1>3, <1>6, <1>7, <3>1, <3>3
    <3>5. QED
      BY <1>2, <1>3, <3>2, <3>3, <3>4, Zenon
  <2>2. QED
    BY <1>2, <2>1, Zenon DEF SlotsHoldQueue
<1>14. QED
  BY <1>2, <1>3, <1>4, <1>9, <1>10, <1>11, <1>12, <1>13, Zenon DEF RingInv

\* The producer learns that a slot is free: every stretch moves one closer.
LEMMA DrainAckInv ==
  ASSUME RingInv, DrainAck
  PROVE  RingInv'
<1>1. /\ TypeOK /\ Window /\ IndexStores /\ FieldStores /\ SlotsHoldQueue
      /\ p_index \in Indices /\ producer \in Indices /\ consumer \in Indices
      /\ c_index \in Indices /\ queue \in Seq(Messages) /\ acks \in Seq(Indices)
      /\ writes \in Seq(Store)
  BY Zenon DEF RingInv, TypeOK
<1>2. /\ UNCHANGED <<producer, slots, writes, endpoint, p_pc, p_index, p_msg, c_pc, c_index,
                     c_len, c_data, delivered, queue>>
      /\ acks # <<>> /\ consumer' = Head(acks) /\ acks' = Tail(acks)
  BY Zenon DEF DrainAck, p_vars, c_vars
<1>3. /\ Len(acks) \in Nat /\ Len(acks) >= 1 /\ Len(queue) \in Nat
      /\ Head(acks) = acks[1] /\ acks[1] \in Indices
      /\ acks' \in Seq(Indices) /\ Len(acks') = Len(acks) - 1
      /\ \A k \in 1 .. Len(acks) - 1 : acks'[k] = acks[k + 1] /\ acks[k + 1] \in Indices
  <2>1. Len(acks) \in Nat /\ Len(acks) >= 1 /\ Len(queue) \in Nat
    BY <1>1, <1>2
  <2>2. Head(acks) = acks[1] /\ \A k \in 1 .. Len(acks) : acks[k] \in Indices
    BY <1>1, <2>1
  <2>3. /\ Tail(acks) \in Seq(Indices) /\ Len(Tail(acks)) = Len(acks) - 1
        /\ \A k \in 1 .. Len(Tail(acks)) : Tail(acks)[k] = acks[k + 1]
    BY <1>1, <1>2
  <2>4. QED
    BY <1>2, <2>1, <2>2, <2>3
<1>4. consumer' = wrapping_add(consumer) /\ consumer' \in Indices
  <2>1. Off(acks[1]) = 1
    BY <1>1, <1>3, SMTT(30) DEF Window
  <2>2. Off(consumer) = 0 /\ wrapping_add(consumer) \in Indices
    BY <1>1, IndexTypes, Zenon DEF Off
  <2>3. Off(wrapping_add(consumer)) = 1
    BY <1>1, <2>2, OffAdd, RingAssumption DEF Off
  <2>4. QED
    BY <1>1, <1>2, <1>3, <2>1, <2>2, <2>3, OffInjective DEF Off
<1>5. /\ Capacity \in Nat /\ Modulus \in Nat /\ Capacity <= Modulus - 1
      /\ Off(producer) \in Nat /\ Off(p_index) \in Nat /\ Off(c_index) \in Nat
      /\ \A x \in Indices : Off(x) \in Nat /\ (Off(x) >= 1 => Off(x)' = Off(x) - 1)
                            /\ (Off(x) = 0 => Off(x)' = Modulus - 1)
  BY <1>1, <1>4, OffTypes, OffShift, RingAssumption DEF Off
<1>6. /\ Off(c_index) = Len(acks) /\ Off(producer) = Len(acks) + Len(queue)
      /\ Off(producer) <= Off(p_index) /\ Off(p_index) <= Capacity
      /\ Off(producer) >= 1 /\ Off(p_index) >= 1 /\ Off(c_index) >= 1
  BY <1>1, <1>3, <1>5 DEF Window
<1>7. /\ Off(c_index)' = Off(c_index) - 1 /\ Off(producer)' = Off(producer) - 1
      /\ Off(p_index)' = Off(p_index) - 1
  <2>1. \A x \in Indices : Off(x) >= 1 => wrapping_sub(x, consumer') = Off(x) - 1
    BY <1>5, Zenon DEF Off
  <2>2. c_index' = c_index /\ producer' = producer /\ p_index' = p_index
    BY <1>2, Zenon
  <2>3. QED
    BY <1>1, <1>6, <2>1, <2>2, Zenon DEF Off
<1>8. TypeOK'
  BY <1>1, <1>2, <1>3, <1>4, SMTT(30) DEF TypeOK
<1>9. Window'
  <2>1. ASSUME NEW k \in DOMAIN acks'
        PROVE  Off(acks[k])' = k
    <3>1. k \in 1 .. Len(acks) - 1 /\ k + 1 \in DOMAIN acks
      BY <1>1, <1>3
    <3>2. PICK a \in Indices : a = acks[k + 1] /\ a = acks'[k]
      BY <1>3, <3>1, Zenon
    <3>3. Off(a) = k + 1
      BY <1>1, <3>1, <3>2, Zenon DEF Window
    <3>4. Off(a)' = k
      BY <1>5, <3>1, <3>3
    <3>5. QED
      BY <3>2, <3>4, Zenon
  <2>2. /\ Off(producer) - 1 = (Len(acks) - 1) + Len(queue)
        /\ Off(producer) - 1 <= Off(p_index) - 1 /\ Off(p_index) - 1 <= Capacity
        /\ Off(p_index) < Capacity => Off(p_index) - 1 < Capacity
    BY <1>3, <1>5, <1>6, SMTT(30)
  <2>3. QED
    BY <1>1, <1>2, <1>3, <1>6, <1>7, <2>1, <2>2, Zenon DEF Window
<1>10. ASSUME NEW j \in DOMAIN writes, IsIndex(j)
       PROVE  /\ Off(writes[j].value) \in Nat /\ Off(writes[j].value) > Off(producer)
              /\ Off(writes[j].value) <= Off(p_index)
              /\ Off(writes[j].value)' = Off(writes[j].value) - 1
  <2>1. PICK v \in Indices : v = writes[j].value
    BY <1>1, <1>10 DEF IsIndex, Store
  <2>2. Off(v) > Off(producer) /\ Off(v) <= Off(p_index)
    BY <1>1, <1>5, <1>10, <2>1, Zenon DEF IndexStores
  <2>3. Off(v)' = Off(v) - 1 /\ Off(v) \in Nat
    BY <1>5, <1>6, <2>2
  <2>4. v = writes'[j].value
    BY <1>2, <2>1, Zenon
  <2>5. QED
    BY <2>1, <2>2, <2>3, <2>4, Zenon
<1>11. \A x \in Indices : Off(x)' < Off(p_index)' => Off(x) >= 1 /\ Off(x)' = Off(x) - 1
  BY <1>5, <1>6, <1>7
<1>12. IndexStores'
  <2>1. ASSUME NEW j \in DOMAIN writes', IsIndex(j)'
        PROVE  Off(producer)' < Off(writes[j].value)' /\ Off(writes[j].value)' <= Off(p_index)'
    BY <1>2, <1>5, <1>7, <1>10, <2>1, SMTT(30) DEF IsIndex
  <2>2. ASSUME NEW j \in DOMAIN writes', NEW l \in DOMAIN writes', IsIndex(j)', IsIndex(l)', j < l
        PROVE  Off(writes[j].value)' < Off(writes[l].value)'
    <3>1. j \in DOMAIN writes /\ l \in DOMAIN writes /\ IsIndex(j) /\ IsIndex(l)
      BY <1>2, <2>2, Zenon DEF IsIndex
    <3>2. Off(writes[j].value) < Off(writes[l].value)
      BY <1>1, <2>2, <3>1, Zenon DEF IndexStores
    <3>3. QED
      BY <1>10, <3>1, <3>2
  <2>3. ASSUME NEW x \in Indices, Off(producer)' <= Off(x)', Off(x)' < Off(p_index)'
        PROVE  \E j \in DOMAIN writes' : IsIndex(j)' /\ writes'[j].value = wrapping_add(x)
    <3>1. Off(producer) <= Off(x) /\ Off(x) < Off(p_index)
      BY <1>5, <1>7, <1>11, <2>3, SMTT(30)
    <3>2. QED
      BY <1>1, <1>2, <3>1, Zenon DEF IndexStores, IsIndex
  <2>4. QED
    BY <2>1, <2>2, <2>3, Zenon DEF IndexStores
<1>13. FieldStores'
  <2>1. \A bt \in {"len", "data"} : \A j \in DOMAIN writes' : writes'[j].at = bt =>
          \E x \in Indices : /\ IsField(j, bt, x)' /\ Off(producer)' <= Off(x)'
                             /\ Off(x)' < Off(p_index)' \/ (x = p_index' /\ Begun(bt)')
    <3> SUFFICES ASSUME NEW bt \in {"len", "data"}, NEW j \in DOMAIN writes, writes[j].at = bt
                 PROVE  \E x \in Indices :
                          /\ IsField(j, bt, x)' /\ Off(producer)' <= Off(x)'
                          /\ Off(x)' < Off(p_index)' \/ (x = p_index' /\ Begun(bt)')
      BY <1>2, Zenon
    <3>1. PICK x \in Indices :
              /\ IsField(j, bt, x) /\ Off(producer) <= Off(x)
              /\ Off(x) < Off(p_index) \/ (x = p_index /\ Begun(bt))
      BY <1>1, Zenon DEF FieldStores
    <3>2. Off(x) \in Nat /\ Off(x)' = Off(x) - 1
      BY <1>5, <1>6, <3>1
    <3>3. IsField(j, bt, x)' /\ (Begun(bt) => Begun(bt)')
      BY <1>2, <3>1, Zenon DEF IsField, Begun
    <3>4. Off(producer)' <= Off(x)' /\ (Off(x) < Off(p_index) => Off(x)' < Off(p_index)')
      BY <1>5, <1>7, <3>1, <3>2
    <3>5. QED
      BY <1>2, <3>1, <3>3, <3>4, Zenon
  <2>2. /\ \A bt : Begun(bt)' <=> Begun(bt)
        /\ \A j : IsIndex(j)' <=> IsIndex(j)
        /\ \A j, bt, x : IsField(j, bt, x)' <=> IsField(j, bt, x)
    BY <1>2, Zenon DEF Begun, IsIndex, IsField
  <2>3. \A bt, x, m : Stored(bt, x, m)' <=> Stored(bt, x, m)
    BY <1>2, <2>2, Zenon DEF Stored
  <2>4. \A bt \in {"len", "data"} : \A x \in Indices, i \in DOMAIN writes' :
          IsIndex(i)' /\ writes'[i].value = wrapping_add(x) =>
            /\ Stored(bt, x, writes[i].msg)'
            /\ \A j \in DOMAIN writes' : IsField(j, bt, x)' => j < i
    <3>1. FieldStores
      BY <1>1, Zenon
    <3>2. QED
      BY <1>2, <2>2, <2>3, <3>1, Zenon DEF FieldStores
  <2>5. \A bt \in {"len", "data"} : Begun(bt)' => Stored(bt, p_index, p_msg)'
    <3>1. FieldStores
      BY <1>1, Zenon
    <3>2. QED
      BY <1>2, <2>2, <2>3, <3>1, Zenon DEF FieldStores
  <2>6. QED
    BY <2>1, <2>4, <2>5, Zenon DEF FieldStores
<1>14. SlotsHoldQueue'
  <2>1. ASSUME NEW x \in Indices, Off(c_index)' <= Off(x)', Off(x)' < Off(producer)'
        PROVE  slots'[SlotOf(x)] = queue'[Off(x)' - Off(c_index)' + 1]
    <3>1. Off(x)' = Off(x) - 1 /\ Off(x) \in Nat /\ Off(x) >= 1
      BY <1>5, <1>6, <1>7, <2>1
    <3>2. Off(c_index) <= Off(x) /\ Off(x) < Off(producer)
      BY <1>5, <1>7, <2>1, <3>1
    <3>3. Off(x)' - Off(c_index)' + 1 = Off(x) - Off(c_index) + 1
      BY <1>5, <1>7, <3>1
    <3>4. QED
      BY <1>1, <1>2, <3>2, <3>3, Zenon DEF SlotsHoldQueue
  <2>2. QED
    BY <1>1, <1>2, <2>1, Zenon DEF SlotsHoldQueue
<1>15. QED
  BY <1>8, <1>9, <1>12, <1>13, <1>14, Zenon DEF RingInv
-----------------------------------------------------------------------------
\* Every step keeps the invariant and is, for the two ends, a step of the
\* bounded FIFO or none: publication is the Release store becoming visible,
\* delivery the return of recv.
LEMMA StepInv ==
  ASSUME RingInv, [Next]_vars
  PROVE  RingInv' /\ [Fifo!Next]_(Fifo!vars)
<1>1. CASE Send
  <2>1. CASE \E m \in Payloads : SendStart(m)
    <3>1. queue' = queue /\ delivered' = delivered
      BY <2>1, Zenon DEF SendStart
    <3>2. QED
      BY <2>1, <3>1, SendStartInv, Zenon DEF Fifo!vars
  <2>2. CASE SendLen
    <3>1. p_pc = "len" /\ p_pc' = IF "len" = "len" THEN "data" ELSE "publish"
      BY <2>2, Zenon DEF SendLen
    <3>2. writes' = Append(writes, [at |-> "len", slot |-> SlotOf(p_index),
                                    value |-> Field(p_msg, "len")])
      BY <2>2, Zenon DEF SendLen, Field
    <3>3. UNCHANGED <<shared, acks, endpoint, p_index, p_msg, c_vars, delivered, queue>>
      BY <2>2, Zenon DEF SendLen
    <3>4. RingInv'
      BY <3>1, <3>2, <3>3, StoreInv, Zenon
    <3>5. QED
      BY <3>3, <3>4, Zenon DEF Fifo!vars
  <2>3. CASE SendData
    <3>1. p_pc = "data" /\ p_pc' = IF "data" = "len" THEN "data" ELSE "publish"
      BY <2>3, Zenon DEF SendData
    <3>2. writes' = Append(writes, [at |-> "data", slot |-> SlotOf(p_index),
                                    value |-> Field(p_msg, "data")])
      BY <2>3, Zenon DEF SendData, Field
    <3>3. UNCHANGED <<shared, acks, endpoint, p_index, p_msg, c_vars, delivered, queue>>
      BY <2>3, Zenon DEF SendData
    <3>4. RingInv'
      BY <3>1, <3>2, <3>3, StoreInv, Zenon
    <3>5. QED
      BY <3>3, <3>4, Zenon DEF Fifo!vars
  <2>4. CASE SendPublish
    <3>1. queue' = queue /\ delivered' = delivered
      BY <2>4, Zenon DEF SendPublish
    <3>2. QED
      BY <2>4, <3>1, SendPublishInv, Zenon DEF Fifo!vars
  <2>5. QED
    BY <1>1, <2>1, <2>2, <2>3, <2>4, Zenon DEF Send
<1>2. CASE RecvStart \/ RecvLen \/ RecvData
  <2>1. queue' = queue /\ delivered' = delivered
    BY <1>2, Zenon DEF RecvStart, RecvLen, RecvData
  <2>2. QED
    BY <1>2, <2>1, RecvReadsInv, Zenon DEF Fifo!vars
<1>3. CASE RecvAck
  <2>1. RingInv' /\ queue # <<>> /\ delivered' = Head(queue) /\ queue' = Tail(queue)
    BY <1>3, RecvAckInv, Zenon
  <2>2. QED
    BY <2>1, Zenon DEF Fifo!Next, Fifo!Recv
<1>4. ASSUME NEW i \in 1 .. Len(writes), Drain(i)
      PROVE  RingInv' /\ [Fifo!Next]_(Fifo!vars)
  <2>1. CASE writes[i].at = "producer"
    <3>1. /\ RingInv' /\ queue' = Append(queue, writes[i].msg) /\ writes[i].msg \in Messages
          /\ delivered' = delivered /\ Len(queue) < Capacity
      BY <1>4, <2>1, DrainIndexInv, Zenon
    <3>2. QED
      BY <3>1, Zenon DEF Fifo!Next, Fifo!Send
  <2>2. CASE writes[i].at # "producer"
    <3>1. writes[i].at \in {"len", "data"}
      BY <1>4, <2>2 DEF RingInv, TypeOK, Store
    <3>2. queue' = queue /\ delivered' = delivered
      BY <1>4, <3>1, Zenon DEF Drain
    <3>3. QED
      BY <1>4, <2>2, <3>2, DrainFieldInv, Zenon DEF Fifo!vars
  <2>3. QED
    BY <2>1, <2>2, Zenon
<1>5. CASE DrainAck
  <2>1. queue' = queue /\ delivered' = delivered
    BY <1>5, Zenon DEF DrainAck
  <2>2. QED
    BY <1>5, <2>1, DrainAckInv, Zenon DEF Fifo!vars
<1>6. ASSUME NEW flag \in {"revoked", "peer_down"}, MarkEndpoint(flag)
      PROVE  RingInv' /\ [Fifo!Next]_(Fifo!vars)
  <2>1. queue' = queue /\ delivered' = delivered
    BY <1>6, Zenon DEF MarkEndpoint
  <2>2. QED
    BY <1>6, <2>1, MarkEndpointInv, Zenon DEF Fifo!vars
<1>7. CASE UNCHANGED vars
  <2>1. UNCHANGED <<producer, consumer, slots, writes, acks, endpoint, p_pc, p_index, p_msg,
                    c_pc, c_index, c_len, c_data, delivered, queue>>
    BY <1>7, Zenon DEF vars, shared, p_vars, c_vars
  <2>2. TypeOK' /\ Window' /\ IndexStores'
    BY <2>1, Zenon DEF RingInv, TypeOK, Window, IndexStores, IsIndex, Off
  <2>3. FieldStores'
    BY <2>1, SameStores, Zenon DEF RingInv
  <2>4. SlotsHoldQueue'
    BY <2>1, Zenon DEF RingInv, SlotsHoldQueue, Off
  <2>5. QED
    BY <2>1, <2>2, <2>3, <2>4, Zenon DEF RingInv, Fifo!vars
<1>8. QED
  BY <1>1, <1>2, <1>3, <1>4, <1>5, <1>6, <1>7, Zenon DEF Next, Recv, Visible

\* The invariant of send and recv on the mmap'ed ring holds for every
\* capacity that divides the range of the indices, every slot size and every
\* payload, with stores delayed and reordered as MayDrain allows.
THEOREM RingInvariant == Spec => []RingInv
<1>1. RingInv /\ [Next]_vars => RingInv'
  BY StepInv, Zenon
<1>2. QED
  BY InitInv, <1>1, PTL DEF Spec

\* send never stores to the slot recv is reading, and recv finds there the
\* message it is to return, whole.
THEOREM NothingOverwritten == Spec => []NoOverwrite
<1>1. ASSUME RingInv
      PROVE  NoOverwrite
  <2> SUFFICES ASSUME c_pc # "idle"
               PROVE  /\ \A i \in 1 .. Len(writes) :
                           writes[i].at # "producer" => writes[i].slot # SlotOf(c_index)
                      /\ slots[SlotOf(c_index)] = Head(queue)
    BY Zenon DEF NoOverwrite
  <2>1. queue # <<>> /\ TypeOK /\ FieldStores /\ writes \in Seq(Store)
    BY <1>1, Zenon DEF RingInv, TypeOK, Window
  <2>2. /\ slots[SlotOf(c_index)] = Head(queue)
        /\ c_index \in Indices /\ Off(c_index) \in Nat /\ Off(c_index) < Off(producer)
    BY <1>1, <2>1, OldestInSlot, Zenon
  <2>3. /\ Off(producer) \in Nat /\ Off(p_index) \in Nat /\ Capacity \in Nat
        /\ Off(producer) <= Off(p_index) /\ Off(p_index) <= Capacity
        /\ p_pc # "idle" => Off(p_index) < Capacity
    BY <1>1, OffTypes, RingAssumption, Zenon DEF RingInv, TypeOK, Window
  <2>4. ASSUME NEW i \in 1 .. Len(writes), writes[i].at # "producer",
               writes[i].slot = SlotOf(c_index)
        PROVE  FALSE
    <3>1. i \in DOMAIN writes /\ writes[i].at \in {"len", "data"}
      <4>1. i \in DOMAIN writes /\ writes[i] \in Store
        BY <2>1, SMTT(30)
      <4>2. QED
        BY <2>4, <4>1, Zenon DEF Store
    <3>2. PICK x \in Indices :
            /\ IsField(i, writes[i].at, x) /\ Off(producer) <= Off(x)
            /\ Off(x) < Off(p_index) \/ (x = p_index /\ Begun(writes[i].at))
      BY <2>1, <3>1, Zenon DEF FieldStores
    <3>3. Off(x) \in Nat
      BY <2>1, <3>2, OffTypes, Zenon
    <3>4. Off(x) < Capacity
      BY <2>3, <3>2, <3>3 DEF Begun
    <3>5. SlotOf(x) = SlotOf(c_index)
      BY <2>4, <3>2, Zenon DEF IsField
    <3>6. x = c_index
      <4>1. Off(c_index) < Capacity
        BY <2>2, <2>3
      <4>2. QED
        BY <2>1, <2>2, <3>4, <3>5, <4>1, SameSlot, Zenon
    <3>7. QED
      BY <2>2, <2>3, <3>2, <3>3, <3>6, SMTT(30)
  <2>5. QED
    BY <2>2, <2>4, Zenon
<1>2. QED
  BY <1>1, RingInvariant, PTL

\* The ring implements the bounded FIFO, as far as safety goes: send and recv
\* never lose, duplicate, reorder or tear a message, and never hold more than
\* Capacity of them.
THEOREM RingIsFifo == Spec => Fifo!Init /\ [][Fifo!Next]_(Fifo!vars)
<1>1. Init => Fifo!Init
  BY Zenon DEF Init, Fifo!Init
<1>2. RingInv /\ [Next]_vars => [Fifo!Next]_(Fifo!vars)
  BY StepInv, Zenon
<1>3. QED
  BY <1>1, <1>2, RingInvariant, PTL DEF Spec
=============================================================================

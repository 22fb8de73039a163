-------------------------- MODULE CourtletsProofs --------------------------
(***************************************************************************)
(* Proofs about the courtlet demo, on the page tables of PagingProofs: for *)
(* every machine, all images and every capacity of the ring the demo does  *)
(* what its images ask for, once they are brought up.                      *)
(***************************************************************************)
EXTENDS PagingProofs, Courtlets

-----------------------------------------------------------------------------
\* The courtlet demo.  Its steps are steps of the bring-up or leave it alone.

\* A court finds frame f at page va, or will when the queue is mapped.
Gets(i, va, f) ==
  <<va, f>> \in asked[i] \/ (i = Len(spaces) /\ \E k \in DOMAIN queue : queue[k] = Span(va, f, 1))

\* Which courtlets have their boot page, and that no two pages are one.
Booting ==
  /\ boots \in Seq(Nat)
  /\ pc \in {"clone", "demo"} => Len(boots) = Len(spaces) - 1
  /\ pc = "load" => Len(boots) = Len(spaces) - 2
  /\ \A i \in DOMAIN boots :
       boots[i] # ring /\ Gets(i + 1, BOOT_VA, boots[i]) /\ Gets(i + 1, RING_VA, ring)
  /\ \A i, j \in DOMAIN boots : i # j => boots[i] # boots[j]

\* What the frames hold at each stage.
Over == stage \in {"denied", "done"}
Rings(S) == [magic : {"ring"}, producer : Nat, consumer : Nat, revoked : BOOLEAN, slots : S]
RingNow(r) ==
  /\ r \in Rings([0 .. CAPACITY - 1 -> Nat]) /\ (r.revoked <=> Over)
  /\ r.producer = IF stage = "app" THEN 0 ELSE 1
  /\ r.consumer = IF stage \in {"app", "net"} THEN 0 ELSE 1
  /\ stage # "app" => r.slots[0] = PACKET_LEN
BootNow(i) == BootInfo(IF i = 2 THEN {RIGHT_RECV} ELSE IF Over THEN {} ELSE {RIGHT_SEND})

Holding ==
  /\ ring \in DOMAIN memory /\ RingNow(memory[ring])
  /\ \A i \in DOMAIN boots : boots[i] \in DOMAIN memory /\ memory[boots[i]] = BootNow(i)

\* The app's capability can be revoked, and then has no rights.
Revocable ==
  LET cap == caps[1]
  IN  revoke_cap(root, cap).ok /\ cap_rights(revoke_cap(root, cap).root, cap) = Some({})

Authority ==
  caps # <<>> /\ IF Over THEN cap_rights(root, caps[1]) = Some({})
                 ELSE cap_rights(root, caps[1]) # Some({}) /\ Revocable

Going ==
  /\ stage \in {"app", "net", "revoke", "denied", "done"}
  /\ IF pc \in {"clone", "load", "demo"} THEN Booting /\ Holding /\ Authority
     ELSE caps = <<>> /\ boots = <<>> /\ memory = [f \in {} |-> NewRing] /\ root = bootstrap(NewRoot).root
  /\ pc # "demo" \/ queue # <<>> => stage = "app"

DemoInv == DemoNeverFails /\ PacketArrives /\ (Fine => PagingInv /\ Placement /\ Going)

\* What a court gets stays so.
StillGets == \A i \in DOMAIN spaces : \A va, f : Gets(i, va, f) => Gets(i, va, f)'

\* map_range takes a page from the queue only to map it.
LEMMA MapKeeps ==
  ASSUME PagingInv, map_range, Fine'
  PROVE  StillGets
<1>1. PICK r : r = Head(queue)
  BY Zenon
<1>2. PICK n, size : n = Len(spaces) /\ size = IF IsLarge(r) THEN HUGE ELSE 1
  BY Zenon
<1>3. Round(r, n, size) /\ Outcome(r, n, size) /\ spaces' = spaces
  BY <1>1, <1>2, MapOutcome, Zenon
<1>4. queue # <<>>
  BY Zenon DEF map_range
<1>5. /\ queue' = (IF r.len - size = 0 THEN <<>> ELSE <<Span(r.virt + size, r.phys + size, r.len - size)>>)
                  \o Tail(queue)
      /\ asked' = [asked EXCEPT ![Len(asked)] = @ \cup NewPairs(r, size)]
  BY <1>3, Zenon DEF Outcome
<1>6. MoreAsked(r, n, size)
  BY <1>3, <1>5, AskedMore, Zenon
<1>7. Shorter(r, size)
  BY <1>3, <1>4, <1>5, QueueShorter, Zenon
<1>8. n \in DOMAIN spaces /\ \A j \in DOMAIN spaces : asked[j] \subseteq asked'[j]
  BY <1>3, <1>6, Zenon DEF MoreAsked, Round
<1>9. ASSUME NEW va, NEW f, NEW k \in DOMAIN queue, queue[k] = Span(va, f, 1)
      PROVE  Gets(n, va, f)'
  <2>1. CASE queue[k] = r
    <3>1. r.virt = va /\ r.phys = f
      BY <1>9, <2>1 DEF Span
    <3>2. Straight(NewPairs(r, size), va, f, size)
      BY <1>3, <3>1, Pairs, Zenon
    <3>3. va \in va .. va + size - 1 /\ f + (va - va) = f
      BY <3>2 DEF Straight
    <3>4. <<va, f>> \in NewPairs(r, size)
      <4>1. <<va, f + (va - va)>> \in NewPairs(r, size)
        BY <3>2, <3>3, Zenon DEF Straight
      <4> QED
        BY <3>3, <4>1, Zenon
    <3> QED
      BY <1>6, <3>4, Zenon DEF MoreAsked, Gets
  <2>2. CASE \E j \in DOMAIN queue' : queue'[j] = queue[k]
    BY <1>2, <1>3, <1>9, <2>2, Zenon DEF Gets
  <2> QED
    BY <1>7, <2>1, <2>2, Zenon DEF Shorter
<1> QED
  BY <1>2, <1>8, <1>9, Zenon DEF StillGets, Gets

\* When the queue is empty, everything is mapped.
LEMMA IdleKeeps ==
  ASSUME queue = <<>>, \A i \in DOMAIN spaces : asked[i] \subseteq asked'[i]
  PROVE  StillGets
<1>1. DOMAIN queue = {}
  OBVIOUS
<1> QED
  BY <1>1, Zenon DEF StillGets, Gets

\* The court of a boot page has a space.
LEMMA SpaceOfBoot ==
  ASSUME NEW q \in Seq(Nat), NEW s \in Nat, Len(q) = s - 1 \/ Len(q) = s - 2, NEW i \in DOMAIN q
  PROVE  i + 1 \in 1 .. s /\ i + 1 > 1
OBVIOUS

\* The boot pages stay where they are.
LEMMA BootsKept ==
  ASSUME Booting, StillGets, UNCHANGED <<boots, ring>>, DOMAIN spaces = 1 .. Len(spaces), Len(spaces) \in Nat,
         pc \in {"clone", "load", "demo"},
         pc' \in {"clone", "demo"} => Len(boots) = Len(spaces') - 1,
         pc' = "load" => Len(boots) = Len(spaces') - 2
  PROVE  Booting'
<1>1. ASSUME NEW i \in DOMAIN boots
      PROVE  i + 1 \in DOMAIN spaces
  <2>1. boots \in Seq(Nat) /\ (Len(boots) = Len(spaces) - 1 \/ Len(boots) = Len(spaces) - 2)
    BY Zenon DEF Booting
  <2>2. i + 1 \in 1 .. Len(spaces)
    BY <2>1, SpaceOfBoot, Zenon
  <2> QED
    BY <2>2, Zenon
<1>2. ASSUME NEW i \in DOMAIN boots
      PROVE  boots[i] # ring /\ Gets(i + 1, BOOT_VA, boots[i])' /\ Gets(i + 1, RING_VA, ring)'
  <2>1. i + 1 \in DOMAIN spaces /\ boots[i] # ring /\ Gets(i + 1, BOOT_VA, boots[i]) /\ Gets(i + 1, RING_VA, ring)
    BY <1>1, Zenon DEF Booting
  <2>2. boots' = boots /\ ring' = ring
    BY Zenon
  <2> QED
    BY <2>1, <2>2, Zenon DEF StillGets
<1>3. boots' = boots /\ ring' = ring
  BY Zenon
<1> QED
  BY <1>2, <1>3, Zenon DEF Booting

\* Before the ring is made, the demo has not begun.
LEMMA Early ==
  ASSUME Going, UNCHANGED demo, pc \notin {"clone", "load", "demo"}, pc' \notin {"clone", "load", "demo"}
  PROVE  Going'
<1>1. /\ stage = "app" /\ caps = <<>> /\ boots = <<>> /\ memory = [f \in {} |-> NewRing]
      /\ root = bootstrap(NewRoot).root
  BY Zenon DEF Going
<1> QED
  BY <1>1, Zenon DEF Going, demo

\* Afterwards the demo waits while the courtlets are made.
LEMMA Waiting ==
  ASSUME Going, Booting', UNCHANGED <<demo, ring>>, stage = "app",
         pc \in {"clone", "load", "demo"}, pc' \in {"clone", "load", "demo"}
  PROVE  Going'
<1>1. Holding /\ Authority
  BY Zenon DEF Going
<1>2. Holding'
  BY <1>1, Zenon DEF demo, Holding, RingNow, BootNow, Over
<1>3. Authority'
  BY <1>1, Zenon DEF demo, Authority, Revocable, Over
<1> QED
  BY <1>2, <1>3, Zenon DEF demo, Going

\* The spaces as a sequence.
LEMMA SpacesSeq ==
  ASSUME PagingInv
  PROVE  /\ spaces \in Seq(Nat) /\ asked \in Seq(SUBSET (Pages \X Nat)) /\ Len(asked) = Len(spaces)
         /\ DOMAIN spaces = 1 .. Len(spaces) /\ DOMAIN asked = 1 .. Len(spaces) /\ Len(spaces) \in Nat
<1>1. /\ spaces \in Seq(Nat) /\ asked \in Seq(SUBSET (Pages \X Nat)) /\ Len(asked) = Len(spaces)
  BY Zenon DEF PagingInv, Control
<1>2. ASSUME NEW S, NEW q \in Seq(S)
      PROVE  DOMAIN q = 1 .. Len(q) /\ Len(q) \in Nat
  OBVIOUS
<1> QED
  BY <1>1, <1>2, Zenon

\* The demo while memory is brought up.
LEMMA DuringBringup ==
  ASSUME PagingInv, Going, Fine', UNCHANGED demo,
         from_memmap \/ build \/ build_entry \/ map_range \/ activate \/ clone_kernel \/ load
  PROVE  Going'
<1>1. CASE from_memmap \/ build \/ build_entry \/ activate
  <2>1. pc \notin {"clone", "load", "demo"} /\ pc' \notin {"clone", "load", "demo"}
    BY <1>1, Zenon DEF from_memmap, build, build_entry, activate, Fail
  <2> QED
    BY <2>1, Early, Zenon
<1>2. CASE map_range
  <2>1. UNCHANGED <<pc, ring, spaces>> /\ queue # <<>>
    BY <1>2, Zenon DEF map_range
  <2>2. CASE pc \in {"clone", "load", "demo"}
    <3>1. Booting /\ stage = "app"
      BY <2>1, <2>2, Zenon DEF Going
    <3>2. StillGets
      BY <1>2, MapKeeps, Zenon
    <3>3. /\ pc' \in {"clone", "demo"} => Len(boots) = Len(spaces') - 1
          /\ pc' = "load" => Len(boots) = Len(spaces') - 2
      BY <2>1, <3>1, Zenon DEF Booting
    <3>4. Booting'
      BY <2>1, <2>2, <3>1, <3>2, <3>3, BootsKept, SpacesSeq, Zenon DEF demo
    <3> QED
      BY <2>1, <2>2, <3>1, <3>4, Waiting, Zenon
  <2> QED
    BY <2>1, <2>2, Early, Zenon
<1>3. CASE clone_kernel
  <2>1. /\ pc = "clone" /\ pc' = "load" /\ ring' = ring /\ queue = <<>>
        /\ spaces' = Append(spaces, FirstFrame(bump)) /\ asked' = Append(asked, asked[1])
    BY <1>3, Zenon DEF clone_kernel, NewSpace, Running, Fail, Fine
  <2>2. Booting /\ stage = "app" /\ Len(boots) = Len(spaces) - 1
    BY <2>1, Zenon DEF Going, Booting
  <2>3. Len(spaces') = Len(spaces) + 1 /\ \A i \in DOMAIN spaces : asked[i] \subseteq asked'[i]
    <3>1. ASSUME NEW S, NEW q \in Seq(S), NEW x
          PROVE  Len(Append(q, x)) = Len(q) + 1 /\ \A i \in 1 .. Len(q) : Append(q, x)[i] = q[i]
      OBVIOUS
    <3> QED
      BY <2>1, <3>1, SpacesSeq, Zenon
  <2>4. StillGets
    BY <2>1, <2>3, IdleKeeps, Zenon
  <2>5. Len(boots) = Len(spaces') - 2
    BY <2>2, <2>3, SpacesSeq
  <2>6. Booting'
    BY <2>1, <2>2, <2>4, <2>5, BootsKept, SpacesSeq, Zenon DEF demo
  <2> QED
    BY <2>1, <2>2, <2>6, Waiting, Zenon
<1>4. CASE load
  <2>1. pc = "load" /\ pc' = "load" /\ ring' = ring /\ queue = <<>> /\ spaces' = spaces /\ asked' = asked
    BY <1>4, Zenon DEF load, Running, Fail, Fine
  <2>2. Booting /\ stage = "app" /\ Len(boots) = Len(spaces') - 2
    BY <2>1, Zenon DEF Going, Booting
  <2>3. StillGets
    BY <2>1, IdleKeeps, Zenon
  <2>4. Booting'
    BY <2>1, <2>2, <2>3, BootsKept, SpacesSeq, Zenon DEF demo
  <2> QED
    BY <2>1, <2>2, <2>4, Waiting, Zenon
<1> QED
  BY <1>1, <1>2, <1>3, <1>4, Zenon

\* The tables of the Root Court, and that capabilities have the numbers of
\* their slots.
Slots == [id : Nat, object : Nat, rights : SUBSET {RIGHT_SEND, RIGHT_RECV, OBSERVE}]
Names == {"root", "app", "net"}
Tables(C, K, B) ==
  [next_court : Nat, next_cap : Nat, next_object : Nat, courts : C, caps : K, bindings : B]
Numbered(n, table) == n = Len(table) /\ \A i \in DOMAIN table : table[i].id = i
Filed(r) ==
  /\ r \in Tables(Seq(Nat), Seq(Slots), Seq([path : Names, object : Nat]))
  /\ Numbered(r.next_cap, r.caps)

\* The fields of an operation's answer.
Ok(m) == m.ok

\* An answer has the root, the identifier and the success it was made with.
LEMMA AnswerFields ==
  ASSUME NEW m, NEW x, NEW y
  PROVE  /\ m = Done(x, y) => Ok(m) /\ m.root = x /\ m.id = y
         /\ m = Refused(x) => ~Ok(m) /\ m.root = x /\ m.id = 0
<1>1. Ok(Done(x, y)) /\ ~Ok(Refused(x))
  BY Zenon DEF Done, Refused, Ok
<1>2. (m = Done(x, y) => m.root = x /\ m.id = y) /\ (m = Refused(x) => m.root = x /\ m.id = 0)
  BY DEF Done, Refused
<1> QED
  BY <1>1, <1>2, Zenon

\* A court takes no capability.
LEMMA CourtFiled ==
  ASSUME NEW r, Filed(r), NEW path \in Names, NEW m, m = spawn_court(r, path)
  PROVE  Filed(m.root) /\ m.id \in Nat /\ m.root.caps = r.caps
<1>1. PICK C, K, B : /\ C = Seq(Nat) /\ K = Seq(Slots) /\ B = Seq([path : Names, object : Nat])
                     /\ r \in Tables(C, K, B)
  BY Zenon DEF Filed
<1>2. PICK c : c = create_court(r)
  BY Zenon
<1>3. CASE c = Refused(r)
  <2>1. ~Ok(c)
    BY <1>3, AnswerFields, Zenon
  <2>2. m = Refused(r)
    BY <1>2, <1>3, <2>1, Zenon DEF spawn_court, Ok
  <2>3. m.root = r /\ m.id = 0
    BY <2>2, AnswerFields, Zenon
  <2>4. 0 \in Nat
    BY Zenon
  <2> QED
    BY <2>3, <2>4, Zenon
<1>4. CASE c # Refused(r)
  <2>1. PICK a, d : a = r.next_court + 1 /\ d = Append(r.courts, a)
    BY Zenon
  <2>2. a \in Nat /\ d \in C /\ r.next_object \in Nat
    <3>1. r.next_court \in Nat /\ r.courts \in Seq(Nat) /\ r.next_object \in Nat
      BY <1>1, Zenon DEF Tables
    <3> QED
      BY <1>1, <2>1, <3>1
  <2>3. PICK s : s = [r EXCEPT !.next_court = a, !.courts = d]
    BY Zenon
  <2>4. c = Done(s, a)
    BY <1>2, <1>4, <2>1, <2>3, Zenon DEF create_court
  <2>5. Ok(c) /\ c.root = s
    <3>1. \A x, y : c = Done(x, y) => Ok(c) /\ c.root = x
      BY AnswerFields, Zenon
    <3> QED
      BY <2>4, <3>1, Zenon
  <2>6. /\ s \in Tables(C, K, B) /\ s.next_cap = r.next_cap /\ s.caps = r.caps
        /\ s.next_object = r.next_object
    BY <1>1, <2>2, <2>3, Zenon DEF Tables
  <2>7. PICK n \in Nat : n = s.next_object + 1
    BY <2>2, <2>6
  <2>8. PICK o : o = [s EXCEPT !.next_object = n]
    BY Zenon
  <2>9. /\ o \in Tables(C, K, B) /\ o.next_cap = s.next_cap /\ o.caps = s.caps
        /\ o.next_object = n /\ o.bindings = s.bindings
    BY <2>6, <2>8, Zenon DEF Tables
  <2>10. m = bind(o, path, n)
    <3>1. alloc_object(s) = o
      BY <2>7, <2>8, Zenon DEF alloc_object
    <3> QED
      BY <1>2, <2>5, <2>9, <3>1, Zenon DEF spawn_court, Ok
  <2>11. Filed(o) /\ o.caps = r.caps
    BY <1>1, <2>6, <2>9, Zenon DEF Filed
  <2>12. CASE m = Refused(o)
    <3>1. m.root = o /\ m.id = 0
      BY <2>12, AnswerFields, Zenon
    <3>2. 0 \in Nat
      BY Zenon
    <3> QED
      BY <2>11, <3>1, <3>2, Zenon
  <2>13. CASE m # Refused(o)
    <3>1. PICK b : b = Append(o.bindings, [path |-> path, object |-> n])
      BY Zenon
    <3>2. b \in B
      <4>1. o.bindings \in Seq([path : Names, object : Nat])
        BY <1>1, <2>9, Zenon DEF Tables
      <4>2. [path |-> path, object |-> n] \in [path : Names, object : Nat]
        BY Zenon
      <4>3. ASSUME NEW S, NEW q \in Seq(S), NEW x \in S
            PROVE  Append(q, x) \in Seq(S)
        OBVIOUS
      <4> QED
        BY <1>1, <3>1, <4>1, <4>2, <4>3, Zenon
    <3>3. PICK t : t = [o EXCEPT !.bindings = b]
      BY Zenon
    <3>4. m = Done(t, n)
      BY <2>10, <2>13, <3>1, <3>3, Zenon DEF bind
    <3>5. m.root = t /\ m.id = n
      BY <3>4, AnswerFields, Zenon
    <3>6. t \in Tables(C, K, B) /\ t.next_cap = o.next_cap /\ t.caps = o.caps
      BY <2>9, <3>2, <3>3, Zenon DEF Tables
    <3> QED
      BY <1>1, <2>11, <3>5, <3>6, Zenon DEF Filed
  <2> QED
    BY <2>12, <2>13, Zenon
<1> QED
  BY <1>3, <1>4, Zenon

\* mint fills the slot after the last.
Minted(r, rights, m) ==
  /\ m.id \in DOMAIN m.root.caps /\ m.root.caps[m.id].rights = rights
  /\ \A i \in DOMAIN r.caps : i \in DOMAIN m.root.caps /\ m.root.caps[i] = r.caps[i]

\* root.rs::mint keeps the tables well formed, fills the next slot, and leaves
\* the other capabilities alone.
LEMMA MintFiled ==
  ASSUME NEW r, Filed(r), NEW object \in Nat, NEW rights \in SUBSET {RIGHT_SEND, RIGHT_RECV, OBSERVE},
         NEW m, m = mint(r, object, rights)
  PROVE  Filed(m.root) /\ (Ok(m) => Minted(r, rights, m))
<1>1. PICK C, K, B : /\ C = Seq(Nat) /\ K = Seq(Slots) /\ B = Seq([path : Names, object : Nat])
                     /\ r \in Tables(C, K, B)
  BY Zenon DEF Filed
<1>2. CASE m = Refused(r)
  <2>1. ~Ok(m) /\ m.root = r
    BY <1>2, AnswerFields, Zenon
  <2> QED
    BY <2>1, Zenon
<1>3. CASE m # Refused(r)
  <2>1. PICK n, slot, table : /\ n = r.next_cap + 1 /\ slot = [id |-> n, object |-> object, rights |-> rights]
                              /\ table = Append(r.caps, slot)
    BY Zenon
  <2>2. r.next_cap \in Nat /\ r.caps \in Seq(Slots) /\ Numbered(r.next_cap, r.caps)
    BY <1>1, Zenon DEF Tables, Filed
  <2>3. n \in Nat /\ n = Len(r.caps) + 1
    BY <2>1, <2>2 DEF Numbered
  <2>4. slot \in Slots /\ slot.id = n /\ slot.rights = rights
    BY <2>1, <2>3, Zenon DEF Slots
  <2>5. /\ table \in Seq(Slots) /\ Len(table) = n /\ DOMAIN table = 1 .. n
        /\ table[n] = slot /\ \A i \in DOMAIN r.caps : i \in 1 .. n - 1 /\ table[i] = r.caps[i]
        /\ \A i \in 1 .. n - 1 : i \in DOMAIN r.caps
    <3>1. PICK S, e : S = Slots /\ e = r.caps
      BY Zenon
    <3>2. e \in Seq(S) /\ slot \in S /\ table = Append(e, slot) /\ n = Len(e) + 1
      BY <2>1, <2>2, <2>3, <2>4, <3>1, Zenon
    <3>3. /\ table \in Seq(S) /\ Len(table) = n /\ DOMAIN table = 1 .. n
          /\ table[n] = slot /\ \A i \in DOMAIN e : i \in 1 .. n - 1 /\ table[i] = e[i]
          /\ \A i \in 1 .. n - 1 : i \in DOMAIN e
      BY <3>2
    <3> QED
      BY <3>1, <3>3, Zenon
  <2>6. Numbered(n, table)
    <3>1. ASSUME NEW i \in 1 .. n PROVE i = n \/ i \in 1 .. n - 1
      BY <2>3
    <3> QED
      BY <2>2, <2>4, <2>5, <3>1, Zenon DEF Numbered
  <2>7. PICK s : s = [r EXCEPT !.next_cap = n, !.caps = table]
    BY Zenon
  <2>8. s \in Tables(C, K, B) /\ s.next_cap = n /\ s.caps = table
    BY <1>1, <2>3, <2>5, <2>7, Zenon DEF Tables
  <2>9. m = Done(s, n)
    BY <1>3, <2>1, <2>7, Zenon DEF mint
  <2>10. m.root = s /\ m.id = n
    <3>1. \A x, y : m = Done(x, y) => m.root = x /\ m.id = y
      BY AnswerFields, Zenon
    <3> QED
      BY <2>9, <3>1, Zenon
  <2>11. Filed(s)
    BY <1>1, <2>6, <2>8, Zenon DEF Filed
  <2>12. n \in 1 .. n /\ \A i \in 1 .. n - 1 : i \in 1 .. n
    BY <2>3
  <2>13. Minted(r, rights, m)
    BY <2>4, <2>5, <2>8, <2>10, <2>12, Zenon DEF Minted
  <2> QED
    BY <2>10, <2>11, <2>13, Zenon
<1> QED
  BY <1>2, <1>3, Zenon

\* A capability is in the slot of its number.
LEMMA InSlot ==
  ASSUME NEW r, Filed(r), NEW cap \in DOMAIN r.caps
  PROVE  /\ CapsAt(r, cap) = {cap}
         /\ (CHOOSE i \in CapsAt(r, cap) : \A j \in CapsAt(r, cap) : i <= j) = cap
<1>1. \A i \in DOMAIN r.caps : r.caps[i].id = i
  BY Zenon DEF Filed, Numbered
<1>2. CapsAt(r, cap) = {cap}
  BY <1>1, Zenon DEF CapsAt
<1>3. cap <= cap
  <2>1. r.caps \in Seq(Slots)
    BY Zenon DEF Filed, Tables
  <2>2. cap \in Nat
    BY <2>1
  <2> QED
    BY <2>2
<1>4. (CHOOSE i \in CapsAt(r, cap) : \A j \in CapsAt(r, cap) : i <= j) = cap
  BY <1>2, <1>3, Zenon
<1> QED
  BY <1>2, <1>4, Zenon

\* And is found there.
LEMMA FoundInSlot ==
  ASSUME NEW r, Filed(r), NEW cap \in DOMAIN r.caps
  PROVE  cap_rights(r, cap) = Some(r.caps[cap].rights)
<1>1. CapsAt(r, cap) = {cap} /\ (CHOOSE i \in CapsAt(r, cap) : \A j \in CapsAt(r, cap) : i <= j) = cap
  BY InSlot, Zenon
<1> QED
  BY <1>1, Zenon DEF cap_rights

\* Revoking it takes its rights.
LEMMA RevokedInSlot ==
  ASSUME NEW r, Filed(r), NEW cap \in DOMAIN r.caps, NEW m, m = revoke_cap(r, cap)
  PROVE  Ok(m) /\ cap_rights(m.root, cap) = Some({})
<1>1. PICK C, K, B : /\ C = Seq(Nat) /\ K = Seq(Slots) /\ B = Seq([path : Names, object : Nat])
                     /\ r \in Tables(C, K, B)
  BY Zenon DEF Filed
<1>2. PICK slot, table : slot = [r.caps[cap] EXCEPT !.rights = {}] /\ table = [r.caps EXCEPT ![cap] = slot]
  BY Zenon
<1>3. r.next_cap \in Nat /\ r.caps \in Seq(Slots) /\ Numbered(r.next_cap, r.caps)
  BY <1>1, Zenon DEF Tables, Filed
<1>4. r.caps[cap] \in Slots /\ r.caps[cap].id = cap
  BY <1>3 DEF Numbered
<1>5. slot \in Slots /\ slot.id = cap /\ slot.rights = {}
  BY <1>2, <1>4, Zenon DEF Slots
<1>6. /\ table \in Seq(Slots) /\ Len(table) = Len(r.caps) /\ DOMAIN table = DOMAIN r.caps
      /\ \A i \in DOMAIN r.caps : table[i] = IF i = cap THEN slot ELSE r.caps[i]
  <2>1. PICK S, e : S = Slots /\ e = r.caps
    BY Zenon
  <2>2. e \in Seq(S) /\ slot \in S /\ cap \in DOMAIN e /\ table = [e EXCEPT ![cap] = slot]
    BY <1>2, <1>3, <1>5, <2>1, Zenon
  <2>3. /\ table \in Seq(S) /\ Len(table) = Len(e) /\ DOMAIN table = DOMAIN e
        /\ \A i \in DOMAIN e : table[i] = IF i = cap THEN slot ELSE e[i]
    BY <2>2
  <2> QED
    BY <2>1, <2>3, Zenon
<1>7. Numbered(r.next_cap, table)
  BY <1>3, <1>5, <1>6, Zenon DEF Numbered
<1>8. PICK s : s = [r EXCEPT !.caps = table]
  BY Zenon
<1>9. s \in Tables(C, K, B) /\ s.next_cap = r.next_cap /\ s.caps = table
  BY <1>1, <1>6, <1>8, Zenon DEF Tables
<1>10. Filed(s)
  BY <1>1, <1>7, <1>9, Zenon DEF Filed
<1>11. m = Done(s, cap)
  <2>1. CapsAt(r, cap) = {cap} /\ (CHOOSE i \in CapsAt(r, cap) : \A j \in CapsAt(r, cap) : i <= j) = cap
    BY InSlot, Zenon
  <2>2. [r EXCEPT !.caps[cap].rights = {}] = s
    BY <1>2, <1>8, Zenon
  <2> QED
    BY <2>1, <2>2, Zenon DEF revoke_cap
<1>12. Ok(m) /\ m.root = s
  <2>1. \A x, y : m = Done(x, y) => Ok(m) /\ m.root = x
    BY AnswerFields, Zenon
  <2> QED
    BY <1>11, <2>1, Zenon
<1>13. cap \in DOMAIN s.caps /\ s.caps[cap].rights = {}
  BY <1>5, <1>6, <1>9, Zenon
<1>14. cap_rights(s, cap) = Some(s.caps[cap].rights)
  BY <1>10, <1>13, FoundInSlot, Zenon
<1> QED
  BY <1>12, <1>13, <1>14, Zenon

\* bootstrap leaves the tables in order.
LEMMA Bootstrapped == Filed(bootstrap(NewRoot).root)
<1>1. Filed(NewRoot)
  BY DEF Filed, Tables, Numbered, NewRoot
<1>2. PICK named : named = spawn_court(NewRoot, "root")
  BY Zenon
<1>3. Filed(named.root) /\ named.id \in Nat
  <2>1. "root" \in Names
    BY Zenon DEF Names
  <2> QED
    BY <1>1, <1>2, <2>1, CourtFiled, Zenon
<1>4. {OBSERVE} \in SUBSET {RIGHT_SEND, RIGHT_RECV, OBSERVE}
  BY Zenon
<1>5. Filed(mint(named.root, named.id, {OBSERVE}).root)
  BY <1>3, <1>4, MintFiled, Zenon
<1> QED
  BY <1>2, <1>3, <1>5, Zenon DEF bootstrap

\* How many courts, with their bindings, and capabilities there are.
Used(r, n, k) == Len(r.courts) = n /\ Len(r.bindings) = n /\ Len(r.caps) = k

\* A court that finds room is there afterwards, and bound.
LEMMA CourtRoom ==
  ASSUME NEW r, Filed(r), NEW path, NEW m, m = spawn_court(r, path),
         NEW n \in Nat, NEW k, Used(r, n, k), n < MAX_COURTS
  PROVE  Ok(m) /\ Used(m.root, n + 1, k)
<1>1. PICK C, K, B : /\ C = Seq(Nat) /\ K = Seq(Slots) /\ B = Seq([path : Names, object : Nat])
                     /\ r \in Tables(C, K, B)
  BY Zenon DEF Filed
<1>2. PICK a, d, s : /\ a = r.next_court + 1 /\ d = Append(r.courts, a)
                     /\ s = [r EXCEPT !.next_court = a, !.courts = d]
  BY Zenon
<1>3. create_court(r) = Done(s, a)
  BY <1>2, Zenon DEF create_court, Used
<1>4. Ok(create_court(r)) /\ create_court(r).root = s
  <2>1. \A x, y, c : c = Done(x, y) => Ok(c) /\ c.root = x
    BY AnswerFields, Zenon
  <2> QED
    BY <1>3, <2>1, Zenon
<1>5. /\ s.courts = d /\ s.bindings = r.bindings /\ s.caps = r.caps
      /\ s.next_object = r.next_object
      /\ {"next_object", "courts", "bindings", "caps"} \subseteq DOMAIN s
  BY <1>1, <1>2, Zenon DEF Tables
<1>6. PICK o : /\ o = alloc_object(s) /\ o.courts = d /\ o.bindings = r.bindings /\ o.caps = r.caps
               /\ {"courts", "bindings", "caps"} \subseteq DOMAIN o
  BY <1>5, Zenon DEF alloc_object
<1>7. m = bind(o, path, o.next_object)
  BY <1>4, <1>6, Zenon DEF spawn_court, Ok
<1>8. n < MAX_BINDINGS
  BY TableSizes
<1>9. PICK x, b, t : /\ x = [path |-> path, object |-> o.next_object] /\ b = Append(o.bindings, x)
                     /\ t = [o EXCEPT !.bindings = b]
  BY Zenon
<1>10. m = Done(t, o.next_object)
  BY <1>6, <1>7, <1>8, <1>9, Zenon DEF bind, Used
<1>11. Ok(m) /\ m.root = t
  <2>1. \A x1, y, c : c = Done(x1, y) => Ok(c) /\ c.root = x1
    BY AnswerFields, Zenon
  <2> QED
    BY <1>10, <2>1, Zenon
<1>12. t.courts = d /\ t.bindings = b /\ t.caps = r.caps
  BY <1>6, <1>9, Zenon
<1>13. Len(d) = n + 1 /\ Len(b) = n + 1
  <2>1. ASSUME NEW S, NEW q \in Seq(S), NEW y
        PROVE  Len(Append(q, y)) = Len(q) + 1
    OBVIOUS
  <2>2. r.courts \in Seq(Nat) /\ r.bindings \in Seq([path : Names, object : Nat])
    BY <1>1, Zenon DEF Tables
  <2> QED
    BY <1>2, <1>6, <1>9, <2>1, <2>2, Zenon DEF Used
<1> QED
  BY <1>11, <1>12, <1>13, Zenon DEF Used

\* And a capability that finds room.
LEMMA MintRoom ==
  ASSUME NEW r, Filed(r), NEW object, NEW rights, NEW m, m = mint(r, object, rights),
         NEW n, NEW k \in Nat, Used(r, n, k), k < MAX_CAPS
  PROVE  Ok(m) /\ Used(m.root, n, k + 1)
<1>1. PICK C, K, B : /\ C = Seq(Nat) /\ K = Seq(Slots) /\ B = Seq([path : Names, object : Nat])
                     /\ r \in Tables(C, K, B)
  BY Zenon DEF Filed
<1>2. PICK a, x, d, s : /\ a = r.next_cap + 1 /\ x = [id |-> a, object |-> object, rights |-> rights]
                        /\ d = Append(r.caps, x) /\ s = [r EXCEPT !.next_cap = a, !.caps = d]
  BY Zenon
<1>3. m = Done(s, a)
  BY <1>2, Zenon DEF mint, Used
<1>4. Ok(m) /\ m.root = s
  <2>1. \A y, z, c : c = Done(y, z) => Ok(c) /\ c.root = y
    BY AnswerFields, Zenon
  <2> QED
    BY <1>3, <2>1, Zenon
<1>5. s.courts = r.courts /\ s.bindings = r.bindings /\ s.caps = d
  BY <1>1, <1>2, Zenon DEF Tables
<1>6. Len(d) = k + 1
  <2>1. ASSUME NEW S, NEW q \in Seq(S), NEW y
        PROVE  Len(Append(q, y)) = Len(q) + 1
    OBVIOUS
  <2>2. r.caps \in Seq(Slots)
    BY <1>1, Zenon DEF Tables
  <2> QED
    BY <1>2, <2>1, <2>2, Zenon DEF Used
<1> QED
  BY <1>4, <1>5, <1>6, Zenon DEF Used

\* Both, and the rights that are minted.
Holds(r, n, k) == Filed(r) /\ Used(r, n, k)
Grants == SUBSET {RIGHT_SEND, RIGHT_RECV, OBSERVE}

\* A court finds room, and leaves the tables filed.
LEMMA AnotherCourt ==
  ASSUME NEW r, NEW path \in Names, NEW n \in Nat, NEW k, Holds(r, n, k), n < MAX_COURTS,
         NEW m, m = spawn_court(r, path)
  PROVE  Ok(m) /\ m.id \in Nat /\ Holds(m.root, n + 1, k)
<1>1. Filed(r) /\ Used(r, n, k)
  BY Zenon DEF Holds
<1>2. Filed(m.root) /\ m.id \in Nat
  BY <1>1, CourtFiled, Zenon
<1>3. Ok(m) /\ Used(m.root, n + 1, k)
  BY <1>1, CourtRoom, Zenon
<1> QED
  BY <1>2, <1>3, Zenon DEF Holds

\* A capability finds room, and leaves the tables filed.
LEMMA AnotherCap ==
  ASSUME NEW r, NEW object \in Nat, NEW rights \in Grants, NEW n, NEW k \in Nat, Holds(r, n, k),
         k < MAX_CAPS, NEW m, m = mint(r, object, rights)
  PROVE  Ok(m) /\ Holds(m.root, n, k + 1)
<1>1. Filed(r) /\ Used(r, n, k) /\ rights \in SUBSET {RIGHT_SEND, RIGHT_RECV, OBSERVE}
  BY Zenon DEF Holds, Grants
<1>2. Filed(m.root)
  BY <1>1, MintFiled, Zenon
<1>3. Ok(m) /\ Used(m.root, n, k + 1)
  BY <1>1, MintRoom, Zenon
<1> QED
  BY <1>2, <1>3, Zenon DEF Holds

\* The tables of object.rs have room for the courts and the capabilities of
\* run_demo.
LEMMA RoomToRegister ==
  ASSUME Going, Register
  PROVE  run_demo
<1>1. CASE pc = "ring"
  <2>1. "root" \in Names /\ "app" \in Names /\ "net" \in Names
    BY Zenon DEF Names
  <2>2. {OBSERVE} \in Grants /\ {RIGHT_SEND} \in Grants /\ {RIGHT_RECV} \in Grants
    BY Zenon DEF Grants
  <2>3. Holds(NewRoot, 0, 0)
    BY DEF Holds, Filed, Tables, Numbered, NewRoot, Used
  <2>4. PICK named : named = spawn_court(NewRoot, "root")
    BY Zenon
  <2>5. Ok(named) /\ named.id \in Nat /\ Holds(named.root, 1, 0)
    <3>1. 0 \in Nat /\ 0 < MAX_COURTS /\ 0 + 1 = 1
      BY RoomAssumption, TableSizes
    <3> QED
      BY <2>1, <2>3, <2>4, <3>1, AnotherCourt, Zenon
  <2>6. PICK start : start = mint(named.root, named.id, {OBSERVE})
    BY Zenon
  <2>7. Holds(start.root, 1, 1)
    <3>1. 0 \in Nat /\ 0 < MAX_CAPS /\ 0 + 1 = 1
      BY RoomAssumption, TableSizes
    <3> QED
      BY <2>2, <2>5, <2>6, <3>1, AnotherCap, Zenon
  <2>8. root = start.root
    BY <1>1, <2>4, <2>5, <2>6, Zenon DEF Going, bootstrap, Ok
  <2>9. PICK app : app = spawn_court(root, "app")
    BY Zenon
  <2>10. Ok(app) /\ app.id \in Nat /\ Holds(app.root, 2, 1)
    <3>1. 1 \in Nat /\ 1 < MAX_COURTS /\ 1 + 1 = 2
      BY RoomAssumption, TableSizes
    <3>2. Holds(root, 1, 1)
      BY <2>7, <2>8, Zenon
    <3> QED
      BY <2>1, <2>9, <3>1, <3>2, AnotherCourt, Zenon
  <2>11. PICK net : net = spawn_court(app.root, "net")
    BY Zenon
  <2>12. Ok(net) /\ net.id \in Nat /\ Holds(net.root, 3, 1)
    <3>1. 2 \in Nat /\ 2 < MAX_COURTS /\ 2 + 1 = 3
      BY RoomAssumption, TableSizes
    <3> QED
      BY <2>1, <2>10, <2>11, <3>1, AnotherCourt, Zenon
  <2>13. PICK app_cap : app_cap = mint(net.root, app.id, {RIGHT_SEND})
    BY Zenon
  <2>14. Ok(app_cap) /\ Holds(app_cap.root, 3, 2)
    <3>1. 1 \in Nat /\ 1 < MAX_CAPS /\ 1 + 1 = 2
      BY RoomAssumption, TableSizes
    <3>2. app.id \in Nat
      BY <2>10, Zenon
    <3> QED
      BY <2>2, <2>12, <2>13, <3>1, <3>2, AnotherCap, Zenon
  <2>15. PICK net_cap : net_cap = mint(app_cap.root, net.id, {RIGHT_RECV})
    BY Zenon
  <2>16. Ok(net_cap)
    <3>1. 2 \in Nat /\ 2 < MAX_CAPS
      BY RoomAssumption, TableSizes
    <3>2. net.id \in Nat
      BY <2>12, Zenon
    <3> QED
      BY <2>2, <2>14, <2>15, <3>1, <3>2, AnotherCap, Zenon
  <2> QED
    BY <2>9, <2>10, <2>11, <2>12, <2>13, <2>14, <2>15, <2>16, Zenon DEF Register, Ok
<1>2. CASE pc # "ring"
  BY <1>2, Zenon DEF Register
<1> QED
  BY <1>1, <1>2, Zenon

\* run_demo has a capability for the app that it can revoke, and a ring.
LEMMA Registering ==
  ASSUME PagingInv, Going, Register, Fine'
  PROVE  Going'
<1>1. PICK app, net, app_cap, net_cap :
        /\ app = spawn_court(root, "app") /\ net = spawn_court(app.root, "net")
        /\ app_cap = mint(net.root, app.id, {RIGHT_SEND})
        /\ net_cap = mint(app_cap.root, net.id, {RIGHT_RECV})
  BY Zenon
<1>2. /\ app.ok /\ net.ok /\ app_cap.ok /\ net_cap.ok
      /\ run_demo /\ root' = net_cap.root /\ caps' = <<app_cap.id, net_cap.id>>
      /\ Put(ring', NewRing) /\ UNCHANGED <<boots, stage, received>>
  BY <1>1, Zenon DEF Register, Fail, Fine
<1>3. pc = "ring" /\ pc' = "clone" /\ spaces' = spaces
  BY <1>2, Zenon DEF run_demo, Fail, Fine
<1>4. /\ stage = "app" /\ caps = <<>> /\ boots = <<>> /\ memory = [f \in {} |-> NewRing]
      /\ root = bootstrap(NewRoot).root
  BY <1>3, Zenon DEF Going
<1>5. /\ Filed(net_cap.root)
      /\ Minted(net.root, {RIGHT_SEND}, app_cap) /\ Minted(app_cap.root, {RIGHT_RECV}, net_cap)
  <2>1. "app" \in Names /\ "net" \in Names
    BY Zenon DEF Names
  <2>2. Filed(app.root) /\ app.id \in Nat
    BY <1>1, <1>4, <2>1, Bootstrapped, CourtFiled, Zenon
  <2>3. Filed(net.root) /\ net.id \in Nat
    BY <1>1, <2>1, <2>2, CourtFiled, Zenon
  <2>4. {RIGHT_SEND} \in SUBSET {RIGHT_SEND, RIGHT_RECV, OBSERVE} /\ Ok(app_cap)
    BY <1>2, Zenon DEF Ok
  <2>5. Filed(app_cap.root) /\ Minted(net.root, {RIGHT_SEND}, app_cap)
    BY <1>1, <2>2, <2>3, <2>4, MintFiled, Zenon
  <2>6. {RIGHT_RECV} \in SUBSET {RIGHT_SEND, RIGHT_RECV, OBSERVE} /\ Ok(net_cap)
    BY <1>2, Zenon DEF Ok
  <2> QED
    BY <1>1, <2>3, <2>5, <2>6, MintFiled, Zenon
<1>6. caps'[1] = app_cap.id /\ caps' # <<>>
  BY <1>2, Zenon
<1>7. caps'[1] \in DOMAIN root'.caps /\ root'.caps[caps'[1]].rights = {RIGHT_SEND} /\ Filed(root')
  BY <1>2, <1>5, <1>6, Zenon DEF Minted
<1>8. cap_rights(root', caps'[1]) # Some({})
  <2>1. cap_rights(root', caps'[1]) = Some(root'.caps[caps'[1]].rights)
    BY <1>7, FoundInSlot, Zenon
  <2>2. {RIGHT_SEND} # {}
    BY Zenon
  <2> QED
    BY <1>7, <2>1, <2>2, Zenon DEF Some
<1>9. Revocable'
  <2>1. PICK m : m = revoke_cap(root', caps'[1])
    BY Zenon
  <2>2. Ok(m) /\ cap_rights(m.root, caps'[1]) = Some({})
    BY <1>7, <2>1, RevokedInSlot, Zenon
  <2> QED
    BY <2>1, <2>2, Zenon DEF Revocable, Ok
<1>10. Authority'
  <2>1. ~Over'
    BY <1>2, <1>4, Zenon DEF Over
  <2> QED
    BY <1>6, <1>8, <1>9, <2>1, Zenon DEF Authority
<1>11. Booting'
  <2>1. boots' = <<>> /\ Len(boots') = 0 /\ DOMAIN boots' = {} /\ boots' \in Seq(Nat)
    BY <1>2, <1>4
  <2>2. Len(spaces) = 1
    BY <1>3, Zenon DEF PagingInv, Control
  <2>3. 0 = 1 - 1
    OBVIOUS
  <2> QED
    BY <1>3, <2>1, <2>2, <2>3, Zenon DEF Booting
<1>12. Holding'
  <2>1. ring' \in DOMAIN memory' /\ memory'[ring'] = NewRing
    BY <1>2, Zenon DEF Put
  <2>2. RingNow(NewRing)'
    <3>1. NewRing.producer = 0 /\ NewRing.consumer = 0
      BY Zenon DEF NewRing
    <3>2. NewRing \in Rings([0 .. CAPACITY - 1 -> Nat]) /\ ~NewRing.revoked
      <4>1. [i \in 0 .. CAPACITY - 1 |-> 0] \in [0 .. CAPACITY - 1 -> Nat] /\ 0 \in Nat
        BY Zenon
      <4> QED
        BY <4>1, Zenon DEF NewRing, Rings
    <3>3. stage' = "app" /\ ~Over'
      BY <1>2, <1>4, Zenon DEF Over
    <3> QED
      BY <3>1, <3>2, <3>3, Zenon DEF RingNow
  <2>3. DOMAIN boots' = {}
    BY <1>2, <1>4
  <2> QED
    BY <2>1, <2>2, <2>3, Zenon DEF Holding
<1> QED
  BY <1>2, <1>3, <1>4, <1>10, <1>11, <1>12, Zenon DEF Going

\* What is in a court's lower half, as far as it is mapped, was handed out.
LEMMA BootBelow ==
  ASSUME PagingInv, pc # "memmap", NEW i \in DOMAIN spaces, i > 1, NEW f, f # ring, <<BOOT_VA, f>> \in asked[i]
  PROVE  f \in Nat /\ f < bump.cursor \div PAGE
<1>1. BOOT_VA < Half
  <2>1. Half \in Nat /\ BOOT_VA \in Nat /\ BOOT_VA + 1 <= Half
    BY Layout, Zenon
  <2> QED
    BY <2>1
<1>2. <<BOOT_VA, f>>[1] = BOOT_VA /\ <<BOOT_VA, f>>[2] = f
  BY Zenon
<1>3. Own(i, f)
  BY <1>1, <1>2, Zenon DEF PagingInv, Owned
<1>4. f < (IF i = Len(spaces) THEN bump.cursor \div PAGE ELSE spaces[i + 1])
  BY <1>3, Zenon DEF Own
<1>5. f \in Nat
  <2>1. asked[i] \in SUBSET (Pages \X Nat)
    <3>1. PICK S : S = SUBSET (Pages \X Nat) /\ asked \in Seq(S) /\ i \in 1 .. Len(asked)
      BY SpacesSeq, Zenon
    <3>2. asked[i] \in S
      BY <3>1
    <3> QED
      BY <3>1, <3>2, Zenon
  <2> QED
    BY <2>1, Zenon
<1>6. CASE i # Len(spaces)
  <2>1. i + 1 \in DOMAIN spaces
    <3>1. DOMAIN spaces = 1 .. Len(spaces) /\ Len(spaces) \in Nat
      BY SpacesSeq, Zenon
    <3> QED
      BY <1>6, <3>1
  <2>2. PICK s \in Nat, c \in Nat : s = spaces[i + 1] /\ c = bump.cursor \div PAGE /\ s < c
    BY <2>1, Below, Zenon
  <2>3. f < s
    BY <1>4, <1>6, <2>2, Zenon
  <2> QED
    BY <1>5, <2>2, <2>3
<1> QED
  BY <1>4, <1>5, <1>6, Zenon

\* spawn writes a boot page that is no other page of the demo, and has it and
\* the ring mapped.
LEMMA WritingBoot ==
  ASSUME PagingInv, Going, WriteBoot, Fine'
  PROVE  Going'
<1>1. PICK boot : boot = FirstFrame(bump)
  BY Zenon
<1>2. PICK n : n = Len(spaces)
  BY Zenon
<1>3. PICK rights : rights = IF n = 2 THEN {RIGHT_SEND} ELSE {RIGHT_RECV}
  BY Zenon
<1>4. /\ spawn /\ boots' = Append(boots, boot) /\ UNCHANGED <<root, caps, stage, received>>
      /\ memory' = [f \in DOMAIN memory \cup {boot} |-> IF f = boot THEN BootInfo(rights) ELSE memory[f]]
  BY <1>1, <1>2, <1>3, Zenon DEF WriteBoot, Fine, Put
<1>5. PICK stack : stack = FirstFrame(alloc_pages(bump, 1))
  BY Zenon
<1>6. /\ pc = "load" /\ queue = <<>> /\ Fits(bump, 1 + STACK_PAGES)
      /\ queue' = <<Span(BOOT_VA, boot, 1), Span(RING_VA, ring, 1), Span(STACK_VA, stack, STACK_PAGES)>>
      /\ pc' = IF n = 3 THEN "demo" ELSE "clone"
      /\ UNCHANGED <<spaces, ring, asked>>
  BY <1>1, <1>2, <1>4, <1>5, Zenon DEF spawn, Running, Fail, Fine
<1>7. /\ n \in 2 .. 3 /\ stage = "app" /\ Booting /\ Holding /\ Authority /\ Len(boots) = n - 2
      /\ ring \in {0} \cup Frames(bump.start, bump.cursor)
  BY <1>2, <1>6, Zenon DEF PagingInv, Control, Going, Booting, Owned
<1>8. boot \in Nat \ {0} /\ boot = bump.cursor \div PAGE
  <2>1. BumpOK(bump) /\ 1 + STACK_PAGES \in Nat
    BY <1>6, Below, PagingAssumption
  <2>2. PICK c : c = alloc_pages(bump, 1 + STACK_PAGES)
    BY Zenon
  <2> QED
    BY <1>1, <1>6, <2>1, <2>2, AllocLater, Zenon
<1>9. boot # ring
  <2>1. bump.start \div PAGE \in Nat /\ bump.cursor \div PAGE \in Nat
    BY <1>6, Below, Zenon
  <2> QED
    BY <1>7, <1>8, <2>1 DEF Frames
<1>10. boots \in Seq(Nat) /\ DOMAIN spaces = 1 .. n
  BY <1>2, <1>7, SpacesSeq, Zenon DEF Booting
<1>11. ASSUME NEW i \in DOMAIN boots
       PROVE  i + 1 \in DOMAIN spaces /\ i + 1 > 1 /\ boots[i] # boot /\ boots[i] # ring
  <2>1. i + 1 \in 1 .. n /\ i + 1 > 1
    BY <1>7, <1>10, SpaceOfBoot
  <2>2. boots[i] # ring /\ Gets(i + 1, BOOT_VA, boots[i])
    BY <1>7, Zenon DEF Booting
  <2>3. <<BOOT_VA, boots[i]>> \in asked[i + 1]
    <3>1. DOMAIN queue = {}
      BY <1>6
    <3> QED
      BY <2>2, <3>1, Zenon DEF Gets
  <2>4. boots[i] \in Nat /\ boots[i] < bump.cursor \div PAGE
    BY <1>6, <1>10, <2>1, <2>2, <2>3, BootBelow, Zenon
  <2>5. boots[i] # boot
    BY <1>8, <2>4
  <2> QED
    BY <1>10, <2>1, <2>2, <2>5, Zenon
<1>12. PICK k : /\ k = n - 1 /\ k + 1 = n /\ boots' \in Seq(Nat) /\ Len(boots') = k /\ DOMAIN boots' = 1 .. k
                /\ boots'[k] = boot /\ k \in 1 .. k
                /\ \A i \in 1 .. k : i # k => i \in DOMAIN boots /\ boots'[i] = boots[i]
  BY <1>4, <1>7, <1>8, <1>10
<1>13. StillGets
  BY <1>6, IdleKeeps, Zenon
<1>14. Gets(n, BOOT_VA, boot)' /\ Gets(n, RING_VA, ring)'
  <2>1. PICK a, b, c : a = Span(BOOT_VA, boot, 1) /\ b = Span(RING_VA, ring, 1) /\ queue' = <<a, b, c>>
    BY <1>6, Zenon
  <2>2. 1 \in DOMAIN queue' /\ 2 \in DOMAIN queue' /\ queue'[1] = a /\ queue'[2] = b
    BY <2>1
  <2> QED
    BY <1>2, <1>6, <2>1, <2>2, Zenon DEF Gets
<1>15. Booting'
  <2>1. ASSUME NEW i \in DOMAIN boots'
        PROVE  boots'[i] # ring /\ Gets(i + 1, BOOT_VA, boots[i])' /\ Gets(i + 1, RING_VA, ring)'
    <3>1. CASE i = k
      BY <1>6, <1>9, <1>12, <1>14, <3>1, Zenon
    <3>2. CASE i # k
      <4>1. i \in DOMAIN boots /\ boots'[i] = boots[i]
        BY <1>12, <3>2, Zenon
      <4>2. Gets(i + 1, BOOT_VA, boots[i]) /\ Gets(i + 1, RING_VA, ring)
        BY <1>7, <4>1, Zenon DEF Booting
      <4>3. PICK f : f = boots[i] /\ f = boots'[i]
        BY <4>1, Zenon
      <4>4. Gets(i + 1, BOOT_VA, f)' /\ Gets(i + 1, RING_VA, ring)'
        BY <1>6, <1>11, <1>13, <4>1, <4>2, <4>3, Zenon DEF StillGets
      <4> QED
        BY <1>11, <4>1, <4>3, <4>4, Zenon
    <3> QED
      BY <3>1, <3>2, Zenon
  <2>2. ASSUME NEW i \in DOMAIN boots', NEW j \in DOMAIN boots', i # j
        PROVE  boots'[i] # boots'[j]
    BY <1>7, <1>11, <1>12, <2>2, Zenon DEF Booting
  <2>3. pc' # "load" /\ Len(boots') = Len(spaces') - 1
    BY <1>2, <1>6, <1>12, Zenon
  <2> QED
    BY <1>6, <1>12, <2>1, <2>2, <2>3, Zenon DEF Booting
<1>16. Holding'
  <2>1. /\ ring' \in DOMAIN memory' /\ memory'[ring'] = memory[ring] /\ boot \in DOMAIN memory'
        /\ memory'[boot] = BootInfo(rights)
    BY <1>4, <1>6, <1>7, <1>9, Zenon DEF Holding
  <2>2. RingNow(memory[ring])'
    BY <1>4, <1>7, <2>1, Zenon DEF Holding, RingNow, Over
  <2>3. ~Over' /\ ~Over
    BY <1>4, <1>7, Zenon DEF Over
  <2>4. rights = IF k = 2 THEN {RIGHT_RECV} ELSE {RIGHT_SEND}
    <3>1. n = 2 \/ n = 3
      BY <1>7
    <3>2. (n = 2 => k = 1) /\ (n = 3 => k = 2)
      BY <1>12
    <3> QED
      BY <1>3, <3>1, <3>2
  <2>5. ASSUME NEW i \in DOMAIN boots'
        PROVE  boots'[i] \in DOMAIN memory' /\ memory'[boots'[i]] = BootNow(i)'
    <3>1. CASE i = k
      BY <1>12, <2>1, <2>3, <2>4, <3>1, Zenon DEF BootNow
    <3>2. CASE i # k
      <4>1. i \in DOMAIN boots /\ boots'[i] = boots[i] /\ boots[i] # boot
        BY <1>11, <1>12, <3>2, Zenon
      <4>2. boots[i] \in DOMAIN memory /\ memory[boots[i]] = BootNow(i)
        BY <1>7, <4>1, Zenon DEF Holding
      <4>3. boots[i] \in DOMAIN memory' /\ memory'[boots[i]] = memory[boots[i]]
        BY <1>4, <4>1, <4>2, Zenon
      <4> QED
        BY <2>3, <4>1, <4>2, <4>3, Zenon DEF BootNow
    <3> QED
      BY <3>1, <3>2, Zenon
  <2> QED
    BY <2>1, <2>2, <2>5, Zenon DEF Holding
<1>17. Authority'
  BY <1>4, <1>7, Zenon DEF Authority, Revocable, Over
<1>18. pc' \in {"clone", "load", "demo"}
  BY <1>6, Zenon
<1> QED
  BY <1>4, <1>7, <1>15, <1>16, <1>17, <1>18, Zenon DEF Going

\* When the courtlets are entered, both find their boot page and the ring.
Sees(i) ==
  /\ Translate(spaces[i + 1], RING_VA) = ring
  /\ Contents(spaces[i + 1], RING_VA) = memory[ring] /\ Contents(spaces[i + 1], BOOT_VA) = BootNow(i)

\* Once the queue is mapped, the page tables lead each courtlet to the frames
\* run_demo and spawn wrote.
LEMMA Seeing ==
  ASSUME PagingInv, Going, pc = "demo", queue = <<>>, NEW i \in 1 .. 2
  PROVE  Sees(i)
<1>1. Booting /\ Holding /\ Len(spaces) = 3 /\ Len(boots) = Len(spaces) - 1
  BY Zenon DEF PagingInv, Control, Going, Booting
<1>2. DOMAIN boots = 1 .. 2
  <2>1. boots \in Seq(Nat) /\ Len(boots) = 3 - 1
    BY <1>1, Zenon DEF Booting
  <2> QED
    BY <2>1
<1>3. i + 1 \in DOMAIN spaces
  <2>1. DOMAIN spaces = 1 .. 3
    BY <1>1, SpacesSeq, Zenon
  <2> QED
    BY <2>1
<1>4. <<BOOT_VA, boots[i]>> \in asked[i + 1] /\ <<RING_VA, ring>> \in asked[i + 1]
  <2>1. DOMAIN queue = {}
    OBVIOUS
  <2> QED
    BY <1>1, <1>2, <2>1, Zenon DEF Booting, Gets
<1>5. \A p \in asked[i + 1] : Walk(tables, spaces[i + 1], p[1]) = p[2]
  BY <1>3, Zenon DEF PagingInv, Mapping, Mapped
<1>6. /\ <<BOOT_VA, boots[i]>>[1] = BOOT_VA /\ <<BOOT_VA, boots[i]>>[2] = boots[i]
      /\ <<RING_VA, ring>>[1] = RING_VA /\ <<RING_VA, ring>>[2] = ring
  BY Zenon
<1>7. Translate(spaces[i + 1], BOOT_VA) = boots[i] /\ Translate(spaces[i + 1], RING_VA) = ring
  BY <1>4, <1>5, <1>6, Zenon DEF Translate
<1>8. ring \in DOMAIN memory /\ boots[i] \in DOMAIN memory /\ memory[boots[i]] = BootNow(i)
  BY <1>1, <1>2, Zenon DEF Holding
<1> QED
  BY <1>7, <1>8, Zenon DEF Sees, Contents

\* The checks of an image: the right in its boot page, and the ring's mark.
LEMMA Checking ==
  ASSUME NEW i \in 1 .. 2, Sees(i), Holding, NEW right
  PROVE  /\ right \in BootNow(i).rights /\ ~Over => Checks(spaces[i + 1], right) = 0
         /\ Over => Checks(spaces[i + 1], right) = ST_DENIED
<1>1. PICK boot, q : boot = BootNow(i) /\ q = memory[ring]
  BY Zenon
<1>2. boot.magic = "boot"
  BY <1>1, Zenon DEF BootNow, BootInfo
<1>3. q.magic = "ring"
  <2>1. PICK S : q \in Rings(S)
    BY <1>1, Zenon DEF Holding, RingNow
  <2> QED
    BY <2>1, Zenon DEF Rings
<1>4. q.revoked <=> Over
  BY <1>1, Zenon DEF Holding, RingNow
<1>5. Contents(spaces[i + 1], BOOT_VA) = boot /\ Contents(spaces[i + 1], RING_VA) = q
  BY <1>1, Zenon DEF Sees
<1> QED
  BY <1>1, <1>2, <1>3, <1>4, <1>5, Zenon DEF Checks

\* A court that was entered changes the ring and nothing else.
LEMMA Stepping ==
  ASSUME Going, pc = "demo", queue = <<>>, UNCHANGED <<pc, queue, spaces, asked, ring, boots, root, caps>>,
         stage' \in {"net", "revoke", "done"}, Over' <=> Over,
         NEW q, memory' = [memory EXCEPT ![ring] = q], RingNow(q)'
  PROVE  Going'
<1>1. Booting /\ Holding /\ Authority
  BY Zenon DEF Going
<1>2. Booting'
  BY <1>1, Zenon DEF Booting, Gets
<1>3. Authority'
  BY <1>1, Zenon DEF Authority, Revocable
<1>4. ring' = ring /\ ring \in DOMAIN memory' /\ memory'[ring] = q
  BY <1>1, Zenon DEF Holding
<1>5. ASSUME NEW i \in DOMAIN boots
      PROVE  boots[i] \in DOMAIN memory' /\ memory'[boots[i]] = BootNow(i)'
  <2>1. boots[i] \in DOMAIN memory /\ memory[boots[i]] = BootNow(i) /\ boots[i] # ring
    BY <1>1, Zenon DEF Holding, Booting
  <2>2. memory'[boots[i]] = memory[boots[i]] /\ boots[i] \in DOMAIN memory'
    BY <2>1, Zenon
  <2> QED
    BY <2>1, <2>2, Zenon DEF BootNow
<1>6. Holding'
  BY <1>4, <1>5, Zenon DEF Holding
<1> QED
  BY <1>2, <1>3, <1>6, Zenon DEF Going

\* Once both courtlets are spawned, their entries are in the lower half.
LowEntries == ~\E i \in 1 .. 2 : images[i].entry \div PAGE >= Half

\* spawn found each entry in a segment, and image::load the segment in the
\* lower half.
LEMMA EntriesLow ==
  ASSUME PagingInv, Placement, pc = "demo"
  PROVE  LowEntries
<1>1. images \in Images /\ Len(spaces) = 3
  BY Zenon DEF PagingInv, Control
<1>2. ASSUME NEW i \in 1 .. 2
      PROVE  ~(images[i].entry \div PAGE >= Half)
  <2>1. i + 1 < 3 \/ i + 1 = 3
    OBVIOUS
  <2>2. images[i].entry \div PAGE < Half
    BY <1>1, <2>1, Zenon DEF Placement, Entered, Spawned
  <2>3. PICK e \in Nat : e = images[i].entry
    BY <1>1, ImageAssumption, Zenon
  <2>4. PICK x \in Nat : x = e \div PAGE
    BY PagingAssumption, SMT
  <2>5. x < Half
    BY <2>2, <2>3, <2>4, Zenon
  <2>6. ~(x >= Half)
    BY <2>5, Layout
  <2> QED
    BY <2>3, <2>4, <2>6, Zenon
<1> QED
  BY <1>2, Zenon DEF LowEntries

\* The app sends.
LEMMA EnteringApp ==
  ASSUME PagingInv, Going, EnterApp, LowEntries
  PROVE  Fine' /\ Going' /\ stage' = "net" /\ UNCHANGED vars
<1>1. PICK q : q = memory[ring]
  BY Zenon
<1>2. /\ Fine /\ queue = <<>> /\ pc = "demo" /\ stage = "app"
      /\ Enter(app_start(spaces[2]), spaces[2], app_start(spaces[2]).status = ST_SENT, "net", "send failed")
  BY Zenon DEF EnterApp, LowEntries, AtStage, Running, Fine
<1>3. Sees(1) /\ spaces[2] = spaces[1 + 1] /\ Holding /\ ~Over
  <2>1. 1 \in 1 .. 2 /\ 1 + 1 = 2
    OBVIOUS
  <2> QED
    BY <1>2, <2>1, Seeing, Zenon DEF Going, Over
<1>4. Checks(spaces[2], RIGHT_SEND) = 0
  <2>1. 1 \in 1 .. 2 /\ 1 # 2
    OBVIOUS
  <2>2. RIGHT_SEND \in BootNow(1).rights
    BY <1>3, <2>1, Zenon DEF BootNow, BootInfo
  <2> QED
    BY <1>3, <2>1, <2>2, Checking, Zenon
<1>5. PICK S : S = [0 .. CAPACITY - 1 -> Nat] /\ q \in Rings(S) /\ q.producer = 0 /\ q.consumer = 0 /\ ~q.revoked
  BY <1>1, <1>2, <1>3, Zenon DEF Holding, RingNow
<1>6. PICK x : x = [q.slots EXCEPT ![0] = PACKET_LEN]
  BY Zenon
<1>7. x \in S /\ x[0] = PACKET_LEN
  <2>1. q.slots \in S /\ PACKET_LEN \in Nat /\ 0 \in 0 .. CAPACITY - 1
    BY <1>5, CapacityAssumption DEF Rings, PACKET_LEN
  <2> QED
    BY <1>5, <1>6, <2>1, Zenon
<1>8. PICK r : r = [q EXCEPT !.slots = x, !.producer = 1]
  BY Zenon
<1>9. r \in Rings(S) /\ r.slots = x /\ r.producer = 1 /\ r.consumer = 0 /\ ~r.revoked
  <2>1. 1 \in Nat
    BY Zenon
  <2> QED
    BY <1>5, <1>7, <1>8, <2>1, Zenon DEF Rings
<1>10. app_start(spaces[2]) = [status |-> ST_SENT, ring |-> r]
  <2>1. ~(q.producer - q.consumer >= CAPACITY) /\ q.producer % CAPACITY = 0 /\ q.producer + 1 = 1
    BY <1>5, CapacityAssumption
  <2>2. [q EXCEPT !.slots[q.producer % CAPACITY] = PACKET_LEN, !.producer = @ + 1] = r
    BY <1>6, <1>8, <2>1, Zenon
  <2>3. Contents(spaces[2], RING_VA) = q
    BY <1>1, <1>3, Zenon DEF Sees
  <2> QED
    BY <1>4, <2>1, <2>2, <2>3, Zenon DEF app_start
<1>11. app_start(spaces[2]).status = ST_SENT /\ app_start(spaces[2]).ring = r
  BY <1>10
<1>12. Translate(spaces[2], RING_VA) = ring /\ ring \in DOMAIN memory
  BY <1>3, Zenon DEF Sees, Holding
<1>13. /\ Fine' /\ stage' = "net" /\ memory' = [memory EXCEPT ![ring] = r]
       /\ UNCHANGED <<machine, images, pc, bump, tables, spaces, queue, item, ring, asked, root, caps, boots>>
  BY <1>2, <1>11, <1>12, Zenon DEF Enter, Fine
<1>14. ~Over'
  BY <1>13, Zenon DEF Over
<1>15. RingNow(r)'
  BY <1>5, <1>7, <1>9, <1>13, <1>14, Zenon DEF RingNow
<1>16. Going'
  BY <1>2, <1>3, <1>13, <1>14, <1>15, Stepping, Zenon
<1>17. UNCHANGED vars
  BY <1>2, <1>13, Zenon DEF vars, Fine
<1> QED
  BY <1>13, <1>16, <1>17, Zenon

\* net receives what the app sent.
LEMMA EnteringNet ==
  ASSUME PagingInv, Going, EnterNet
  PROVE  /\ Fine' /\ Going' /\ stage' = "revoke" /\ UNCHANGED vars
         /\ received' = ST_RECV + 256 * PACKET_LEN
<1>1. PICK q : q = memory[ring]
  BY Zenon
<1>2. /\ Fine /\ queue = <<>> /\ pc = "demo" /\ stage = "net"
      /\ Enter(net_start(spaces[3]), spaces[3], net_start(spaces[3]).status % 256 = ST_RECV, "revoke", "recv failed")
      /\ received' = net_start(spaces[3]).status
  BY Zenon DEF EnterNet, AtStage, Running, Fine
<1>3. Sees(2) /\ spaces[3] = spaces[2 + 1] /\ Holding /\ ~Over
  <2>1. 2 \in 1 .. 2 /\ 2 + 1 = 3
    OBVIOUS
  <2> QED
    BY <1>2, <2>1, Seeing, Zenon DEF Going, Over
<1>4. Checks(spaces[3], RIGHT_RECV) = 0
  <2>1. 2 \in 1 .. 2
    OBVIOUS
  <2>2. RIGHT_RECV \in BootNow(2).rights
    BY <2>1, Zenon DEF BootNow, BootInfo
  <2> QED
    BY <1>3, <2>1, <2>2, Checking, Zenon
<1>5. PICK S : /\ S = [0 .. CAPACITY - 1 -> Nat] /\ q \in Rings(S) /\ ~q.revoked
               /\ q.producer = 1 /\ q.consumer = 0 /\ q.slots[0] = PACKET_LEN
  BY <1>1, <1>2, <1>3, Zenon DEF Holding, RingNow
<1>6. PICK r : r = [q EXCEPT !.consumer = 1]
  BY Zenon
<1>7. r \in Rings(S) /\ r.slots[0] = PACKET_LEN /\ r.producer = 1 /\ r.consumer = 1 /\ ~r.revoked
  <2>1. 1 \in Nat
    BY Zenon
  <2> QED
    BY <1>5, <1>6, <2>1, Zenon DEF Rings
<1>8. net_start(spaces[3]) = [status |-> ST_RECV + 256 * PACKET_LEN, ring |-> r]
  <2>1. q.producer - q.consumer # 0 /\ q.consumer % CAPACITY = 0 /\ q.consumer + 1 = 1 /\ q.producer # q.consumer
    BY <1>5, CapacityAssumption
  <2>2. [q EXCEPT !.consumer = @ + 1] = r
    BY <1>6, <2>1, Zenon
  <2>3. Contents(spaces[3], RING_VA) = q
    BY <1>1, <1>3, Zenon DEF Sees
  <2> QED
    BY <1>4, <1>5, <2>1, <2>2, <2>3, Zenon DEF net_start
<1>9. /\ net_start(spaces[3]).status = ST_RECV + 256 * PACKET_LEN /\ net_start(spaces[3]).ring = r
      /\ net_start(spaces[3]).status % 256 = ST_RECV
  <2>1. (ST_RECV + 256 * PACKET_LEN) % 256 = ST_RECV
    BY DEF ST_RECV, PACKET_LEN
  <2> QED
    BY <1>8, <2>1
<1>10. Translate(spaces[3], RING_VA) = ring /\ ring \in DOMAIN memory
  BY <1>3, Zenon DEF Sees, Holding
<1>11. /\ Fine' /\ stage' = "revoke" /\ memory' = [memory EXCEPT ![ring] = r]
       /\ UNCHANGED <<machine, images, pc, bump, tables, spaces, queue, item, ring, asked, root, caps, boots>>
  BY <1>2, <1>9, <1>10, Zenon DEF Enter, Fine
<1>12. ~Over'
  BY <1>11, Zenon DEF Over
<1>13. RingNow(r)'
  BY <1>5, <1>7, <1>11, <1>12, Zenon DEF RingNow
<1>14. Going'
  BY <1>2, <1>3, <1>11, <1>12, <1>13, Stepping, Zenon
<1>15. UNCHANGED vars
  BY <1>2, <1>11, Zenon DEF vars, Fine
<1> QED
  BY <1>2, <1>9, <1>11, <1>14, <1>15, Zenon

\* After the revocation the app is denied, and leaves the ring as it is.
LEMMA EnteringAgain ==
  ASSUME PagingInv, Going, EnterAppAgain
  PROVE  /\ Fine' /\ Going' /\ stage' = "done" /\ UNCHANGED <<vars, received>>
         /\ memory'[ring] = memory[ring]
<1>1. PICK q : q = memory[ring]
  BY Zenon
<1>2. /\ Fine /\ queue = <<>> /\ pc = "demo" /\ stage = "denied" /\ received' = received
      /\ Enter(app_start(spaces[2]), spaces[2], app_start(spaces[2]).status = ST_DENIED, "done", "did not deny")
  BY Zenon DEF EnterAppAgain, AtStage, Running, Fine
<1>3. Sees(1) /\ spaces[2] = spaces[1 + 1] /\ Holding /\ Over
  <2>1. 1 \in 1 .. 2 /\ 1 + 1 = 2
    OBVIOUS
  <2> QED
    BY <1>2, <2>1, Seeing, Zenon DEF Going, Over
<1>4. Checks(spaces[2], RIGHT_SEND) = ST_DENIED
  <2>1. 1 \in 1 .. 2
    OBVIOUS
  <2> QED
    BY <1>3, <2>1, Checking, Zenon
<1>5. app_start(spaces[2]) = [status |-> ST_DENIED, ring |-> q]
  <2>1. ST_DENIED # 0
    BY DEF ST_DENIED
  <2>2. Contents(spaces[2], RING_VA) = q
    BY <1>1, <1>3, Zenon DEF Sees
  <2> QED
    BY <1>4, <2>1, <2>2, Zenon DEF app_start
<1>6. app_start(spaces[2]).status = ST_DENIED /\ app_start(spaces[2]).ring = q
  BY <1>5
<1>7. Translate(spaces[2], RING_VA) = ring /\ ring \in DOMAIN memory
  BY <1>3, Zenon DEF Sees, Holding
<1>8. /\ Fine' /\ stage' = "done" /\ memory' = [memory EXCEPT ![ring] = q]
      /\ UNCHANGED <<machine, images, pc, bump, tables, spaces, queue, item, ring, asked, root, caps, boots>>
  BY <1>2, <1>6, <1>7, Zenon DEF Enter, Fine
<1>9. Over'
  BY <1>8, Zenon DEF Over
<1>10. RingNow(q)'
  BY <1>1, <1>2, <1>3, <1>8, <1>9, Zenon DEF RingNow, Holding
<1>11. Going'
  BY <1>2, <1>3, <1>8, <1>9, <1>10, Stepping, Zenon
<1>12. UNCHANGED vars
  BY <1>2, <1>8, Zenon DEF vars, Fine
<1> QED
  BY <1>1, <1>2, <1>7, <1>8, <1>11, <1>12, Zenon

\* Revoking empties the capability, its copy in the app's boot page, and marks
\* the ring.
LEMMA Revoking ==
  ASSUME PagingInv, Going, Revoke
  PROVE  Fine' /\ Going' /\ stage' = "denied" /\ UNCHANGED <<vars, received>>
<1>1. /\ Fine /\ queue = <<>> /\ pc = "demo" /\ stage = "revoke"
      /\ UNCHANGED <<machine, images, pc, bump, tables, spaces, queue, item, ring, asked, caps, boots, received>>
  BY Zenon DEF Revoke, AtStage, Running, Fine
<1>2. Booting /\ Holding /\ Authority /\ ~Over
  BY <1>1, Zenon DEF Going, Over
<1>3. revoke_cap(root, caps[1]).ok /\ cap_rights(revoke_cap(root, caps[1]).root, caps[1]) = Some({})
  BY <1>2, Zenon DEF Authority, Revocable
<1>4. PICK new : new = revoke_cap(root, caps[1]).root
  BY Zenon
<1>5. PICK a : a = boots[1]
  BY Zenon
<1>6. /\ root' = new /\ stage' = "denied" /\ Fine'
      /\ memory' = [memory EXCEPT ![a].rights = {}, ![ring].revoked = TRUE]
  <2>1. root' = new /\ cap_rights(root', caps[1]) = Some({})
    BY <1>3, <1>4, Zenon DEF Revoke
  <2> QED
    BY <1>1, <1>3, <1>5, <2>1, Zenon DEF Revoke, Fine
<1>7. 1 \in DOMAIN boots /\ 1 # 2 /\ \A i \in DOMAIN boots : i = 1 \/ i = 2
  <2>1. boots \in Seq(Nat) /\ Len(boots) = Len(spaces) - 1 /\ Len(spaces) = 3
    BY <1>1, <1>2, Zenon DEF Booting, PagingInv, Control
  <2> QED
    BY <2>1
<1>8. a \in DOMAIN memory /\ memory[a] = BootInfo({RIGHT_SEND}) /\ a # ring /\ ring \in DOMAIN memory
  BY <1>2, <1>5, <1>7, Zenon DEF Booting, Holding, BootNow
<1>9. PICK q, r : q = memory[ring] /\ r = [q EXCEPT !.revoked = TRUE]
  BY Zenon
<1>10. PICK b : b = [memory[a] EXCEPT !.rights = {}]
  BY Zenon
<1>11. b = BootInfo({})
  BY <1>8, <1>10 DEF BootInfo
<1>12. /\ DOMAIN memory' = DOMAIN memory /\ memory'[a] = b /\ memory'[ring] = r
       /\ \A f \in DOMAIN memory : f # a /\ f # ring => memory'[f] = memory[f]
  BY <1>6, <1>8, <1>9, <1>10, Zenon
<1>13. Over'
  BY <1>6, Zenon DEF Over
<1>14. RingNow(r)'
  <2>1. PICK S : /\ S = [0 .. CAPACITY - 1 -> Nat] /\ q \in Rings(S)
                 /\ q.producer = 1 /\ q.consumer = 1 /\ q.slots[0] = PACKET_LEN
    BY <1>1, <1>2, <1>9, Zenon DEF Holding, RingNow
  <2>2. r \in Rings(S) /\ r.slots[0] = PACKET_LEN /\ r.producer = 1 /\ r.consumer = 1 /\ r.revoked
    BY <1>9, <2>1, Zenon DEF Rings
  <2> QED
    BY <1>6, <1>13, <2>1, <2>2, Zenon DEF RingNow
<1>15. Holding'
  <2>1. ring' = ring /\ ring \in DOMAIN memory' /\ memory'[ring] = r
    BY <1>1, <1>8, <1>12, Zenon
  <2>2. ASSUME NEW i \in DOMAIN boots'
        PROVE  boots'[i] \in DOMAIN memory' /\ memory'[boots'[i]] = BootNow(i)'
    <3>1. boots' = boots /\ boots[i] \in DOMAIN memory
      BY <1>1, <1>2, <2>2, Zenon DEF Holding
    <3>2. CASE i = 1
      BY <1>5, <1>7, <1>11, <1>12, <1>13, <3>1, <3>2, Zenon DEF BootNow
    <3>3. CASE i = 2
      <4>1. boots[2] # a /\ boots[2] # ring /\ memory[boots[2]] = BootNow(2)
        BY <1>2, <1>5, <1>7, <2>2, <3>1, <3>3, Zenon DEF Booting, Holding
      <4> QED
        BY <1>12, <3>1, <3>3, <4>1, Zenon DEF BootNow
    <3> QED
      BY <1>7, <2>2, <3>1, <3>2, <3>3, Zenon
  <2> QED
    BY <1>14, <2>1, <2>2, Zenon DEF Holding
<1>16. Booting'
  BY <1>1, <1>2, Zenon DEF Booting, Gets
<1>17. Authority'
  BY <1>1, <1>2, <1>3, <1>4, <1>6, <1>13, Zenon DEF Authority
<1>18. Going'
  BY <1>1, <1>6, <1>15, <1>16, <1>17, Zenon DEF Going
<1>19. UNCHANGED vars
  BY <1>1, <1>6, Zenon DEF vars, Fine
<1> QED
  BY <1>1, <1>6, <1>18, <1>19, Zenon

\* At first no courtlet is there and nothing was sent.
LEMMA DemoInitInv == DemoInit => DemoInv
<1> SUFFICES ASSUME DemoInit PROVE DemoInv
  BY Zenon
<1>1. Init /\ stage = "app" /\ received = 0 /\ caps = <<>> /\ boots = <<>> /\ memory = [f \in {} |-> NewRing]
      /\ root = bootstrap(NewRoot).root
  BY Zenon DEF DemoInit
<1>2. PagingInv /\ Placement
  BY <1>1, InitInv, PlacementInit, Zenon
<1>3. pc = "memmap" /\ Fine
  BY <1>1, Zenon DEF Init, Fine
<1>4. Going
  BY <1>1, <1>3, Zenon DEF Going
<1>5. DemoNeverFails
  BY <1>3, Zenon DEF DemoNeverFails, Fine
<1>6. PacketArrives
  BY <1>1, Zenon DEF PacketArrives
<1> QED
  BY <1>2, <1>4, <1>5, <1>6, Zenon DEF DemoInv

\* After an error the program stands still.
LEMMA Stands ==
  ASSUME ~Fine, DemoNext
  PROVE  UNCHANGED demo_vars
BY Zenon DEF Fine, DemoNext, DemoHalted, from_memmap, build, build_entry, map_range, activate,
   clone_kernel, load, Register, run_demo, WriteBoot, spawn, EnterApp, EnterNet, Revoke,
   EnterAppAgain, AtStage, Running

\* A step of the bring-up that fails leaves something to be mapped, or has not
\* come to the demo.
LEMMA FailsEarly ==
  ASSUME from_memmap \/ build \/ build_entry \/ map_range \/ activate \/ clone_kernel \/ load \/ run_demo
           \/ spawn,
         pc' = "demo", queue' = <<>>
  PROVE  Fine'
<1>1. CASE map_range
  BY <1>1, Zenon DEF map_range, Fine
<1>2. CASE from_memmap \/ build \/ build_entry \/ activate
  BY <1>2, Zenon DEF from_memmap, build, build_entry, activate, Running, Fail, Fine
<1>3. CASE clone_kernel \/ load \/ run_demo
  BY <1>3, Zenon DEF clone_kernel, load, run_demo, Running, Fail, Fine
<1>4. CASE spawn
  BY <1>4, Zenon DEF spawn, Running, Fail, Fine
<1> QED
  BY <1>1, <1>2, <1>3, <1>4, Zenon

\* A step of the bring-up, with what the demo adds to it.
LEMMA BringupStep ==
  ASSUME PagingInv, Placement, Going, PacketArrives,
         \/ (from_memmap \/ build \/ build_entry \/ map_range \/ activate \/ clone_kernel \/ load) /\ UNCHANGED demo
         \/ Register \/ WriteBoot
  PROVE  DemoInv'
<1>1. UNCHANGED <<stage, received>>
  BY Zenon DEF Register, WriteBoot, demo
<1>2. PacketArrives'
  BY <1>1, Zenon DEF PacketArrives
<1>3. from_memmap \/ build \/ build_entry \/ map_range \/ activate \/ clone_kernel \/ load \/ run_demo \/ spawn
  BY RoomToRegister, Zenon DEF WriteBoot
<1>4. PagingInv'
  BY <1>3, NextInv, Zenon DEF Next
<1>5. Placement'
  BY <1>3, <1>4, PlacementNext, Zenon DEF Next
<1>6. DemoNeverFails'
  <2>1. error' # "tables"
    BY <1>4, Zenon DEF PagingInv, Control, ErrorOK
  <2>2. pc' = "demo" /\ queue' = <<>> => error' = ""
    BY <1>3, FailsEarly, Zenon DEF Fine
  <2> QED
    BY <2>1, <2>2, Zenon DEF DemoNeverFails
<1>7. Fine' => Going'
  BY DuringBringup, Registering, WritingBoot, Zenon
<1> QED
  BY <1>2, <1>4, <1>5, <1>6, <1>7, Zenon DEF DemoInv

\* A step that enters a courtlet or revokes.
LEMMA EnterStep ==
  ASSUME PagingInv, Placement, Going, PacketArrives, EnterApp \/ EnterNet \/ Revoke \/ EnterAppAgain
  PROVE  DemoInv'
<1>1. LowEntries
  <2>1. pc = "demo"
    BY Zenon DEF EnterApp, EnterNet, Revoke, EnterAppAgain, AtStage
  <2> QED
    BY <2>1, EntriesLow, Zenon
<1>2. Fine' /\ Going' /\ UNCHANGED vars
  BY <1>1, EnteringApp, EnteringNet, Revoking, EnteringAgain, Zenon
<1>3. PacketArrives'
  <2>1. CASE EnterApp
    BY <1>1, <2>1, EnteringApp, Zenon DEF EnterApp, PacketArrives
  <2>2. CASE EnterNet
    <3>1. ST_RECV + 256 * PACKET_LEN # 0
      BY DEF ST_RECV, PACKET_LEN
    <3> QED
      BY <2>2, <3>1, EnteringNet, Zenon DEF PacketArrives
  <2>3. CASE Revoke
    <3>1. stage = "revoke"
      BY <2>3, Zenon DEF Revoke, AtStage
    <3> QED
      BY <2>3, <3>1, Revoking, Zenon DEF PacketArrives
  <2>4. CASE EnterAppAgain
    <3>1. stage = "denied"
      BY <2>4, Zenon DEF EnterAppAgain, AtStage
    <3> QED
      BY <2>4, <3>1, EnteringAgain, Zenon DEF PacketArrives
  <2> QED
    BY <2>1, <2>2, <2>3, <2>4, Zenon
<1>4. PagingInv'
  BY <1>2, NextInv, Zenon
<1>5. Placement'
  BY <1>2, <1>4, PlacementNext, Zenon
<1>6. DemoNeverFails'
  BY <1>2, Zenon DEF DemoNeverFails, Fine
<1> QED
  BY <1>2, <1>3, <1>4, <1>5, <1>6, Zenon DEF DemoInv

\* Every step of the demo keeps the invariant.
LEMMA DemoNextInv == DemoInv /\ [DemoNext]_demo_vars => DemoInv'
<1> SUFFICES ASSUME DemoInv, [DemoNext]_demo_vars PROVE DemoInv'
  BY Zenon
<1>1. CASE UNCHANGED demo_vars
  <2>1. UNCHANGED vars /\ UNCHANGED <<root, caps, boots, memory, stage, received>>
    BY <1>1, Zenon DEF demo_vars, demo
  <2>2. UNCHANGED <<machine, images, pc, bump, tables, spaces, queue, item, ring, asked, error>>
    BY <2>1, Zenon DEF vars
  <2>3. Fine' => PagingInv' /\ Placement'
    <3>1. Fine' => PagingInv /\ Placement /\ PagingInv'
      BY <2>1, <2>2, NextInv, Zenon DEF DemoInv, Fine
    <3> QED
      BY <2>1, <3>1, PlacementNext, Zenon
  <2>4. Fine' => Going'
    <3>1. Booting => Booting'
      BY <2>1, <2>2, Zenon DEF Booting, Gets
    <3>2. Holding => Holding'
      BY <2>1, <2>2, Zenon DEF Holding, RingNow, BootNow, Over
    <3>3. Authority => Authority'
      BY <2>1, <2>2, Zenon DEF Authority, Revocable, Over
    <3> QED
      BY <2>1, <2>2, <3>1, <3>2, <3>3, Zenon DEF Going, DemoInv, Fine
  <2> QED
    BY <2>1, <2>2, <2>3, <2>4, Zenon DEF DemoInv, DemoNeverFails, PacketArrives
<1>2. CASE Fine /\ DemoNext /\ ~DemoHalted
  BY <1>2, BringupStep, EnterStep, Zenon DEF DemoInv, DemoNext
<1>3. CASE DemoHalted
  BY <1>1, <1>3, Zenon DEF DemoHalted
<1> QED
  BY <1>1, <1>2, <1>3, Stands, Zenon

\* The inductive invariant of the demo holds throughout.
LEMMA DemoInvariant == DemoSpec => []DemoInv
<1> QED
  BY DemoInitInv, DemoNextInv, PTL DEF DemoSpec

\* DemoNeverFails holds: with any memory map and any pair of images, run_demo
\* fails only while the courtlets are brought up, and not for its tables.
THEOREM NeverFails == DemoSpec => []DemoNeverFails
<1>1. DemoInv => DemoNeverFails
  BY Zenon DEF DemoInv
<1> QED
  BY <1>1, DemoInvariant, PTL

\* PacketArrives holds: the packet of the app's image is the one that of net
\* finds, each looking through its own page table.
THEOREM Arrives == DemoSpec => []PacketArrives
<1>1. DemoInv => PacketArrives
  BY Zenon DEF DemoInv
<1> QED
  BY <1>1, DemoInvariant, PTL

\* NothingSentAfterRevoke holds: once cap_rights of the app's capability are
\* empty, so are those in its boot page, and the app's image leaves the ring.
THEOREM NothingSent == DemoSpec => NothingSentAfterRevoke
<1>1. ASSUME DemoInv, DemoNext, ~UNCHANGED demo_vars, caps # <<>>, cap_rights(root, caps[1]) = Some({})
      PROVE  /\ memory'[ring].producer = memory[ring].producer
             /\ Contents(spaces[2], BOOT_VA).rights = {}
  <2>1. CASE Fine
    <3>1. PagingInv /\ Going
      BY <1>1, <2>1, Zenon DEF DemoInv
    <3>2. Over
      BY <1>1, <3>1, Zenon DEF Going, Authority
    <3>3. pc = "demo" /\ queue = <<>>
      BY <3>1, <3>2, Zenon DEF Going, Over
    <3>4. EnterAppAgain
      BY <1>1, <3>2, <3>3, Zenon DEF DemoNext, Over, from_memmap, build, build_entry, map_range,
         activate, clone_kernel, load, Register, run_demo, WriteBoot, spawn, EnterApp, EnterNet,
         Revoke, AtStage, DemoHalted
    <3>5. memory'[ring] = memory[ring]
      BY <3>1, <3>4, EnteringAgain, Zenon
    <3>6. 1 \in 1 .. 2 /\ 1 + 1 = 2 /\ 1 # 2
      OBVIOUS
    <3>7. Contents(spaces[2], BOOT_VA) = BootNow(1)
      BY <3>1, <3>3, <3>6, Seeing, Zenon DEF Sees
    <3>8. BootNow(1).rights = {}
      BY <3>2, <3>6, Zenon DEF BootNow, BootInfo
    <3> QED
      BY <3>5, <3>7, <3>8, Zenon
  <2> QED
    BY <1>1, <2>1, Stands, Zenon
<1>2. DemoInv /\ [DemoNext]_demo_vars
      => [caps # <<>> /\ cap_rights(root, caps[1]) = Some({})
            => /\ memory'[ring].producer = memory[ring].producer
               /\ Contents(spaces[2], BOOT_VA).rights = {}]_demo_vars
  BY <1>1, Zenon
<1> QED
  BY <1>2, DemoInvariant, PTL DEF DemoSpec, NothingSentAfterRevoke
=============================================================================

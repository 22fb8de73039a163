-------------------------- MODULE CapabilityProofs --------------------------
(***************************************************************************)
(* Proofs about the two keepers of capabilities: the registry of the       *)
(* hosted root (CapRegistry), for every set of objects and rights and      *)
(* every bound on their number, and the tables of the bare-metal Root      *)
(* Court (RootObjects), of any size.                                       *)
(***************************************************************************)
EXTENDS CapRegistry, RootObjects, TLAPS

\* What is left of the worklist when its last element is popped.
LEMMA FrontProperties ==
  ASSUME NEW S, NEW s \in Seq(S), s # <<>>,
         NEW front, front = SubSeq(s, 1, Len(s) - 1)
  PROVE  /\ front \in Seq(S)
         /\ Len(s) \in Nat /\ Len(s) > 0
         /\ Len(front) = Len(s) - 1
         /\ \A i \in 1 .. Len(s) - 1 : front[i] = s[i]
<1>1. Len(s) \in Nat /\ Len(s) > 0
  OBVIOUS
<1>2. \A i \in 1 .. Len(s) - 1 : s[i] \in S
  BY <1>1
<1>3. /\ front \in Seq(S)
      /\ Len(front) = IF 1 <= Len(s) - 1 THEN Len(s) - 1 - 1 + 1 ELSE 0
      /\ \A i \in 1 .. Len(s) - 1 - 1 + 1 : front[i] = s[1 + i - 1]
  <2>1. 1 \in Int /\ Len(s) - 1 \in Int
    BY <1>1
  <2> QED
    BY <1>2, <2>1
<1>4. Len(front) = Len(s) - 1
  <2>1. CASE 1 <= Len(s) - 1
    <3>1. Len(front) = Len(s) - 1 - 1 + 1
      BY <1>3, <2>1, Zenon
    <3> QED
      BY <1>1, <3>1
  <2>2. CASE ~(1 <= Len(s) - 1)
    <3>1. Len(front) = 0
      BY <1>3, <2>2, Zenon
    <3>2. \A n \in Nat : n > 0 /\ ~(1 <= n - 1) => n - 1 = 0
      OBVIOUS
    <3> QED
      BY <1>1, <2>2, <3>1, <3>2, Zenon
  <2> QED
    BY <2>1, <2>2, Zenon
<1>5. ASSUME NEW i \in 1 .. Len(s) - 1
      PROVE  front[i] = s[i]
  <2>1. i \in 1 .. Len(s) - 1 - 1 + 1 /\ 1 + i - 1 = i
    BY <1>1
  <2>2. front[i] = s[1 + i - 1]
    BY <1>3, <2>1, Zenon
  <2> QED
    BY <2>1, <2>2, Zenon
<1> QED
  BY <1>1, <1>3, <1>4, <1>5, Zenon

\* Two sequences one after the other: the length and the elements of the result.
LEMMA Joined ==
  ASSUME NEW S, NEW s \in Seq(S), NEW t \in Seq(S)
  PROVE  /\ s \o t \in Seq(S)
         /\ Len(s \o t) = Len(s) + Len(t)
         /\ \A i \in 1 .. Len(s) + Len(t) :
              (s \o t)[i] = IF i <= Len(s) THEN s[i] ELSE t[i - Len(s)]
<1>1. s \o t \in Seq(S)
  OBVIOUS
<1>2. Len(s \o t) = Len(s) + Len(t)
  OBVIOUS
<1>3. \A i \in 1 .. Len(s) + Len(t) :
        (s \o t)[i] = IF i <= Len(s) THEN s[i] ELSE t[i - Len(s)]
  OBVIOUS
<1>4. QED
  BY <1>1, <1>2, <1>3, Zenon

\* A sequence with one more element.
LEMMA Appended ==
  ASSUME NEW S, NEW s \in Seq(S), NEW e \in S
  PROVE  Append(s, e) \in Seq(S) /\ Len(Append(s, e)) = Len(s) + 1
OBVIOUS

\* Popping the last element of a worklist s and pushing a sequence t: the
\* elements of the result are those of s, but for the popped one, and of t.
LEMMA PopThenPush ==
  ASSUME NEW S, NEW s \in Seq(S), s # <<>>, NEW t \in Seq(S),
         NEW r, r = PopAndExtend(s, t)
  PROVE  /\ s[Len(s)] \in S
         /\ r \in Seq(S)
         /\ s[Len(s)] \in Elements(s)
         /\ Elements(s) \subseteq Elements(r) \cup {s[Len(s)]}
         /\ Elements(t) \subseteq Elements(r)
         /\ Elements(r) \subseteq Elements(s) \cup Elements(t)
<1> DEFINE front == SubSeq(s, 1, Len(s) - 1)
<1>0. r = front \o t
  BY Zenon DEF PopAndExtend
<1>1. Len(s) \in Nat /\ Len(s) > 0 /\ Len(t) \in Nat
  OBVIOUS
<1>2. \A i \in 1 .. Len(s) : s[i] \in S
  OBVIOUS
<1>3. /\ front \in Seq(S)
      /\ Len(front) = Len(s) - 1
      /\ \A i \in 1 .. Len(s) - 1 : front[i] = s[i]
  BY FrontProperties, Zenon
<1> HIDE DEF front
<1>4. /\ r \in Seq(S)
      /\ Len(r) = Len(front) + Len(t)
      /\ \A i \in 1 .. Len(front) + Len(t) :
           r[i] = IF i <= Len(front) THEN front[i] ELSE t[i - Len(front)]
  <2>1. /\ front \o t \in Seq(S)
        /\ Len(front \o t) = Len(front) + Len(t)
        /\ \A i \in 1 .. Len(front) + Len(t) :
             (front \o t)[i] = IF i <= Len(front) THEN front[i] ELSE t[i - Len(front)]
    BY <1>3, Joined, Zenon
  <2> QED
    BY <1>0, <2>1, Zenon
<1>5. ASSUME NEW i \in 1 .. Len(s), s[i] # s[Len(s)]
      PROVE  \E k \in 1 .. Len(r) : r[k] = s[i]
  <2>1. i # Len(s)
    BY <1>5, Zenon
  <2>2. /\ i \in 1 .. Len(s) - 1 /\ i \in 1 .. Len(front) + Len(t)
        /\ i <= Len(front) /\ i \in 1 .. Len(r)
    BY <1>1, <1>3, <1>4, <2>1
  <2>3. r[i] = s[i]
    BY <1>3, <1>4, <2>2, Zenon
  <2> QED
    BY <2>2, <2>3, Zenon
<1>6. ASSUME NEW i \in 1 .. Len(t)
      PROVE  \E k \in 1 .. Len(r) : r[k] = t[i]
  <2> DEFINE k == Len(front) + i
  <2>1. k \in 1 .. Len(front) + Len(t) /\ ~(k <= Len(front)) /\ k - Len(front) = i
    BY <1>1, <1>3
  <2>2. r[k] = t[k - Len(front)]
    BY <1>4, <2>1, Zenon
  <2> QED
    BY <1>4, <2>1, <2>2, Zenon
<1>7. ASSUME NEW k \in 1 .. Len(r)
      PROVE  \/ \E i \in 1 .. Len(s) - 1 : r[k] = s[i]
             \/ \E i \in 1 .. Len(t) : r[k] = t[i]
  <2>1. CASE k <= Len(front)
    <3>1. k \in 1 .. Len(s) - 1 /\ r[k] = s[k]
      BY <1>1, <1>3, <1>4, <2>1
    <3> QED
      BY <3>1, Zenon
  <2>2. CASE ~(k <= Len(front))
    <3>1. k - Len(front) \in 1 .. Len(t) /\ r[k] = t[k - Len(front)]
      BY <1>1, <1>3, <1>4, <2>2
    <3> QED
      BY <3>1, Zenon
  <2> QED
    BY <2>1, <2>2, Zenon
<1>8. Len(s) \in 1 .. Len(s)
  BY <1>1
<1>9. s[Len(s)] \in S /\ s[Len(s)] \in Elements(s)
  BY <1>2, <1>8, Zenon DEF Elements
<1>10. 1 .. Len(s) - 1 \subseteq 1 .. Len(s)
  BY <1>1
<1>11. ASSUME NEW e \in Elements(s), e # s[Len(s)]
       PROVE  e \in Elements(r)
  <2>1. PICK i \in 1 .. Len(s) : e = s[i]
    BY <1>11, Zenon DEF Elements
  <2> QED
    BY <1>5, <1>11, <2>1, Zenon DEF Elements
<1>12. ASSUME NEW e \in Elements(t)
       PROVE  e \in Elements(r)
  BY <1>6, <1>12, Zenon DEF Elements
<1>13. ASSUME NEW e \in Elements(r)
       PROVE  e \in Elements(s) \cup Elements(t)
  BY <1>7, <1>10, <1>13, Zenon DEF Elements
<1> QED
  BY <1>4, <1>9, <1>11, <1>12, <1>13, Zenon

\* The empty registry satisfies the invariant.
LEMMA InitRegistryInv == Init => RegistryInv
<1> SUFFICES ASSUME Init
             PROVE  RegistryInv
  BY Zenon
<1>1. Allocated = {}
  BY DEF Init, Allocated
<1>2. TypeOK
  <2>1. next_cap \in 0 .. MaxCap
    BY CapsAssumption DEF Init
  <2>2. caps \in [Allocated -> Capability] /\ children \in [Allocated -> Seq(Allocated)]
    BY <1>1, Zenon DEF Init
  <2>3. stack \in Seq(Allocated)
    BY DEF Init
  <2> QED
    BY <2>1, <2>2, <2>3, Zenon DEF TypeOK
<1> QED
  BY <1>1, <1>2, Zenon DEF RegistryInv, TreeConsistent, PendingCoversLive, Attenuated

\* The consequences of the invariant that the proofs below use.
LEMMA RegistryFacts ==
  ASSUME RegistryInv
  PROVE  /\ next_cap \in Nat /\ MaxCap \in Nat /\ next_cap <= MaxCap
         /\ DOMAIN caps = Allocated /\ DOMAIN children = Allocated
         /\ stack \in Seq(Allocated)
         /\ \A c \in Allocated :
              /\ caps[c] \in Capability
              /\ children[c] \in Seq(Allocated)
              /\ caps[c].parent \in Nat /\ caps[c].parent < c
              /\ caps[c].parent # NoCap => caps[c].parent \in Allocated
         /\ \A p \in Allocated : ChildSet(p) \subseteq Allocated
         /\ NoCap \notin Allocated
<1>1. /\ next_cap \in Nat /\ MaxCap \in Nat /\ next_cap <= MaxCap
      /\ DOMAIN caps = Allocated /\ DOMAIN children = Allocated
      /\ stack \in Seq(Allocated)
  BY CapsAssumption DEF RegistryInv, TypeOK
<1>2. \A c \in Allocated : caps[c] \in Capability /\ children[c] \in Seq(Allocated)
  BY Zenon DEF RegistryInv, TypeOK
<1>3. ASSUME NEW p \in Allocated
      PROVE  ChildSet(p) \subseteq Allocated
  BY <1>2 DEF ChildSet, Elements
<1>4. ASSUME NEW c \in Allocated
      PROVE  /\ caps[c].parent \in Nat /\ caps[c].parent < c
             /\ caps[c].parent # NoCap => caps[c].parent \in Allocated
  <2>1. caps[c].parent \in {NoCap} \cup CapIds
    BY <1>2, Zenon DEF Capability
  <2>2. caps[c].parent < c
    BY Zenon DEF RegistryInv, TreeConsistent
  <2> QED
    BY <1>1, <2>1, <2>2 DEF NoCap, CapIds, Allocated
<1>5. NoCap \notin Allocated
  BY DEF NoCap, Allocated
<1> QED
  BY <1>1, <1>2, <1>3, <1>4, <1>5, Zenon

\* alloc_cap hands out an id that is not in use, and the ids in use stay so.
LEMMA FreshId ==
  ASSUME RegistryInv, next_cap < MaxCap, next_cap' = next_cap + 1
  PROVE  /\ Allocated' = 1 .. next_cap + 1
         /\ Allocated' = Allocated \cup {next_cap + 1}
         /\ next_cap + 1 \notin Allocated
         /\ next_cap' \in 0 .. MaxCap
         /\ \A s \in Seq(Allocated) : s \in Seq(Allocated')
         /\ NoCap \notin Allocated'
<1>1. Allocated' = 1 .. next_cap + 1
  BY Zenon DEF Allocated
<1>2. /\ Allocated' = Allocated \cup {next_cap + 1} /\ next_cap + 1 \notin Allocated
      /\ next_cap' \in 0 .. MaxCap
  BY <1>1, RegistryFacts DEF Allocated
<1>3. NoCap \notin Allocated'
  BY <1>1 DEF NoCap
<1> QED
  BY <1>1, <1>2, <1>3

\* A capability k with a fresh id is inserted: live, and either a root or an
\* attenuated child of a live capability, under which it is listed.
Inserts(new, k) ==
  /\ Idle /\ UNCHANGED stack
  /\ new = next_cap + 1 /\ next_cap < MaxCap /\ next_cap' = new
  /\ caps' = [c \in 1 .. new |-> IF c = new THEN k ELSE caps[c]]
  /\ children' \in [1 .. new -> Seq(Allocated')]
  /\ \A p \in Allocated' : ChildSet(p)' =
       IF p = new THEN {}
       ELSE IF p = k.parent THEN ChildSet(p) \cup {new} ELSE ChildSet(p)
  /\ k.parent # NoCap =>
       /\ k.parent \in Allocated
       /\ ~caps[k.parent].revoked
       /\ caps[k.parent].object = k.object
       /\ k.rights \subseteq caps[k.parent].rights

\* What such an insertion, by mint_root or delegate, leaves of the invariant:
\* everything.
LEMMA InsertPreservesInv ==
  ASSUME RegistryInv, NEW new, NEW k \in Capability, Inserts(new, k)
  PROVE  RegistryInv'
<1>1. Idle /\ UNCHANGED stack
  BY Zenon DEF Inserts
<1>2. new = next_cap + 1 /\ next_cap < MaxCap /\ next_cap' = new
  BY Zenon DEF Inserts
<1>3. /\ caps' = [c \in 1 .. new |-> IF c = new THEN k ELSE caps[c]]
      /\ children' \in [1 .. new -> Seq(Allocated')]
  BY Zenon DEF Inserts
<1>4. \A p \in Allocated' : ChildSet(p)' =
        IF p = new THEN {}
        ELSE IF p = k.parent THEN ChildSet(p) \cup {new} ELSE ChildSet(p)
  BY Zenon DEF Inserts
<1>5. k.parent # NoCap =>
        /\ k.parent \in Allocated /\ ~caps[k.parent].revoked
        /\ caps[k.parent].object = k.object
        /\ k.rights \subseteq caps[k.parent].rights
  BY Zenon DEF Inserts
<1>6. /\ Allocated' = 1 .. new /\ Allocated' = Allocated \cup {new}
      /\ new \notin Allocated /\ NoCap \notin Allocated'
      /\ next_cap' \in 0 .. MaxCap
  BY <1>2, FreshId, Zenon
<1>7. /\ caps'[new] = k
      /\ \A c \in Allocated : caps'[c] = caps[c]
  BY <1>3, <1>6, Zenon
<1>8. stack = <<>> /\ stack' = <<>> /\ Pending = {}
  BY <1>1 DEF Idle, Pending, Elements
<1>9. TypeOK'
  <2>1. caps' \in [Allocated' -> Capability]
    BY <1>3, <1>6, <1>7, RegistryFacts, Zenon
  <2>2. stack' \in Seq(Allocated')
    BY <1>8
  <2> QED
    BY <1>3, <1>6, <2>1, <2>2, Zenon DEF TypeOK
<1>10. k.parent \in Nat /\ k.parent < new
  <2>1. CASE k.parent = NoCap
    BY <1>2, <2>1, RegistryFacts DEF NoCap
  <2>2. CASE k.parent # NoCap
    BY <1>2, <1>5, <2>2, RegistryFacts DEF Allocated
  <2> QED
    BY <2>1, <2>2, Zenon
<1>11. TreeConsistent'
  <2>1. ASSUME NEW c \in Allocated'
        PROVE  caps'[c].parent \in Nat /\ caps'[c].parent < c
    <3>1. CASE c = new
      BY <1>7, <1>10, <3>1, Zenon
    <3>2. CASE c \in Allocated
      BY <1>7, <3>2, RegistryFacts, Zenon
    <3> QED
      BY <1>6, <3>1, <3>2, Zenon
  <2>2. ASSUME NEW p \in Allocated', NEW c \in Allocated'
        PROVE  caps'[c].parent = p <=> c \in ChildSet(p)'
    <3>1. CASE p = new
      <4>1. caps'[c].parent # new
        <5>1. c \in Nat /\ c <= new /\ new \in Nat
          BY <1>2, <1>6, RegistryFacts
        <5> QED
          BY <2>1, <5>1
      <4> QED
        BY <1>4, <3>1, <4>1, Zenon
    <3>2. CASE p # new /\ c = new
      <4>1. p \in Allocated /\ c \notin ChildSet(p)
        BY <1>6, <3>2, RegistryFacts, Zenon
      <4> QED
        BY <1>4, <1>7, <3>2, <4>1, Zenon
    <3>3. CASE p # new /\ c # new
      <4>1. p \in Allocated /\ c \in Allocated
        BY <1>6, <3>3, Zenon
      <4>2. caps[c].parent = p <=> c \in ChildSet(p)
        BY <4>1, Zenon DEF RegistryInv, TreeConsistent
      <4> QED
        BY <1>4, <1>7, <3>3, <4>1, <4>2, Zenon
    <3> QED
      BY <3>1, <3>2, <3>3, Zenon
  <2> QED
    BY <2>1, <2>2, Zenon DEF TreeConsistent
<1>12. ASSUME NEW c \in Allocated', caps'[c].parent # NoCap
       PROVE  /\ caps'[caps'[c].parent].revoked => caps'[c].revoked
              /\ caps'[caps'[c].parent].object = caps'[c].object
              /\ caps'[c].rights \subseteq caps'[caps'[c].parent].rights
  <2>1. CASE c = new
    <3>1. caps'[c] = k /\ k.parent # NoCap
      BY <1>7, <1>12, <2>1, Zenon
    <3>2. caps'[k.parent] = caps[k.parent]
      BY <1>5, <1>7, <3>1, Zenon
    <3> QED
      BY <1>5, <3>1, <3>2, Zenon
  <2>2. CASE c \in Allocated
    <3>1. caps'[c] = caps[c] /\ caps[c].parent # NoCap
      BY <1>7, <1>12, <2>2, Zenon
    <3>2. caps[c].parent \in Allocated
      BY <2>2, <3>1, RegistryFacts, Zenon
    <3>3. caps'[caps[c].parent] = caps[caps[c].parent]
      BY <1>7, <3>2, Zenon
    <3>4. c \notin Pending
      BY <1>8, Zenon
    <3>5. /\ caps[caps[c].parent].revoked => caps[c].revoked
          /\ caps[caps[c].parent].object = caps[c].object
          /\ caps[c].rights \subseteq caps[caps[c].parent].rights
      BY <2>2, <3>1, <3>4, Zenon DEF RegistryInv, PendingCoversLive, Attenuated
    <3> QED
      BY <3>1, <3>3, <3>5, Zenon
  <2> QED
    BY <1>6, <2>1, <2>2, Zenon
<1>13. PendingCoversLive' /\ Attenuated'
  BY <1>12, Zenon DEF PendingCoversLive, Attenuated
<1> QED
  BY <1>9, <1>11, <1>13, Zenon DEF RegistryInv

\* mint_root adds a capability without a parent.
LEMMA MintPreservesInv ==
  ASSUME RegistryInv, NEW object \in Objects, NEW rights \in SUBSET AllRights,
         mint_root(object, rights)
  PROVE  RegistryInv'
<1> DEFINE k == RootCap(object, rights)
<1>1. k \in Capability /\ k.parent = NoCap
  BY Zenon DEF RootCap, Capability
<1>2. /\ Allocated' = 1 .. next_cap + 1 /\ Allocated' = Allocated \cup {next_cap + 1}
      /\ next_cap + 1 \notin Allocated /\ NoCap \notin Allocated'
      /\ \A s \in Seq(Allocated) : s \in Seq(Allocated')
  BY FreshId, Zenon DEF mint_root
<1>3. /\ children' = [c \in 1 .. next_cap + 1 |->
                        IF c = next_cap + 1 THEN <<>> ELSE children[c]]
      /\ <<>> \in Seq(Allocated')
  BY DEF mint_root
<1>4. children' \in [1 .. next_cap + 1 -> Seq(Allocated')]
  <2>1. \A c \in Allocated : children[c] \in Seq(Allocated')
    BY <1>2, RegistryFacts, Zenon
  <2>2. ASSUME NEW c \in 1 .. next_cap + 1
        PROVE  (IF c = next_cap + 1 THEN <<>> ELSE children[c]) \in Seq(Allocated')
    BY <1>2, <1>3, <2>1, Zenon
  <2> QED
    BY <1>3, <2>2, Zenon
<1>5. ASSUME NEW p \in Allocated'
      PROVE  ChildSet(p)' = IF p = next_cap + 1 THEN {} ELSE ChildSet(p)
  BY <1>2, <1>3 DEF ChildSet, Elements
<1>6. /\ Idle /\ UNCHANGED stack /\ next_cap < MaxCap /\ next_cap' = next_cap + 1
      /\ caps' = [c \in 1 .. next_cap + 1 |-> IF c = next_cap + 1 THEN k ELSE caps[c]]
  BY Zenon DEF mint_root
<1>7. ASSUME NEW p \in Allocated', p # next_cap + 1
      PROVE  p # k.parent
  BY <1>1, <1>2, <1>7, Zenon
<1>8. Inserts(next_cap + 1, k)
  BY <1>1, <1>4, <1>5, <1>6, <1>7, Zenon DEF Inserts
<1> QED
  BY <1>1, <1>8, InsertPreservesInv, Zenon

\* delegate adds one whose parent is live and has all its rights.
LEMMA DelegatePreservesInv ==
  ASSUME RegistryInv, NEW parent \in CapIds, NEW rights \in SUBSET AllRights,
         delegate(parent, rights)
  PROVE  RegistryInv'
<1> DEFINE new == next_cap + 1
           k == ChildCap(caps[parent], parent, rights)
<1>1. /\ parent \in Allocated /\ ~caps[parent].revoked
      /\ rights \subseteq caps[parent].rights
  BY RegistryFacts, Zenon DEF delegate, DelegateResult
<1>2. /\ k \in Capability /\ k.parent = parent /\ k.object = caps[parent].object
      /\ k.rights = rights
  BY <1>1, RegistryFacts DEF ChildCap, Capability
<1>3. /\ Allocated' = 1 .. new /\ Allocated' = Allocated \cup {new}
      /\ new \notin Allocated /\ NoCap \notin Allocated'
      /\ \A s \in Seq(Allocated) : s \in Seq(Allocated')
  BY FreshId, Zenon DEF delegate
<1>4. /\ children' = [c \in 1 .. new |->
                        IF c = new THEN <<>>
                        ELSE IF c = parent THEN Append(children[c], new)
                        ELSE children[c]]
      /\ <<>> \in Seq(Allocated')
  BY DEF delegate
<1>5. /\ Append(children[parent], new) \in Seq(Allocated')
      /\ Len(Append(children[parent], new)) = Len(children[parent]) + 1
      /\ \A i \in 1 .. Len(children[parent]) :
           Append(children[parent], new)[i] = children[parent][i]
      /\ Append(children[parent], new)[Len(children[parent]) + 1] = new
      /\ Len(children[parent]) \in Nat
  BY <1>1, <1>3, RegistryFacts
<1>6. children' \in [1 .. new -> Seq(Allocated')]
  <2>1. \A c \in Allocated : children[c] \in Seq(Allocated')
    BY <1>3, RegistryFacts, Zenon
  <2>2. ASSUME NEW c \in 1 .. new
        PROVE  (IF c = new THEN <<>>
                ELSE IF c = parent THEN Append(children[c], new)
                ELSE children[c]) \in Seq(Allocated')
    <3>1. CASE c = new
      BY <1>4, <3>1, Zenon
    <3>2. CASE c # new /\ c = parent
      BY <1>5, <3>2, Zenon
    <3>3. CASE c # new /\ c # parent
      <4>1. c \in Allocated
        BY <1>3, <3>3, Zenon
      <4> QED
        BY <2>1, <3>3, <4>1, Zenon
    <3> QED
      BY <3>1, <3>2, <3>3, Zenon
  <2> QED
    BY <1>4, <2>2, Zenon
<1>7. ASSUME NEW p \in Allocated'
      PROVE  ChildSet(p)' = IF p = new THEN {}
                            ELSE IF p = parent THEN ChildSet(p) \cup {new}
                            ELSE ChildSet(p)
  <2>1. CASE p = new
    BY <1>3, <1>4, <2>1 DEF ChildSet, Elements
  <2>2. CASE p # new /\ p # parent
    BY <1>3, <1>4, <2>2, Zenon DEF ChildSet, Elements
  <2>3. CASE p = parent
    <3>1. children'[p] = Append(children[parent], new) /\ p # new
      BY <1>1, <1>3, <1>4, <2>3, Zenon
    <3>2. Len(children'[p]) = Len(children[p]) + 1
      BY <1>5, <2>3, <3>1, Zenon
    <3>3. \A i \in 1 .. Len(children[p]) + 1 :
            children'[p][i] = IF i = Len(children[p]) + 1 THEN new ELSE children[p][i]
      BY <1>5, <2>3, <3>1
    <3> QED
      BY <1>5, <2>3, <3>1, <3>2, <3>3 DEF ChildSet, Elements
  <2> QED
    BY <2>1, <2>2, <2>3, Zenon
<1>8. /\ Idle /\ UNCHANGED stack
      /\ new = next_cap + 1 /\ next_cap < MaxCap /\ next_cap' = new
      /\ caps' = [c \in 1 .. new |-> IF c = new THEN k ELSE caps[c]]
  BY Zenon DEF delegate
<1>9. \A p \in Allocated' : ChildSet(p)' =
        IF p = new THEN {}
        ELSE IF p = k.parent THEN ChildSet(p) \cup {new} ELSE ChildSet(p)
  BY <1>2, <1>7, Zenon
<1>10. /\ k.parent \in Allocated /\ ~caps[k.parent].revoked
       /\ caps[k.parent].object = k.object
       /\ k.rights \subseteq caps[k.parent].rights
  BY <1>1, <1>2, Zenon
<1>11. Inserts(new, k)
  BY <1>6, <1>8, <1>9, <1>10, Zenon DEF Inserts
<1> QED
  BY <1>2, <1>11, InsertPreservesInv, Zenon

\* revoke begins with one capability on the worklist.
LEMMA RevokePreservesInv ==
  ASSUME RegistryInv, NEW cap \in CapIds, revoke(cap)
  PROVE  RegistryInv'
<1>1. stack = <<>> /\ Pending = {}
  BY DEF revoke, Idle, Pending, Elements
<1>2. Allocated' = Allocated /\ \A p : ChildSet(p)' = ChildSet(p)
  BY Zenon DEF revoke, Allocated, ChildSet, Elements
<1>3. stack' \in Seq(Allocated)
  BY DEF revoke
<1>4. TypeOK' /\ Attenuated' /\ TreeConsistent'
  BY <1>2, <1>3, Zenon DEF RegistryInv, TypeOK, Attenuated, TreeConsistent, revoke
<1>5. PendingCoversLive'
  BY <1>1, <1>2, Zenon DEF RegistryInv, PendingCoversLive, revoke
<1> QED
  BY <1>4, <1>5, Zenon DEF RegistryInv

\* What one iteration of the loop does: it revokes one capability of the
\* worklist and replaces it there by its children.
LEMMA LoopEffect ==
  ASSUME RegistryInv, RevokeLoop
  PROVE  \E next \in Allocated :
           /\ stack' \in Seq(Allocated)
           /\ next \in Pending
           /\ \A c \in Pending : c = next \/ c \in Pending'
           /\ ChildSet(next) \subseteq Pending'
           /\ Pending' \subseteq Pending \cup ChildSet(next)
           /\ UNCHANGED <<next_cap, children>>
           /\ Allocated' = Allocated
           /\ \A p : ChildSet(p)' = ChildSet(p)
           /\ caps' \in [Allocated -> Capability]
           /\ \A c \in Allocated :
                /\ caps'[c] = IF c = next THEN [caps[c] EXCEPT !.revoked = TRUE] ELSE caps[c]
                /\ caps'[c].parent = caps[c].parent
                /\ caps'[c].object = caps[c].object
                /\ caps'[c].rights = caps[c].rights
                /\ caps'[c].revoked <=> (c = next \/ caps[c].revoked)
<1>1. stack \in Seq(Allocated) /\ stack # <<>>
  BY RegistryFacts, Zenon DEF RevokeLoop, Idle
<1>2. PICK next : next = stack[Len(stack)]
  BY Zenon
<1>3. next \in Allocated
  <2>1. Len(stack) \in 1 .. Len(stack)
    BY <1>1
  <2> QED
    BY <1>1, <1>2, <2>1
<1>4. children[next] \in Seq(Allocated)
  BY <1>3, RegistryFacts, Zenon
<1>5. /\ stack' = PopAndExtend(stack, children[next])
      /\ caps' = [caps EXCEPT ![next].revoked = TRUE]
      /\ UNCHANGED <<next_cap, children>>
  BY <1>2, Zenon DEF RevokeLoop
<1>6. /\ stack' \in Seq(Allocated)
      /\ \A c \in Pending : c = next \/ c \in Pending'
      /\ ChildSet(next) \subseteq Pending'
      /\ Pending' \subseteq Pending \cup ChildSet(next)
      /\ next \in Pending
  BY <1>1, <1>2, <1>4, <1>5, PopThenPush DEF Pending, ChildSet
<1>7. Allocated' = Allocated /\ \A p : ChildSet(p)' = ChildSet(p)
  BY <1>5, Zenon DEF Allocated, ChildSet, Elements
<1>8. \A c \in Allocated :
        /\ caps'[c] = IF c = next THEN [caps[c] EXCEPT !.revoked = TRUE] ELSE caps[c]
        /\ caps'[c] \in Capability
        /\ caps'[c].parent = caps[c].parent
        /\ caps'[c].object = caps[c].object
        /\ caps'[c].rights = caps[c].rights
        /\ caps'[c].revoked <=> (c = next \/ caps[c].revoked)
  <2> SUFFICES ASSUME NEW c \in Allocated
               PROVE  LET k == caps'[c]
                      IN  /\ k = IF c = next THEN [caps[c] EXCEPT !.revoked = TRUE]
                                 ELSE caps[c]
                          /\ k \in Capability
                          /\ k.parent = caps[c].parent
                          /\ k.object = caps[c].object
                          /\ k.rights = caps[c].rights
                          /\ k.revoked <=> (c = next \/ caps[c].revoked)
    BY Zenon
  <2>1. caps[c] \in Capability
    BY RegistryFacts, Zenon
  <2>2. caps'[c] = IF c = next THEN [caps[c] EXCEPT !.revoked = TRUE] ELSE caps[c]
    BY <1>3, <1>5, RegistryFacts, Zenon
  <2> QED
    BY <2>1, <2>2, Zenon DEF Capability
<1>9. caps' \in [Allocated -> Capability]
  BY <1>5, <1>8, RegistryFacts, Zenon
<1> QED
  BY <1>3, <1>5, <1>6, <1>7, <1>8, <1>9, Zenon

\* An iteration of the loop of revoke moves the obligation from a capability
\* to its children.
LEMMA LoopPreservesInv ==
  ASSUME RegistryInv, RevokeLoop
  PROVE  RegistryInv'
<1>1. PICK next \in Allocated : 
           /\ stack' \in Seq(Allocated)
           /\ \A c \in Pending : c = next \/ c \in Pending'
           /\ ChildSet(next) \subseteq Pending'
           /\ UNCHANGED <<next_cap, children>>
           /\ Allocated' = Allocated
           /\ \A p : ChildSet(p)' = ChildSet(p)
           /\ caps' \in [Allocated -> Capability]
           /\ \A c \in Allocated :
                /\ caps'[c].parent = caps[c].parent
                /\ caps'[c].object = caps[c].object
                /\ caps'[c].rights = caps[c].rights
                /\ caps'[c].revoked <=> (c = next \/ caps[c].revoked)
  BY LoopEffect, Zenon
<1>2. TypeOK'
  BY <1>1, Zenon DEF RegistryInv, TypeOK
<1>3. TreeConsistent'
  BY <1>1, Zenon DEF RegistryInv, TreeConsistent
<1>4. Attenuated'
  <2> SUFFICES ASSUME NEW c \in Allocated, caps[c].parent # NoCap
               PROVE  /\ caps'[caps[c].parent].object = caps'[c].object
                      /\ caps'[c].rights \subseteq caps'[caps[c].parent].rights
    BY <1>1 DEF Attenuated
  <2>1. caps[c].parent \in Allocated
    BY RegistryFacts, Zenon
  <2>2. /\ caps[caps[c].parent].object = caps[c].object
        /\ caps[c].rights \subseteq caps[caps[c].parent].rights
    BY Zenon DEF RegistryInv, Attenuated
  <2> QED
    BY <1>1, <2>1, <2>2, Zenon
<1>5. PendingCoversLive'
  <2> SUFFICES ASSUME NEW c \in Allocated, caps[c].parent # NoCap,
                      caps'[caps[c].parent].revoked
               PROVE  caps'[c].revoked \/ c \in Pending'
    BY <1>1, Zenon DEF PendingCoversLive
  <2>1. caps[c].parent \in Allocated
    BY RegistryFacts, Zenon
  <2>2. CASE caps[c].parent = next
    BY <1>1, <2>2, Zenon DEF RegistryInv, TreeConsistent
  <2>3. CASE caps[caps[c].parent].revoked
    BY <1>1, <2>3, Zenon DEF RegistryInv, PendingCoversLive
  <2> QED
    BY <1>1, <2>1, <2>2, <2>3, Zenon
<1> QED
  BY <1>2, <1>3, <1>4, <1>5, Zenon DEF RegistryInv

-----------------------------------------------------------------------------
\* The invariant is inductive: one case per operation of the registry.
LEMMA StepPreservesInv == RegistryInv /\ [Next]_vars => RegistryInv'
<1> SUFFICES ASSUME RegistryInv, [Next]_vars
             PROVE  RegistryInv'
  BY Zenon
<1>1. ASSUME NEW object \in Objects, NEW rights \in SUBSET AllRights,
             mint_root(object, rights)
      PROVE  RegistryInv'
  BY <1>1, MintPreservesInv, Zenon
<1>2. ASSUME NEW parent \in CapIds, NEW rights \in SUBSET AllRights,
             delegate(parent, rights)
      PROVE  RegistryInv'
  BY <1>2, DelegatePreservesInv, Zenon
<1>3. ASSUME NEW cap \in CapIds, revoke(cap)
      PROVE  RegistryInv'
  BY <1>3, RevokePreservesInv, Zenon
<1>4. CASE RevokeLoop
  BY <1>4, LoopPreservesInv, Zenon
<1>5. CASE UNCHANGED vars
  <2>1. /\ UNCHANGED <<next_cap, caps, children, stack, Allocated, Pending>>
        /\ \A p : ChildSet(p)' = ChildSet(p)
    BY <1>5, Zenon DEF vars, Allocated, ChildSet, Pending, Elements
  <2> QED
    BY <2>1, Zenon DEF RegistryInv, TypeOK, TreeConsistent, PendingCoversLive, Attenuated
<1> QED
  BY <1>1, <1>2, <1>3, <1>4, <1>5, Zenon DEF Next

\* RegistryInv holds in every reachable state: mint_root, delegate, revoke
\* and each iteration of its loop preserve it.
THEOREM RegistryInvariant == Spec => []RegistryInv
<1>1. RegistryInv /\ [Next]_vars => RegistryInv'
  BY StepPreservesInv, Zenon
<1> QED
  BY <1>1, InitRegistryInv, PTL DEF Spec

\* The registry keeps its type: every id on the worklist of revoke and in the
\* children table is an allocated one.
THEOREM TypeCorrect == Spec => []TypeOK
<1>1. RegistryInv => TypeOK
  BY Zenon DEF RegistryInv
<1> QED
  BY <1>1, RegistryInvariant, PTL

\* Between calls the children of a revoked capability are revoked, for any
\* history of mint_root, delegate and revoke.
THEOREM RevocationIsClosed == Spec => []RevocationClosed
<1>1. RegistryInv => RevocationClosed
  <2> SUFFICES ASSUME RegistryInv, Idle
               PROVE  \A c \in Allocated :
                        caps[c].parent # NoCap /\ caps[caps[c].parent].revoked
                          => caps[c].revoked
    BY Zenon DEF RevocationClosed
  <2>1. Pending = {}
    BY DEF Idle, Pending, Elements
  <2> QED
    BY <2>1, Zenon DEF RegistryInv, PendingCoversLive
<1> QED
  BY <1>1, RegistryInvariant, PTL

\* Whatever authorize accepts of a derived capability it accepts of the
\* parent, for the same object.
THEOREM AuthorityIsAttenuated == Spec => []AuthorityFromParent
<1>1. RegistryInv /\ RevocationClosed => AuthorityFromParent
  <2> SUFFICES ASSUME RegistryInv, RevocationClosed, Idle,
                      NEW c \in Allocated, caps[c].parent # NoCap
               PROVE  /\ caps[caps[c].parent].object = caps[c].object
                      /\ \A rights \in SUBSET AllRights :
                           AuthorizeResult(caps, c, rights) = "Ok"
                             => AuthorizeResult(caps, caps[c].parent, rights) = "Ok"
    BY Zenon DEF AuthorityFromParent
  <2>1. /\ caps[caps[c].parent].object = caps[c].object
        /\ caps[c].rights \subseteq caps[caps[c].parent].rights
    BY Zenon DEF RegistryInv, Attenuated
  <2>2. caps[caps[c].parent].revoked => caps[c].revoked
    BY Zenon DEF RevocationClosed
  <2>3. DOMAIN caps = Allocated /\ caps[c].parent \in Allocated
    BY RegistryFacts, Zenon
  <2> QED
    BY <2>1, <2>2, <2>3, Zenon DEF AuthorizeResult
<1> QED
  BY <1>1, RegistryInvariant, RevocationIsClosed, PTL

\* No call takes a revocation back or changes what a capability stands for.
THEOREM RevocationIsForever == Spec => RevokedForever
<1> DEFINE A == \A c \in Allocated :
                  /\ c \in Allocated'
                  /\ caps'[c].object = caps[c].object
                  /\ caps'[c].rights = caps[c].rights
                  /\ caps'[c].parent = caps[c].parent
                  /\ caps[c].revoked => caps'[c].revoked
<1>1. RegistryInv /\ [Next]_vars => [A]_vars
  <2> SUFFICES ASSUME RegistryInv, Next
               PROVE  A
    BY Zenon
  <2>1. ASSUME next_cap < MaxCap, next_cap' = next_cap + 1,
               NEW k, caps' = [c \in 1 .. next_cap + 1 |->
                                 IF c = next_cap + 1 THEN k ELSE caps[c]]
        PROVE  A
    <3>1. \A c \in Allocated : c \in Allocated' /\ caps'[c] = caps[c]
      BY <2>1, FreshId, Zenon
    <3> QED
      BY <3>1, Zenon
  <2>2. ASSUME NEW object \in Objects, NEW rights \in SUBSET AllRights,
               mint_root(object, rights)
        PROVE  A
    BY <2>1, <2>2, Zenon DEF mint_root
  <2>3. ASSUME NEW parent \in CapIds, NEW rights \in SUBSET AllRights,
               delegate(parent, rights)
        PROVE  A
    BY <2>1, <2>3, Zenon DEF delegate
  <2>4. ASSUME NEW cap \in CapIds, revoke(cap)
        PROVE  A
    BY <2>4, Zenon DEF revoke, Allocated
  <2>5. CASE RevokeLoop
    <3>1. Allocated' = Allocated
      BY <2>5, Zenon DEF RevokeLoop, Allocated
    <3>2. PICK next : caps' = [caps EXCEPT ![next].revoked = TRUE]
      BY <2>5, Zenon DEF RevokeLoop
    <3>3. \A c \in Allocated :
            caps[c] \in Capability
              /\ caps'[c] = IF c = next THEN [caps[c] EXCEPT !.revoked = TRUE] ELSE caps[c]
      BY <3>2, RegistryFacts, Zenon
    <3> QED
      BY <3>1, <3>3, Zenon DEF Capability
  <2> QED
    BY <2>2, <2>3, <2>4, <2>5, Zenon DEF Next
<1> HIDE DEF A
<1>2. Spec => [][A]_vars
  BY <1>1, RegistryInvariant, PTL DEF Spec
<1> QED
  BY <1>2, Zenon DEF A, RevokedForever

-----------------------------------------------------------------------------
(***************************************************************************)
(* The registry implements CapTree.                                        *)
(***************************************************************************)

\* DerivedFrom contains its roots, is closed, and depends only on the ids
\* and parents of the table.
LEMMA DerivedContainsRoots ==
  ASSUME NEW table, NEW S \in SUBSET DOMAIN table
  PROVE  S \subseteq DerivedFrom(table, S)
  BY Zenon DEF DerivedFrom

\* With a capability DerivedFrom contains those derived from it.
LEMMA DerivedIsClosed ==
  ASSUME NEW table, NEW S
  PROVE  ClosedUnderDerivation(table, DerivedFrom(table, S))
  BY Zenon DEF DerivedFrom, ClosedUnderDerivation

\* It is within every set that is closed in this way.
LEMMA DerivedIsLeast ==
  ASSUME NEW table, NEW S, NEW T \in SUBSET DOMAIN table,
         S \subseteq T, ClosedUnderDerivation(table, T)
  PROVE  DerivedFrom(table, S) \subseteq T
  BY Zenon DEF DerivedFrom

\* Two tables with the same parents derive the same, whatever is revoked in
\* them.
LEMMA DerivedDependsOnParents ==
  ASSUME NEW table, NEW other, NEW S,
         DOMAIN table = DOMAIN other,
         \A c \in DOMAIN table : table[c].parent = other[c].parent
  PROVE  DerivedFrom(table, S) = DerivedFrom(other, S)
<1>1. \A T \in SUBSET DOMAIN table :
        ClosedUnderDerivation(table, T) <=> ClosedUnderDerivation(other, T)
  BY Zenon DEF ClosedUnderDerivation
<1> QED
  BY <1>1, Zenon DEF DerivedFrom

\* An empty worklist has nothing left to revoke.
LEMMA NothingDerivedFromNothing ==
  ASSUME NEW table
  PROVE  DerivedFrom(table, {}) = {}
<1>1. ClosedUnderDerivation(table, {})
  BY Zenon DEF ClosedUnderDerivation
<1>2. {} \in SUBSET DOMAIN table
  BY Zenon
<1> QED
  BY <1>1, <1>2, DerivedIsLeast, Zenon

\* Between calls the abstract table is the table itself.
LEMMA IdleTreeCaps == TypeOK /\ Idle => TreeCaps = caps
<1> SUFFICES ASSUME TypeOK, Idle
             PROVE  TreeCaps = caps
  BY Zenon
<1>1. Pending = {}
  BY DEF Idle, Pending, Elements
<1>2. DerivedFrom(caps, Pending) = {}
  BY <1>1, NothingDerivedFromNothing, Zenon
<1>3. \A c \in DOMAIN caps :
        [caps[c] EXCEPT !.revoked = @ \/ c \in DerivedFrom(caps, Pending)] = caps[c]
  BY <1>2, Zenon DEF TypeOK, Capability
<1> QED
  BY <1>3, Zenon DEF TreeCaps, TypeOK

\* The parents and the other fields of the abstract table.
LEMMA TreeCapsFields ==
  ASSUME RegistryInv
  PROVE  /\ DOMAIN TreeCaps = Allocated
         /\ \A c \in Allocated :
              /\ TreeCaps[c] = [caps[c] EXCEPT !.revoked =
                                  caps[c].revoked \/ c \in DerivedFrom(caps, Pending)]
              /\ TreeCaps[c].parent = caps[c].parent
  BY RegistryFacts DEF TreeCaps, Capability

\* One iteration of the loop of revoke does not change the set of
\* capabilities that are revoked or derived from the worklist.
LEMMA LoopKeepsTreeCaps ==
  ASSUME RegistryInv, RevokeLoop
  PROVE  TreeCaps' = TreeCaps
<1>1. PICK next \in Allocated :
           /\ next \in Pending
           /\ \A c \in Pending : c = next \/ c \in Pending'
           /\ ChildSet(next) \subseteq Pending'
           /\ Pending' \subseteq Pending \cup ChildSet(next)
           /\ Allocated' = Allocated
           /\ caps' \in [Allocated -> Capability]
           /\ \A c \in Allocated :
                /\ caps'[c] = IF c = next THEN [caps[c] EXCEPT !.revoked = TRUE] ELSE caps[c]
                /\ caps'[c].parent = caps[c].parent
  BY LoopEffect
<1> DEFINE before == DerivedFrom(caps, Pending)
           after == DerivedFrom(caps, Pending')
<1>2. Pending \subseteq Allocated /\ Pending' \subseteq Allocated /\ DOMAIN caps = Allocated
  <2>1. Pending \subseteq Allocated
    BY RegistryFacts DEF Pending, Elements
  <2> QED
    BY <1>1, <2>1, RegistryFacts, Zenon
<1>3. /\ Pending \subseteq before /\ ClosedUnderDerivation(caps, before)
      /\ Pending' \subseteq after /\ ClosedUnderDerivation(caps, after)
      /\ before \subseteq Allocated /\ after \subseteq Allocated
  <2>1. before \subseteq Allocated /\ after \subseteq Allocated
    BY <1>2, Zenon DEF DerivedFrom
  <2> QED
    BY <1>2, <2>1, DerivedContainsRoots, DerivedIsClosed, Zenon
<1>4. \A c \in Allocated : caps[c].parent = next <=> c \in ChildSet(next)
  BY Zenon DEF RegistryInv, TreeConsistent
<1> HIDE DEF before, after
<1>5. after \subseteq before
  <2>1. Pending' \subseteq before
    BY <1>1, <1>2, <1>3, <1>4, RegistryFacts DEF ClosedUnderDerivation
  <2> QED
    BY <1>2, <1>3, <2>1, DerivedIsLeast, Zenon DEF after
<1>6. before \subseteq after \cup {next}
  <2>1. Pending \subseteq after \cup {next}
    BY <1>1, <1>3, Zenon
  <2>2. ClosedUnderDerivation(caps, after \cup {next})
    BY <1>1, <1>2, <1>3, <1>4, Zenon DEF ClosedUnderDerivation
  <2> QED
    BY <1>2, <1>3, <2>1, <2>2, DerivedIsLeast DEF before
<1>7. next \in before
  BY <1>1, <1>3, Zenon
<1>8. DerivedFrom(caps', Pending') = after
  <2>1. DOMAIN caps' = DOMAIN caps
    BY <1>1, <1>2, Zenon
  <2> QED
    BY <1>1, <1>2, <2>1, DerivedDependsOnParents DEF after
<1>9. ASSUME NEW c \in Allocated
      PROVE  [caps'[c] EXCEPT !.revoked = caps'[c].revoked \/ c \in after]
               = [caps[c] EXCEPT !.revoked = caps[c].revoked \/ c \in before]
  <2>1. caps[c] \in Capability
    BY RegistryFacts, Zenon
  <2>2. CASE c = next
    BY <1>1, <1>7, <2>1, <2>2, Zenon DEF Capability
  <2>3. CASE c # next
    <3>1. caps'[c] = caps[c] /\ (c \in after <=> c \in before)
      BY <1>1, <1>5, <1>6, <2>3, Zenon
    <3> QED
      BY <2>1, <3>1, Zenon DEF Capability
  <2> QED
    BY <2>2, <2>3, Zenon
<1>10. TreeCaps = [c \in Allocated |->
                     [caps[c] EXCEPT !.revoked = caps[c].revoked \/ c \in before]]
  BY <1>2, Zenon DEF TreeCaps, before
<1>11. TreeCaps' = [c \in Allocated |->
                      [caps'[c] EXCEPT !.revoked = caps'[c].revoked \/ c \in after]]
  <2>1. DOMAIN caps' = Allocated
    BY <1>1, Zenon
  <2> QED
    BY <1>8, <2>1, Zenon DEF TreeCaps
<1> QED
  BY <1>9, <1>10, <1>11, Zenon

\* Every step of the registry is a step of CapTree or changes nothing CapTree
\* can see: in particular revoke, with its loop, is the single step that
\* revokes a capability and all its descendants.
THEOREM RegistryImplementsTree == Spec => ImplementsTree
<1>1. Init => Tree!Init
  <2> SUFFICES ASSUME Init
               PROVE  Tree!Init
    BY Zenon
  <2>1. DOMAIN caps = {} /\ next_cap = 0
    BY Zenon DEF Init
  <2>2. TreeCaps = [c \in {} |-> RootCap({}, {})]
    BY <2>1, Zenon DEF TreeCaps
  <2> QED
    BY <2>1, <2>2, Zenon DEF Tree!Init, Tree!RootCap, RootCap, Tree!NoCap, NoCap
<1>2. (TypeOK /\ Idle => TreeCaps = caps)'
  BY IdleTreeCaps, PTL
<1>3. RegistryInv /\ RegistryInv' /\ [Next]_vars => [Tree!Next]_(Tree!vars)
  <2> SUFFICES ASSUME RegistryInv, RegistryInv', [Next]_vars
               PROVE  Tree!Next \/ UNCHANGED <<next_cap, TreeCaps>>
    BY Zenon DEF Tree!vars
  <2>1. (Idle => TreeCaps = caps) /\ (Idle' => TreeCaps' = caps')
    BY <1>2, IdleTreeCaps, Zenon DEF RegistryInv
  <2>2. ASSUME NEW object \in Objects, NEW rights \in SUBSET AllRights,
               mint_root(object, rights)
        PROVE  Tree!MintRoot(object, rights)
    <3>1. TreeCaps = caps /\ TreeCaps' = caps'
      BY <2>1, <2>2, Zenon DEF mint_root, Idle
    <3> QED
      BY <2>2, <3>1, Zenon DEF mint_root, Tree!MintRoot, Tree!Insert, Tree!RootCap, RootCap,
        Tree!NoCap, NoCap
  <2>3. ASSUME NEW parent \in CapIds, NEW rights \in SUBSET AllRights,
               delegate(parent, rights)
        PROVE  Tree!Delegate(parent, rights)
    <3>1. TreeCaps = caps /\ TreeCaps' = caps'
      BY <2>1, <2>3, Zenon DEF delegate, Idle
    <3> QED
      BY <2>3, <3>1, Zenon DEF delegate, Tree!Delegate, Tree!Insert, Tree!ChildCap, ChildCap,
        Tree!DelegateResult, DelegateResult
  <2>4. ASSUME NEW cap \in CapIds, revoke(cap)
        PROVE  Tree!Revoke(cap)
    <3>1. TreeCaps = caps
      BY <2>1, <2>4, Zenon DEF revoke
    <3>2. UNCHANGED <<next_cap, caps>> /\ Pending' = {cap} /\ cap \in Allocated
      BY <2>4 DEF revoke, Pending, Elements
    <3>3. TreeCaps' = [c \in DOMAIN caps |->
                         [caps[c] EXCEPT !.revoked = @ \/ c \in DerivedFrom(caps, {cap})]]
      BY <3>2, Zenon DEF TreeCaps
    <3>4. \A c \in DOMAIN caps :
            [caps[c] EXCEPT !.revoked = @ \/ c \in DerivedFrom(caps, {cap})]
              = IF c \in DerivedFrom(caps, {cap})
                THEN [caps[c] EXCEPT !.revoked = TRUE] ELSE caps[c]
      BY RegistryFacts, Zenon DEF Capability
    <3>5. DerivedFrom(caps, {cap}) = Tree!DerivedFrom(caps, {cap})
      BY Zenon DEF DerivedFrom, Tree!DerivedFrom, ClosedUnderDerivation, Tree!ClosedUnderDerivation
    <3>6. TreeCaps' = [c \in DOMAIN caps |->
                         IF c \in Tree!DerivedFrom(caps, {cap})
                         THEN [caps[c] EXCEPT !.revoked = TRUE] ELSE caps[c]]
      BY <3>3, <3>4, <3>5, Zenon
    <3> QED
      BY <3>1, <3>2, <3>6, RegistryFacts, Zenon DEF Tree!Revoke
  <2>5. CASE RevokeLoop
    BY <2>5, LoopKeepsTreeCaps, Zenon DEF RevokeLoop
  <2>6. CASE UNCHANGED vars
    <3>1. UNCHANGED <<next_cap, caps, Pending>>
      BY <2>6, Zenon DEF vars, Pending
    <3> QED
      BY <3>1, Zenon DEF TreeCaps
  <2> QED
    BY <2>2, <2>3, <2>4, <2>5, <2>6, Zenon DEF Next, Tree!Next, Tree!CapIds, CapIds
<1> QED
  BY <1>1, <1>3, RegistryInvariant, PTL DEF Spec, ImplementsTree, Tree!Spec

-----------------------------------------------------------------------------
\* The Root Court's tables, of any size.

\* The invariant, of a value of the tables rather than of the variable.
Good(r) == r \in RootCourt /\ WithinArrays(r) /\ Len(r.bindings) = Len(r.courts) /\ IdsAreSlots(r)

WithCaps(r, next, table) == [r EXCEPT !.next_cap = next, !.caps = table]

\* Writing to the table of capabilities changes nothing else.
LEMMA WriteCaps ==
  ASSUME NEW r \in RootCourt, NEW next \in Nat, NEW table \in Seq(Cap)
  PROVE  LET s == WithCaps(r, next, table)
         IN  /\ s \in RootCourt
             /\ s.courts = r.courts /\ s.bindings = r.bindings
             /\ s.caps = table /\ s.next_cap = next
<1>1. ASSUME NEW C, NEW K, NEW B, NEW k \in K,
             NEW t \in [next_court : Nat, next_cap : Nat, next_object : Nat,
                        courts : C, caps : K, bindings : B]
      PROVE  LET s == [t EXCEPT !.next_cap = next, !.caps = k]
             IN  /\ s \in [next_court : Nat, next_cap : Nat, next_object : Nat,
                           courts : C, caps : K, bindings : B]
                 /\ s.courts = t.courts /\ s.bindings = t.bindings
                 /\ s.caps = k /\ s.next_cap = next
  BY Zenon
<1>2. QED
  BY <1>1, Zenon DEF RootCourt, WithCaps

\* spawn_court leaves the tables good and the capabilities alone: when the
\* court table has room, so has the namespace.
LEMMA SpawnKeepsGood ==
  ASSUME NEW r, Good(r), NEW path \in Paths \cup {"root"}
  PROVE  LET s == spawn_court(r, path)
         IN  /\ Good(s.root) /\ s.root.caps = r.caps
             /\ s.id \in Nat
<1> DEFINE c == create_court(r)
           o == alloc_object(c.root)
           id == r.next_court + 1
           courts == Append(r.courts, id)
           b == [path |-> path, object |-> r.next_object + 1]
           bindings == Append(r.bindings, b)
<1>1. r \in RootCourt /\ WithinArrays(r) /\ Len(r.bindings) = Len(r.courts) /\ IdsAreSlots(r)
  BY Zenon DEF Good
<1>2. CASE Len(r.courts) < MAX_COURTS
  <2>1. /\ courts \in Seq(Nat) /\ Len(courts) = Len(r.courts) + 1
        /\ bindings \in Seq(Binding) /\ Len(bindings) = Len(r.bindings) + 1
    <3>1. r.courts \in Seq(Nat) /\ r.bindings \in Seq(Binding) /\ id \in Nat
      BY <1>1 DEF RootCourt
    <3>2. b \in Binding
      BY <1>1 DEF RootCourt, Binding
    <3>3. QED
      BY <3>1, <3>2, Appended, Zenon
  <2> DEFINE Root(object, names) ==
               [next_court |-> id, next_cap |-> r.next_cap, next_object |-> object,
                courts |-> courts, caps |-> r.caps, bindings |-> names]
  <2>2. c.ok /\ c.root = Root(r.next_object, r.bindings)
    BY <1>1, <1>2, Zenon DEF create_court, Done, RootCourt
  <2> HIDE DEF bindings, courts, id, c
  <2>3. o = Root(r.next_object + 1, r.bindings)
    BY <2>2 DEF alloc_object
  <2>4. Len(r.bindings) < MAX_BINDINGS
    BY <1>1, <1>2, TableSizes DEF RootCourt
  <2>5. spawn_court(r, path) = bind(o, path, o.next_object)
    BY <2>2, Zenon DEF spawn_court, c
  <2>6. /\ spawn_court(r, path).root = Root(r.next_object + 1, bindings)
        /\ spawn_court(r, path).id = r.next_object + 1
    <3> HIDE DEF o
    <3>1. o.bindings = r.bindings /\ o.next_object = r.next_object + 1
      BY <2>3, Zenon
    <3>2. bindings = Append(r.bindings, [path |-> path, object |-> r.next_object + 1])
      BY Zenon DEF bindings
    <3>3. bind(o, path, o.next_object)
            = [ok |-> TRUE, root |-> [o EXCEPT !.bindings = bindings],
               id |-> r.next_object + 1]
      BY <2>4, <3>1, <3>2, Zenon DEF bind, Done
    <3>4. [o EXCEPT !.bindings = bindings] = Root(r.next_object + 1, bindings)
      BY <2>3
    <3>5. QED
      BY <2>5, <3>3, <3>4
  <2>7. id \in Nat /\ r.next_object + 1 \in Nat
    BY <1>1 DEF RootCourt, id
  <2>8. Root(r.next_object + 1, bindings) \in RootCourt
    BY <2>1, <2>7, <1>1, Zenon DEF RootCourt
  <2>9. WithinArrays(Root(r.next_object + 1, bindings))
    BY <2>1, <2>4, <1>1, <1>2, TableSizes DEF WithinArrays, RootCourt
  <2>10. IdsAreSlots(Root(r.next_object + 1, bindings))
    BY <1>1, Zenon DEF IdsAreSlots
  <2>11. QED
    BY <2>1, <2>6, <2>7, <2>8, <2>9, <2>10, <1>1 DEF Good
<1>3. CASE ~(Len(r.courts) < MAX_COURTS)
  BY <1>1, <1>3, Zenon DEF spawn_court, create_court, Refused, Good
<1>4. QED
  BY <1>2, <1>3, Zenon

\* mint leaves the tables good, and the capabilities it finds as they are.
LEMMA MintKeepsGood ==
  ASSUME NEW r, Good(r), NEW object \in Nat, NEW rights \in Rights
  PROVE  LET s == mint(r, object, rights).root
         IN  /\ Good(s)
             /\ DOMAIN r.caps \subseteq DOMAIN s.caps
             /\ \A i \in DOMAIN r.caps : s.caps[i] = r.caps[i]
<1> DEFINE id == r.next_cap + 1
           cap == [id |-> id, object |-> object, rights |-> rights]
           table == Append(r.caps, cap)
<1>1. r \in RootCourt /\ WithinArrays(r) /\ Len(r.bindings) = Len(r.courts) /\ IdsAreSlots(r)
  BY Zenon DEF Good
<1>2. CASE Len(r.caps) < MAX_CAPS
  <2>1. cap \in Cap /\ r.caps \in Seq(Cap)
    BY <1>1 DEF Cap, RootCourt
  <2>2. /\ table \in Seq(Cap) /\ Len(table) = Len(r.caps) + 1
        /\ \A i \in 1 .. Len(r.caps) : table[i] = r.caps[i]
        /\ table[Len(r.caps) + 1] = cap
    BY <2>1
  <2>3. mint(r, object, rights).root = [r EXCEPT !.next_cap = id, !.caps = table]
    BY <1>2, Zenon DEF mint, Done
  <2>4. DOMAIN r.caps = 1 .. Len(r.caps) /\ DOMAIN table = 1 .. Len(table) /\ Len(r.caps) \in Nat
    BY <2>1, <2>2
  <2>5. \A i \in DOMAIN table : table[i].id = i
    BY <2>2, <2>4, <1>1 DEF IdsAreSlots
  <2> DEFINE s == WithCaps(r, id, table)
  <2> HIDE DEF table, id
  <2>6. /\ s \in RootCourt
        /\ s.courts = r.courts /\ s.bindings = r.bindings
        /\ s.caps = table /\ s.next_cap = id
    <3>1. id \in Nat
      BY <1>1 DEF RootCourt, id
    <3>2. table \in Seq(Cap)
      BY <2>2, Zenon
    <3>3. r \in RootCourt
      BY <1>1, Zenon
    <3>4. QED
      BY <3>1, <3>2, <3>3, WriteCaps, ZenonT(30)
  <2> HIDE DEF s
  <2>7. WithinArrays(s) /\ IdsAreSlots(s)
    BY <2>2, <2>4, <2>5, <2>6, <1>1, <1>2, TableSizes DEF WithinArrays, IdsAreSlots, id
  <2>8. Good(s) /\ DOMAIN r.caps \subseteq DOMAIN s.caps
        /\ \A i \in DOMAIN r.caps : s.caps[i] = r.caps[i]
    BY <2>2, <2>4, <2>6, <2>7 DEF Good
  <2>9. QED
    BY <2>3, <2>8, Zenon DEF s, WithCaps
<1>3. CASE ~(Len(r.caps) < MAX_CAPS)
  BY <1>1, <1>3, Zenon DEF mint, Refused, Good
<1>4. QED
  BY <1>2, <1>3, Zenon

\* The number of a capability is its slot.
LEMMA CapsAtSlot ==
  ASSUME NEW r, Good(r), NEW cap
  PROVE  CapsAt(r, cap) = IF cap \in DOMAIN r.caps THEN {cap} ELSE {}
BY Zenon DEF Good, IdsAreSlots, CapsAt

\* revoke_cap empties the rights in the slot of the capability, and is
\* refused if there is none.
LEMMA RevokeKeepsGood ==
  ASSUME NEW r, Good(r), NEW cap
  PROVE  LET s == revoke_cap(r, cap)
         IN  /\ Good(s.root)
             /\ DOMAIN s.root.caps = DOMAIN r.caps
             /\ \A i \in DOMAIN r.caps :
                  s.root.caps[i].rights = IF s.ok /\ i = cap THEN {} ELSE r.caps[i].rights
             /\ s.ok => cap \in DOMAIN r.caps
<1>1. r \in RootCourt /\ WithinArrays(r) /\ Len(r.bindings) = Len(r.courts) /\ IdsAreSlots(r)
  BY Zenon DEF Good
<1>2. CASE cap \in DOMAIN r.caps
  <2>1. r.caps \in Seq(Cap) /\ Len(r.caps) \in Nat /\ DOMAIN r.caps = 1 .. Len(r.caps)
    BY <1>1 DEF RootCourt
  <2>2. CapsAt(r, cap) = {cap}
    BY <1>2, CapsAtSlot, Zenon
  <2>3. (CHOOSE i \in CapsAt(r, cap) : \A j \in CapsAt(r, cap) : i <= j) = cap
    BY <2>1, <2>2, <1>2
  <2> DEFINE slot == [r.caps[cap] EXCEPT !.rights = {}]
             table == [r.caps EXCEPT ![cap] = slot]
             s == WithCaps(r, r.next_cap, table)
  <2>4. /\ slot \in Cap /\ slot.id = cap /\ slot.rights = {}
    <3>1. r.caps[cap] \in Cap /\ r.caps[cap].id = cap
      BY <2>1, <1>1, <1>2 DEF IdsAreSlots
    <3>2. QED
      BY <3>1, Zenon DEF Cap
  <2> HIDE DEF slot
  <2>5. /\ table \in Seq(Cap) /\ Len(table) = Len(r.caps)
        /\ \A i \in 1 .. Len(r.caps) : table[i] = IF i = cap THEN slot ELSE r.caps[i]
    BY <2>1, <2>4, <1>2
  <2>6. DOMAIN table = DOMAIN r.caps
    BY <2>1, Zenon
  <2>7. revoke_cap(r, cap).root = [r EXCEPT !.caps = table] /\ revoke_cap(r, cap).ok
    BY <2>2, <2>3, Zenon DEF revoke_cap, Done, slot
  <2> HIDE DEF table
  <2>8. [r EXCEPT !.caps = table] = s
    BY <1>1, Zenon DEF RootCourt, WithCaps
  <2>9. /\ s \in RootCourt
        /\ s.courts = r.courts /\ s.bindings = r.bindings
        /\ s.caps = table /\ s.next_cap = r.next_cap
    <3>1. r.next_cap \in Nat
      BY <1>1, Zenon DEF RootCourt
    <3>2. table \in Seq(Cap)
      BY <2>5, Zenon
    <3>3. r \in RootCourt
      BY <1>1, Zenon
    <3>4. QED
      BY <3>1, <3>2, <3>3, WriteCaps, Zenon
  <2> HIDE DEF s
  <2>10. Good(s)
    BY <2>1, <2>4, <2>5, <2>6, <2>9, <1>1 DEF Good, WithinArrays, IdsAreSlots
  <2>11. \A i \in DOMAIN r.caps : s.caps[i].rights = IF i = cap THEN {} ELSE r.caps[i].rights
    BY <2>1, <2>4, <2>5, <2>9, Zenon
  <2>12. QED
    BY <2>6, <2>7, <2>8, <2>9, <2>10, <2>11, <1>2, Zenon
<1>3. CASE cap \notin DOMAIN r.caps
  BY <1>1, <1>3, CapsAtSlot, Zenon DEF revoke_cap, Refused, Good
<1>4. QED
  BY <1>2, <1>3, Zenon

\* The invariant in terms of Good, which the operations of object.rs preserve.
LEMMA InvIsGood == RootInv <=> Good(root) /\ revoked \subseteq Nat /\ EmptySlots
BY Zenon DEF RootInv, RootTypeOK, SpawnIsAllOrNothing, Good

\* bootstrap establishes the invariant, whether or not the tables are large
\* enough for what it puts into them.
LEMMA RootInitInv == RootInit => RootInv
<1> SUFFICES ASSUME RootInit PROVE RootInv
  BY Zenon
<1>1. Good(NewRoot)
  <2>1. /\ <<>> \in Seq(Nat) /\ <<>> \in Seq(Cap) /\ <<>> \in Seq(Binding)
        /\ Len(<<>>) = 0 /\ DOMAIN <<>> = {}
    OBVIOUS
  <2>2. QED
    BY <2>1, TableSizes DEF Good, NewRoot, RootCourt, WithinArrays, IdsAreSlots
<1> DEFINE named == spawn_court(NewRoot, "root")
<1>2. Good(named.root) /\ named.id \in Nat
  BY <1>1, SpawnKeepsGood, Zenon
<1>3. Good(mint(named.root, named.id, {OBSERVE}).root)
  BY <1>2, RightsAssumption, MintKeepsGood, Zenon
<1>4. Good(bootstrap(NewRoot).root)
  BY <1>2, <1>3, Zenon DEF bootstrap
<1>5. QED
  BY <1>4, InvIsGood, Zenon DEF RootInit, EmptySlots

\* Every operation preserves the invariant.
LEMMA RootNextInv == RootInv /\ [RootNext]_root_vars => RootInv'
<1> SUFFICES ASSUME RootInv, [RootNext]_root_vars PROVE Good(root)' /\ (revoked \subseteq Nat)' /\ EmptySlots'
  BY InvIsGood, Zenon DEF RootInv, RootTypeOK, SpawnIsAllOrNothing, Good
<1>1. Good(root) /\ revoked \subseteq Nat /\ EmptySlots
  BY InvIsGood, Zenon
<1>2. ASSUME NEW path \in Paths, SpawnCourt(path)
      PROVE  Good(root)' /\ (revoked \subseteq Nat)' /\ EmptySlots'
  <2>1. Good(root') /\ root'.caps = root.caps
    BY <1>1, <1>2, SpawnKeepsGood, Zenon DEF SpawnCourt
  <2>2. QED
    BY <2>1, <1>1, <1>2, Zenon DEF SpawnCourt, EmptySlots, Good
<1>3. ASSUME NEW object \in ObjectIds, NEW rights \in Rights, MintCap(object, rights)
      PROVE  Good(root)' /\ (revoked \subseteq Nat)' /\ EmptySlots'
  <2>1. object \in Nat
    BY <1>1 DEF ObjectIds, Good, RootCourt
  <2>2. /\ Good(root') /\ DOMAIN root.caps \subseteq DOMAIN root'.caps
        /\ \A i \in DOMAIN root.caps : root'.caps[i] = root.caps[i]
    BY <1>1, <1>3, <2>1, MintKeepsGood, Zenon DEF MintCap
  <2>3. QED
    BY <2>2, <1>1, <1>3, Zenon DEF MintCap, EmptySlots, Good
<1>4. ASSUME NEW cap \in 1 .. MAX_CAPS, RevokeCap(cap)
      PROVE  Good(root)' /\ (revoked \subseteq Nat)' /\ EmptySlots'
  <2> DEFINE s == revoke_cap(root, cap)
  <2>1. /\ Good(s.root) /\ DOMAIN s.root.caps = DOMAIN root.caps
        /\ \A i \in DOMAIN root.caps :
             s.root.caps[i].rights = IF s.ok /\ i = cap THEN {} ELSE root.caps[i].rights
        /\ s.ok => cap \in DOMAIN root.caps
    BY <1>1, RevokeKeepsGood
  <2>2. root' = s.root /\ revoked' = IF s.ok THEN revoked \cup {cap} ELSE revoked
    BY <1>4, Zenon DEF RevokeCap
  <2> HIDE DEF s
  <2>3. QED
    BY <2>1, <2>2, <1>1 DEF EmptySlots
<1>5. CASE UNCHANGED root_vars
  BY <1>1, <1>5, Zenon DEF root_vars, EmptySlots, Good
<1>6. QED
  BY <1>2, <1>3, <1>4, <1>5, Zenon DEF RootNext

\* In every state the tables are within their arrays and of their types.
THEOREM TablesTypeCorrect == RootSpec => []RootTypeOK
<1>1. RootInv => RootTypeOK
  BY Zenon DEF RootInv
<1>2. QED
  BY <1>1, RootInitInv, RootNextInv, PTL DEF RootSpec

\* spawn_court is all or nothing, for any tables in which there is room for
\* at least as many names as courts.
THEOREM SpawnAllOrNothing == RootSpec => []SpawnIsAllOrNothing
<1>1. RootInv => SpawnIsAllOrNothing
  BY Zenon DEF RootInv
<1>2. QED
  BY <1>1, RootInitInv, RootNextInv, PTL DEF RootSpec

\* A revoked capability has no rights, for ever, however many are minted.
THEOREM RevokedStaysEmpty == RootSpec => []RevokedIsEmpty
<1>1. ASSUME RootInv PROVE RevokedIsEmpty
  <2> SUFFICES ASSUME NEW cap \in revoked PROVE cap_rights(root, cap) = Some({})
    BY Zenon DEF RevokedIsEmpty
  <2>1. Good(root) /\ cap \in DOMAIN root.caps /\ root.caps[cap].rights = {}
    BY <1>1, InvIsGood, Zenon DEF EmptySlots
  <2>2. CapsAt(root, cap) = {cap} /\ cap \in Nat
    <3>1. CapsAt(root, cap) = {cap}
      BY <2>1, CapsAtSlot, Zenon
    <3>2. root.caps \in Seq(Cap)
      BY <2>1, Zenon DEF Good, RootCourt
    <3>3. QED
      BY <2>1, <3>1, <3>2
  <2>3. (CHOOSE i \in CapsAt(root, cap) : \A j \in CapsAt(root, cap) : i <= j) = cap
    BY <2>2
  <2>4. QED
    BY <2>1, <2>2, <2>3, Zenon DEF cap_rights
<1>2. RootInv => RevokedIsEmpty
  BY <1>1, Zenon
<1>3. QED
  BY <1>2, RootInitInv, RootNextInv, PTL DEF RootSpec
=============================================================================

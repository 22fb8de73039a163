-------------------------- MODULE HostedRootProofs --------------------------
(***************************************************************************)
(* The audit of HostedRoot for any number of courts, corridors,            *)
(* capabilities and events: whatever the trace records as sent, received   *)
(* or opened was authorized when it happened.  HostedInv relates the       *)
(* tables to the trace and is kept by every operation.                     *)
(***************************************************************************)
EXTENDS HostedRoot, TLAPS

\* What appending does to a sequence.
LEMMA Appended ==
  ASSUME NEW S, NEW s \in Seq(S), NEW e \in S
  PROVE  /\ Append(s, e) \in Seq(S)
         /\ Len(s) \in Nat /\ DOMAIN s = 1 .. Len(s)
         /\ Len(Append(s, e)) = Len(s) + 1 /\ DOMAIN Append(s, e) = 1 .. Len(s) + 1
         /\ \A i \in 1 .. Len(s) : Append(s, e)[i] = s[i]
         /\ Append(s, e)[Len(s) + 1] = e
OBVIOUS

\* A function on 1 .. n is a sequence.
LEMMA IsSequence ==
  ASSUME NEW S, NEW n \in Nat, NEW f \in [1 .. n -> S]
  PROVE  f \in Seq(S) /\ Len(f) = n
OBVIOUS

\* The registry's table is one of the capabilities of Caps.
LEMMA RegistryType ==
  Registry!TypeOK <=> next_cap \in 0 .. MaxCap /\ caps \in [1 .. next_cap -> Capability]
<1>1. Registry!Capability = Capability
  BY Zenon DEF Registry!Capability, Capability, Registry!CapIds, CapIds, Registry!NoCap, NoCap
<1> QED
  BY <1>1, Zenon DEF Registry!TypeOK

\* So it is after a step.
LEMMA RegistryTypeNext ==
  next_cap' \in 0 .. MaxCap /\ caps' \in [1 .. next_cap' -> Capability] => Registry!TypeOK'
<1>1. Registry!Capability = Capability
  BY Zenon DEF Registry!Capability, Capability, Registry!CapIds, CapIds, Registry!NoCap, NoCap
<1> QED
  BY <1>1, Zenon DEF Registry!TypeOK

\* mint_root, in terms of Caps.
LEMMA MintStep ==
  ASSUME NEW object, NEW rights, Registry!MintRoot(object, rights)
  PROVE  /\ next_cap < MaxCap /\ next_cap' = next_cap + 1
         /\ caps' = [c \in 1 .. next_cap + 1 |->
                       IF c = next_cap + 1 THEN RootCap(object, rights) ELSE caps[c]]
<1>1. Registry!RootCap(object, rights) = RootCap(object, rights)
  BY Zenon DEF Registry!RootCap, RootCap, Registry!NoCap, NoCap
<1> QED
  BY <1>1, Zenon DEF Registry!MintRoot, Registry!Insert

\* delegate, in terms of Caps.
LEMMA DelegateStep ==
  ASSUME NEW parent, NEW rights, Registry!Delegate(parent, rights)
  PROVE  /\ parent \in DOMAIN caps /\ ~caps[parent].revoked /\ rights \subseteq caps[parent].rights
         /\ next_cap < MaxCap /\ next_cap' = next_cap + 1
         /\ caps' = [c \in 1 .. next_cap + 1 |->
                       IF c = next_cap + 1 THEN ChildCap(caps[parent], parent, rights) ELSE caps[c]]
<1>1. Registry!ChildCap(caps[parent], parent, rights) = ChildCap(caps[parent], parent, rights)
  BY Zenon DEF Registry!ChildCap, ChildCap
<1>2. parent \in DOMAIN caps /\ ~caps[parent].revoked /\ rights \subseteq caps[parent].rights
  BY Zenon DEF Registry!Delegate, Registry!DelegateResult
<1> QED
  BY <1>1, <1>2, Zenon DEF Registry!Delegate, Registry!Insert

\* revoke, in terms of Caps.
LEMMA RevokeStep ==
  ASSUME NEW cap, Registry!Revoke(cap)
  PROVE  /\ cap \in DOMAIN caps /\ next_cap' = next_cap /\ DOMAIN caps' = DOMAIN caps
         /\ \A c \in DOMAIN caps :
              caps'[c] = IF c \in DerivedFrom(caps, {cap})
                         THEN [caps[c] EXCEPT !.revoked = TRUE] ELSE caps[c]
<1>1. Registry!DerivedFrom(caps, {cap}) = DerivedFrom(caps, {cap})
  BY Zenon DEF Registry!DerivedFrom, DerivedFrom, Registry!ClosedUnderDerivation,
    ClosedUnderDerivation
<1> DEFINE Revoked(c) == IF c \in Registry!DerivedFrom(caps, {cap})
                         THEN [caps[c] EXCEPT !.revoked = TRUE] ELSE caps[c]
<1>2. caps' = [c \in DOMAIN caps |-> Revoked(c)]
  BY Zenon DEF Registry!Revoke
<1>3. cap \in DOMAIN caps /\ next_cap' = next_cap
  BY Zenon DEF Registry!Revoke
<1> HIDE DEF Revoked
<1>4. DOMAIN caps' = DOMAIN caps /\ \A c \in DOMAIN caps : caps'[c] = Revoked(c)
  BY <1>2, Zenon
<1> QED
  BY <1>1, <1>3, <1>4, Zenon DEF Revoked

\* What the type invariant says of domains.
LEMMA Domains ==
  ASSUME TypeOK
  PROVE  /\ Len(trace) \in Nat /\ DOMAIN trace = 1 .. Len(trace) /\ trace \in Seq(Event)
         /\ Len(courts) \in Nat /\ DOMAIN courts = 1 .. Len(courts)
         /\ Len(corridors) \in Nat /\ DOMAIN corridors = 1 .. Len(corridors)
         /\ next_cap \in 0 .. MaxCap /\ DOMAIN caps = 1 .. next_cap
         /\ \A c \in 1 .. next_cap : caps[c] \in Capability
         /\ DOMAIN root_caps = DOMAIN corridors
         /\ \A o \in DOMAIN corridors : corridors[o] \in Corridor /\ root_caps[o] \in 1 .. next_cap
         /\ DOMAIN cspaces = DOMAIN courts
         /\ \A court \in DOMAIN courts : cspaces[court] \subseteq 1 .. next_cap
<1>1. trace \in Seq(Event) /\ courts \in Seq({"Running", "Faulted"}) /\ corridors \in Seq(Corridor)
  BY Zenon DEF TypeOK
<1>2. next_cap \in 0 .. MaxCap /\ caps \in [1 .. next_cap -> Capability]
  BY RegistryType, Zenon DEF TypeOK
<1>3. cspaces \in [DOMAIN courts -> SUBSET (1 .. next_cap)] /\ root_caps \in [DOMAIN corridors -> 1 .. next_cap]
  BY Zenon DEF TypeOK
<1>4. \A o \in DOMAIN corridors : corridors[o] \in Corridor
  BY <1>1
<1>5. \A o \in DOMAIN corridors : root_caps[o] \in 1 .. next_cap
  BY <1>3, Zenon
<1>6. /\ Len(trace) \in Nat /\ DOMAIN trace = 1 .. Len(trace)
      /\ Len(courts) \in Nat /\ DOMAIN courts = 1 .. Len(courts)
      /\ Len(corridors) \in Nat /\ DOMAIN corridors = 1 .. Len(corridors)
  BY <1>1
<1>7. DOMAIN cspaces = DOMAIN courts /\ \A court \in DOMAIN courts : cspaces[court] \subseteq 1 .. next_cap
  BY <1>3, Zenon
<1>8. DOMAIN caps = 1 .. next_cap /\ \A c \in 1 .. next_cap : caps[c] \in Capability
  BY <1>2, Zenon
<1>9. DOMAIN root_caps = DOMAIN corridors
  BY <1>3, Zenon
<1> QED
  BY <1>1, <1>2, <1>4, <1>5, <1>6, <1>7, <1>8, <1>9, Zenon

\* What no operation takes back.
Kept ==
  /\ DOMAIN courts \subseteq DOMAIN courts'
  /\ DOMAIN corridors \subseteq DOMAIN corridors'
  /\ DOMAIN caps \subseteq DOMAIN caps'
  /\ \A o \in DOMAIN corridors :
       corridors'[o].endpoints = corridors[o].endpoints /\ root_caps'[o] = root_caps[o]

\* The past is not rewritten.
LEMMA BeforeKept ==
  ASSUME TypeOK, NEW j \in 1 .. Len(trace) + 1, \A i \in DOMAIN trace : trace'[i] = trace[i]
  PROVE  /\ \A court : UNCHANGED FaultedBefore(j, court)
         /\ \A court, object, rights :
              root_caps'[object] = root_caps[object]
                => UNCHANGED GrantedBefore(j, court, object, rights)
<1>1. Len(trace) \in Nat /\ DOMAIN trace = 1 .. Len(trace)
  BY Domains, Zenon
<1>2. \A i \in 1 .. j - 1 : trace'[i] = trace[i]
  BY <1>1
<1>3. \A court : UNCHANGED FaultedBefore(j, court)
  BY <1>2, Zenon DEF FaultedBefore
<1>4. ASSUME NEW court, NEW object, NEW rights, root_caps'[object] = root_caps[object]
      PROVE  UNCHANGED GrantedBefore(j, court, object, rights)
  BY <1>2, <1>4 DEF GrantedBefore
<1> QED
  BY <1>3, <1>4, Zenon

\* What was audited stays audited.
LEMMA AuditKept ==
  ASSUME TypeOK, EventsRefer, Kept, NEW j \in DOMAIN trace, Audited(j),
         \A i \in DOMAIN trace : trace'[i] = trace[i]
  PROVE  Audited(j)'
<1>1. j \in 1 .. Len(trace) + 1
  BY Domains
<1>2. \A object \in DOMAIN corridors : root_caps'[object] = root_caps[object]
  BY Zenon DEF Kept
<1>3. \A court : UNCHANGED FaultedBefore(j, court)
  BY <1>1, BeforeKept, Zenon
<1>4. \A court, rights : \A object \in DOMAIN corridors :
        UNCHANGED GrantedBefore(j, court, object, rights)
  BY <1>1, <1>2, BeforeKept, Zenon
<1>5. PICK e : e = trace[j] /\ trace'[j] = e
  BY Zenon
<1>6. e.event \in Uses => e.object \in DOMAIN corridors
  BY <1>5, Zenon DEF EventsRefer
<1>7. CASE e.event \in Uses
  <2>1. /\ GrantedBefore(j, e.court, e.object, RightsUsed(e))
        /\ ~FaultedBefore(j, e.court)
        /\ e.event = "Sent" => \A i \in 1 .. 2 : ~FaultedBefore(j, corridors[e.object].endpoints[i])
    BY <1>5, <1>7, Zenon DEF Audited
  <2>a. UNCHANGED RightsUsed(e)
    BY Zenon DEF RightsUsed
  <2>b. GrantedBefore(j, e.court, e.object, RightsUsed(e))'
    BY <1>4, <1>6, <1>7, <2>1, <2>a, Zenon
  <2>2. ~FaultedBefore(j, e.court)'
    BY <1>3, <2>1, Zenon
  <2>3. corridors'[e.object].endpoints = corridors[e.object].endpoints
    BY <1>6, <1>7, Zenon DEF Kept
  <2> QED
    BY <1>3, <1>5, <2>1, <2>b, <2>2, <2>3, Zenon DEF Audited
<1>8. CASE e.event \notin Uses
  BY <1>5, <1>8, Zenon DEF Audited, Uses
<1> QED
  BY <1>7, <1>8, Zenon

\* A step that records a use, a denial or a missing peer, and changes no
\* table but the queues, keeps the relations between tables and trace.
LEMMA UseInv ==
  ASSUME HostedInv, TypeOK', Kept, NEW e, trace' = Append(trace, e), e \in Event,
         UNCHANGED <<courts, cspaces, next_cap, caps, root_caps>>,
         DOMAIN corridors' = DOMAIN corridors,
         e.event \in Uses => e.object \in DOMAIN corridors,
         e.event \notin {"CapRevoked", "CourtFaulted"},
         NEW n, n = Len(trace) + 1, Audited(n)'
  PROVE  HostedInv'
<1>1. /\ TypeOK /\ TwoLevels /\ GrantsRecorded /\ EventsRefer
      /\ CspacesDisjoint /\ DamageIsContained /\ UseWasAuthorized
  BY Zenon DEF HostedInv
<1>2. /\ Len(trace) \in Nat /\ DOMAIN trace = 1 .. Len(trace) /\ trace \in Seq(Event)
  BY <1>1, Domains, Zenon
<1>3. /\ DOMAIN trace' = 1 .. Len(trace) + 1 /\ Len(trace') = Len(trace) + 1
      /\ \A i \in 1 .. Len(trace) : trace'[i] = trace[i]
      /\ trace'[Len(trace) + 1] = e
  BY <1>2, Appended
<1>4. TwoLevels'
  BY <1>1, Zenon DEF Kept, TwoLevels
<1>5. GrantsRecorded'
  <2> SUFFICES ASSUME NEW court \in DOMAIN courts, NEW cap \in cspaces[court]
               PROVE  \E i \in DOMAIN trace' : trace'[i] = Grant(court, cap)'
    BY Zenon DEF GrantsRecorded
  <2>1. PICK i \in DOMAIN trace : trace[i] = Grant(court, cap)
    BY <1>1, Zenon DEF GrantsRecorded
  <2>2. Grant(court, cap)' = Grant(court, cap)
    BY Zenon DEF Grant
  <2> QED
    BY <1>2, <1>3, <2>1, <2>2
<1>6. EventsRefer'
  <2> SUFFICES ASSUME NEW i \in 1 .. Len(trace) + 1
               PROVE  /\ trace'[i].event \in Uses => trace'[i].object \in DOMAIN corridors
                      /\ trace'[i].event = "CapRevoked" => trace'[i].cap \in DOMAIN caps
                      /\ trace'[i].event = "CourtFaulted" => trace'[i].court \in DOMAIN courts
    BY <1>3, Zenon DEF EventsRefer
  <2>1. CASE i \in 1 .. Len(trace)
    BY <1>1, <1>2, <1>3, <2>1, Zenon DEF EventsRefer
  <2>2. CASE i = Len(trace) + 1
    BY <1>3, <2>2, Zenon
  <2> QED
    BY <1>2, <2>1, <2>2
<1>7. CspacesDisjoint'
  BY <1>1, Zenon DEF CspacesDisjoint
<1>8. DamageIsContained'
  <2>1. \A x : (\E i \in DOMAIN trace' : trace'[i].event = "CapRevoked" /\ trace'[i].cap \in x)
             <=> (\E i \in DOMAIN trace : trace[i].event = "CapRevoked" /\ trace[i].cap \in x)
    BY <1>2, <1>3
  <2>2. ASSUME NEW court PROVE UNCHANGED FaultedBefore(Len(trace) + 1, court)
    <3> SUFFICES (\E i \in 1 .. Len(trace) : trace[i] = [event |-> "CourtFaulted", court |-> court])
                   <=> \E i \in 1 .. Len(trace) + 1 :
                         trace'[i] = [event |-> "CourtFaulted", court |-> court]
      BY <1>2, <1>3 DEF FaultedBefore
    <3>1. trace'[Len(trace) + 1] # [event |-> "CourtFaulted", court |-> court]
      BY <1>3
    <3> QED
      BY <1>2, <1>3, <3>1
  <2>3. \A court \in DOMAIN courts : Running(court)' <=> Running(court)
    BY Zenon DEF Running
  <2> QED
    BY <1>1, <1>3, <2>1, <2>2, <2>3 DEF DamageIsContained
<1>9. UseWasAuthorized'
  <2>1. \A j \in DOMAIN trace : Audited(j)'
    BY <1>1, <1>2, <1>3, AuditKept, Zenon DEF UseWasAuthorized
  <2> QED
    BY <1>2, <1>3, <2>1 DEF UseWasAuthorized
<1> QED
  BY <1>4, <1>5, <1>6, <1>7, <1>8, <1>9, Zenon DEF HostedInv

\* A capability in a CSpace that is not revoked was granted, and neither it
\* nor the root capability it comes from has been revoked.
LEMMA CoveredNow ==
  ASSUME HostedInv, NEW n, n = Len(trace) + 1,
         NEW court \in DOMAIN courts, NEW cap \in cspaces[court],
         cap \in DOMAIN caps, ~caps[cap].revoked, NEW rights, rights \subseteq caps[cap].rights
  PROVE  GrantedBefore(n, court, caps[cap].object, rights)
<1>1. /\ TypeOK /\ TwoLevels /\ GrantsRecorded /\ EventsRefer
      /\ CspacesDisjoint /\ DamageIsContained
  BY Zenon DEF HostedInv
<1>2. Len(trace) \in Nat /\ DOMAIN trace = 1 .. Len(trace) /\ 1 .. n - 1 = DOMAIN trace
  BY <1>1, Domains
<1>3. PICK i \in DOMAIN trace : trace[i] = Grant(court, cap)
  BY <1>1, Zenon DEF GrantsRecorded
<1>4. /\ trace[i].event = "CapGranted" /\ trace[i].court = court /\ trace[i].cap = cap
      /\ trace[i].object = caps[cap].object /\ trace[i].rights = caps[cap].rights
  BY <1>3 DEF Grant
<1>5. caps[cap].parent = root_caps[caps[cap].object]
  BY <1>1, Zenon DEF CspacesDisjoint
<1>6. \A k \in DOMAIN trace : trace[k].event = "CapRevoked" =>
                                trace[k].cap \notin {cap, caps[cap].parent}
  BY <1>1, Zenon DEF DamageIsContained
<1> QED
  BY <1>2, <1>4, <1>5, <1>6, Zenon DEF GrantedBefore

\* The events the operations record are of TraceEvent.
LEMMA EventTypes ==
  ASSUME NEW court \in CourtIds, NEW cap \in CapIds, NEW object \in Objects,
         NEW rights \in SUBSET AllRights, NEW payload \in Nat
  PROVE  /\ [event |-> "CapGranted", court |-> court, cap |-> cap, object |-> object,
              rights |-> rights] \in Event
         /\ [event |-> "Opened", court |-> court, cap |-> cap, object |-> object,
              rights |-> rights] \in Event
         /\ \A reason \in {"NoRight", "BadCap", "Revoked", "InvalidObject"} :
              [event |-> "OpenDenied", court |-> court, object |-> object, reason |-> reason] \in Event
         /\ [event |-> "Sent", court |-> court, object |-> object, payload |-> payload] \in Event
         /\ [event |-> "Received", court |-> court, object |-> object, payload |-> payload] \in Event
         /\ [event |-> "CapRevoked", cap |-> cap] \in Event
         /\ [event |-> "CourtFaulted", court |-> court] \in Event
         /\ [event |-> "PeerDown", court |-> court, object |-> object] \in Event
BY Zenon DEF Event

\* A payload is a number.
LEMMA PayloadType == ASSUME TypeOK PROVE Payload \in Nat
BY Domains, Zenon DEF Payload

\* Recording an event.
LEMMA RecordType ==
  ASSUME TypeOK, NEW e \in Event, Record(e)
  PROVE  /\ trace' \in Seq(Event) /\ Len(trace') <= MaxTrace /\ trace' = Append(trace, e)
         /\ \A i \in DOMAIN trace : trace'[i] = trace[i]
         /\ trace'[Len(trace) + 1] = e /\ Len(trace) \in Nat
<1>1. trace \in Seq(Event) /\ trace' = Append(trace, e) /\ Len(trace) < MaxTrace /\ MaxTrace \in Nat
  BY HostedAssumption, Zenon DEF TypeOK, Record
<1> QED
  BY <1>1, Appended

\* open and the failing send record, and change nothing else.
LEMMA OpenInv ==
  ASSUME HostedInv, NEW court \in CourtIds, NEW object \in descriptors,
         NEW cap \in {NoCap} \cup CapIds, NEW rights \in Opens, open(court, object, cap, rights)
  PROVE  HostedInv'
<1> DEFINE result == OpenResult(court, object, cap, rights)
           e == IF result = "Ok"
                THEN [event |-> "Opened", court |-> court, cap |-> cap, object |-> object,
                      rights |-> rights]
                ELSE [event |-> "OpenDenied", court |-> court, object |-> object,
                      reason |-> result]
<1>1. /\ Running(court) /\ Record(e)
      /\ UNCHANGED <<courts, cspaces, next_cap, caps, entries, descriptors, corridors, root_caps>>
  BY Zenon DEF open
<1>2. TypeOK /\ court \in DOMAIN courts /\ object \in DOMAIN corridors /\ object \in Objects
  <2>1. TypeOK /\ court \in DOMAIN courts /\ object \in DOMAIN corridors
    BY <1>1, Zenon DEF HostedInv, TypeOK, Running
  <2> QED
    BY <2>1, Domains, HostedAssumption, SMTT(30) DEF TypeOK
<1>3. rights \in SUBSET AllRights
  BY HostedAssumption, Zenon
<1>4. CASE result = "Ok"
  <2>1. /\ cap \in cspaces[court] /\ cap \in DOMAIN caps /\ ~caps[cap].revoked
        /\ rights \subseteq caps[cap].rights /\ caps[cap].object = object /\ cap \in CapIds
    BY <1>4, Zenon DEF OpenResult, AuthorizeResult
  <2>2. PICK f : f = e
    BY Zenon
  <2>3. f = [event |-> "Opened", court |-> court, cap |-> cap, object |-> object, rights |-> rights]
    BY <1>4, <2>2, Zenon
  <2>4. f \in Event
    BY <1>2, <1>3, <2>1, <2>3, EventTypes, Zenon
  <2> HIDE DEF e, result
  <2>5. /\ trace' \in Seq(Event) /\ Len(trace') <= MaxTrace /\ trace' = Append(trace, f)
        /\ \A i \in DOMAIN trace : trace'[i] = trace[i]
        /\ trace'[Len(trace) + 1] = f /\ Len(trace) \in Nat
    BY <1>1, <1>2, <2>2, <2>4, RecordType, Zenon
  <2>6. TypeOK'
    BY <1>1, <1>2, <2>5, Zenon DEF TypeOK, Registry!TypeOK
  <2>7. PICK n : n = Len(trace) + 1
    BY Zenon
  <2>8. GrantedBefore(n, court, object, rights) /\ ~FaultedBefore(n, court)
    <3>1. DamageIsContained
      BY Zenon DEF HostedInv
    <3> QED
      BY <1>1, <1>2, <2>1, <2>7, <3>1, CoveredNow, Zenon DEF DamageIsContained
  <2>9. GrantedBefore(n, court, object, rights)' /\ ~FaultedBefore(n, court)'
    BY <1>1, <1>2, <2>5, <2>7, <2>8, BeforeKept, SMTT(30)
  <2>10. Audited(n)'
    BY <2>3, <2>5, <2>7, <2>9, SMTT(30) DEF Audited, RightsUsed
  <2>11. Kept
    BY <1>1, Zenon DEF Kept
  <2> QED
    BY <1>1, <1>2, <2>3, <2>4, <2>5, <2>6, <2>7, <2>10, <2>11, UseInv, Zenon DEF Uses
<1>5. CASE result # "Ok"
  <2>2. PICK f : f = e
    BY Zenon
  <2>3. f = [event |-> "OpenDenied", court |-> court, object |-> object, reason |-> result]
    BY <1>5, <2>2, Zenon
  <2>a. result \in {"NoRight", "BadCap", "Revoked", "InvalidObject"}
    BY <1>5, Zenon DEF OpenResult, AuthorizeResult
  <2> HIDE DEF e, result
  <2>4. f \in Event
    BY <1>2, <2>3, <2>a, Zenon DEF Event
  <2>5. /\ trace' \in Seq(Event) /\ Len(trace') <= MaxTrace /\ trace' = Append(trace, f)
        /\ \A i \in DOMAIN trace : trace'[i] = trace[i]
        /\ trace'[Len(trace) + 1] = f /\ Len(trace) \in Nat
    BY <1>1, <1>2, <2>2, <2>4, RecordType, Zenon
  <2>6. TypeOK'
    BY <1>1, <1>2, <2>5, Zenon DEF TypeOK, Registry!TypeOK
  <2>7. PICK n : n = Len(trace) + 1
    BY Zenon
  <2>10. Audited(n)'
    BY <2>3, <2>5, <2>7 DEF Audited, Uses
  <2>11. Kept
    BY <1>1, Zenon DEF Kept
  <2> QED
    BY <1>1, <1>2, <2>3, <2>4, <2>5, <2>6, <2>7, <2>10, <2>11, UseInv, Zenon DEF Uses
<1> QED
  BY <1>4, <1>5, Zenon

\* A failing send that finds its peer down records so, and no more.
LEMMA PeerDownInv ==
  ASSUME HostedInv, NEW court \in CourtIds, NEW cap \in CapIds, SendPeerDown(court, cap)
  PROVE  HostedInv'
<1>1. /\ SendResult(court, cap) = "PeerDown"
      /\ Record([event |-> "PeerDown", court |-> court, object |-> caps[cap].object])
      /\ UNCHANGED <<courts, cspaces, next_cap, caps, entries, descriptors, corridors, root_caps>>
  BY Zenon DEF SendPeerDown
<1>2. TypeOK /\ cap \in DOMAIN caps
  BY <1>1, Zenon DEF HostedInv, SendResult, AuthorizeResult
<1>3. caps[cap].object \in Objects
  BY <1>2, Domains, Zenon DEF Capability
<1>4. PICK f : f = [event |-> "PeerDown", court |-> court, object |-> caps[cap].object]
  BY Zenon
<1>5. f \in Event
  BY <1>3, <1>4, Zenon DEF Event
<1>6. /\ trace' \in Seq(Event) /\ Len(trace') <= MaxTrace /\ trace' = Append(trace, f)
      /\ trace'[Len(trace) + 1] = f
  <2>1. Record(f)
    BY <1>1, <1>4, Zenon
  <2> QED
    BY <1>2, <1>5, <2>1, RecordType, Zenon
<1>7. TypeOK'
  BY <1>1, <1>2, <1>6, Zenon DEF TypeOK, Registry!TypeOK
<1>8. PICK n : n = Len(trace) + 1
  BY Zenon
<1>9. Audited(n)'
  <2>1. trace'[n].event = "PeerDown"
    BY <1>4, <1>6, <1>8
  <2> QED
    BY <2>1, Zenon DEF Audited, Uses
<1>10. Kept
  BY <1>1, Zenon DEF Kept
<1> QED
  BY <1>1, <1>4, <1>5, <1>6, <1>7, <1>8, <1>9, <1>10, UseInv, Zenon DEF Uses

\* A send or a receive changes the queue of its corridor, and no more of it.
LEMMA QueueType ==
  ASSUME TypeOK, NEW object \in DOMAIN corridors, NEW queue \in Seq(Nat),
         corridors' = [corridors EXCEPT ![object].queue = queue]
  PROVE  /\ corridors' \in Seq(Corridor) /\ Len(corridors') = Len(corridors)
         /\ DOMAIN corridors' = DOMAIN corridors
         /\ \A o \in DOMAIN corridors : corridors'[o].endpoints = corridors[o].endpoints
<1>1. /\ corridors \in Seq(Corridor) /\ DOMAIN corridors = 1 .. Len(corridors)
      /\ corridors[object] \in Corridor
  BY Domains, Zenon DEF TypeOK
<1>2. PICK new : new = [corridors[object] EXCEPT !.queue = queue]
  BY Zenon
<1>3. new \in Corridor /\ new.endpoints = corridors[object].endpoints
  BY <1>1, <1>2, Zenon DEF Corridor
<1>4. corridors' = [corridors EXCEPT ![object] = new]
  BY <1>2, Zenon
<1>5. corridors' \in Seq(Corridor) /\ Len(corridors') = Len(corridors)
  <2>1. object \in 1 .. Len(corridors) /\ new \in Corridor /\ corridors \in Seq(Corridor)
    BY <1>1, <1>3, Zenon
  <2>2. /\ [corridors EXCEPT ![object] = new] \in Seq(Corridor)
        /\ Len([corridors EXCEPT ![object] = new]) = Len(corridors)
    BY <2>1
  <2> QED
    BY <1>4, <2>2, Zenon
<1>6. \A o \in DOMAIN corridors : corridors'[o] = IF o = object THEN new ELSE corridors[o]
  BY <1>1, <1>4, Zenon
<1>7. DOMAIN corridors' = DOMAIN corridors
  BY <1>4, Zenon
<1> QED
  BY <1>3, <1>5, <1>6, <1>7, Zenon

\* A message is sent or received under a capability of the court that is

\* good for it, and sent only while both endpoints run.
LEMMA TransferInv ==
  ASSUME HostedInv, NEW court \in CourtIds, NEW cap \in CapIds, send(court, cap) \/ recv(court, cap)
  PROVE  HostedInv'
<1>1. TypeOK /\ TwoLevels /\ DamageIsContained
  BY Zenon DEF HostedInv
<1>2. /\ UNCHANGED <<courts, cspaces, next_cap, caps, entries, descriptors, root_caps>>
      /\ Running(court) /\ cap \in cspaces[court] /\ cap \in DOMAIN caps /\ ~caps[cap].revoked
  BY Zenon DEF send, recv, SendResult, RecvResult, AuthorizeResult
<1>3. PICK object : object = caps[cap].object
  BY Zenon
<1>4. /\ court \in DOMAIN courts /\ object \in DOMAIN corridors /\ object \in Objects
      /\ corridors[object] \in Corridor
  <2>1. court \in DOMAIN courts
    BY <1>2, Zenon DEF Running
  <2>2. object \in DOMAIN corridors
    BY <1>1, <1>2, <1>3, Zenon DEF TwoLevels
  <2>3. object \in Objects /\ corridors[object] \in Corridor
    BY <1>1, <1>2, <1>3, <2>2, Domains, Zenon DEF Capability
  <2> QED
    BY <2>1, <2>2, <2>3, Zenon
<1>5. corridors[object].queue \in Seq(Nat) /\ corridors[object].endpoints \in CourtIds \X CourtIds
  BY <1>4, Zenon DEF Corridor
<1>6. PICK f \in Event, queue \in Seq(Nat), right \in {SEND, RECV} :
        /\ Record(f) /\ corridors' = [corridors EXCEPT ![object].queue = queue]
        /\ f.court = court /\ f.object = object /\ {right} \subseteq caps[cap].rights
        /\ \/ f.event = "Sent" /\ right = SEND /\ SendResult(court, cap) = "Ok"
           \/ f.event = "Received" /\ right = RECV
  <2>1. CASE send(court, cap)
    <3> DEFINE f == [event |-> "Sent", court |-> court, object |-> object, payload |-> Payload]
    <3>1. Payload \in Nat
      BY <1>1, PayloadType, Zenon
    <3>2. f \in Event
      BY <1>4, <3>1, Zenon DEF Event
    <3>3. Append(corridors[object].queue, Payload) \in Seq(Nat)
      BY <1>5, <3>1, SMTT(30)
    <3>4. /\ Record(f) /\ SendResult(court, cap) = "Ok"
          /\ corridors' = [corridors EXCEPT ![object].queue = Append(corridors[object].queue, Payload)]
      BY <1>3, <2>1, Zenon DEF send
    <3>5. {SEND} \subseteq caps[cap].rights
      BY <3>4, Zenon DEF SendResult, AuthorizeResult
    <3>6. f.court = court /\ f.object = object /\ f.event = "Sent"
      BY Zenon
    <3> HIDE DEF f
    <3> QED
      BY <3>2, <3>3, <3>4, <3>5, <3>6, Zenon
  <2>2. CASE recv(court, cap)
    <3>1. corridors[object].queue # <<>> /\ {RECV} \subseteq caps[cap].rights
      BY <1>3, <2>2, Zenon DEF recv, RecvResult, AuthorizeResult
    <3>2. PICK payload : payload = Head(corridors[object].queue)
      BY Zenon
    <3> DEFINE f == [event |-> "Received", court |-> court, object |-> object, payload |-> payload]
    <3>3. payload \in Nat /\ Tail(corridors[object].queue) \in Seq(Nat)
      BY <1>5, <3>1, <3>2, SMTT(30)
    <3>4. f \in Event
      BY <1>4, <3>3, Zenon DEF Event
    <3>5. Record(f) /\ corridors' = [corridors EXCEPT ![object].queue = Tail(corridors[object].queue)]
      BY <1>3, <2>2, <3>2, Zenon DEF recv
    <3>6. f.court = court /\ f.object = object /\ f.event = "Received"
      BY Zenon
    <3> HIDE DEF f
    <3> QED
      BY <3>1, <3>3, <3>4, <3>5, <3>6, Zenon
  <2> QED
    BY <2>1, <2>2, Zenon
<1>7. /\ trace' \in Seq(Event) /\ Len(trace') <= MaxTrace /\ trace' = Append(trace, f)
      /\ \A i \in DOMAIN trace : trace'[i] = trace[i]
      /\ trace'[Len(trace) + 1] = f /\ Len(trace) \in Nat
  BY <1>1, <1>6, RecordType, Zenon
<1>8. /\ corridors' \in Seq(Corridor) /\ Len(corridors') = Len(corridors)
      /\ DOMAIN corridors' = DOMAIN corridors
      /\ \A o \in DOMAIN corridors : corridors'[o].endpoints = corridors[o].endpoints
  BY <1>1, <1>4, <1>6, QueueType, Zenon
<1>9. TypeOK'
  BY <1>1, <1>2, <1>7, <1>8, Zenon DEF TypeOK, Registry!TypeOK
<1>10. Kept
  BY <1>2, <1>8, Zenon DEF Kept
<1>11. PICK n : n = Len(trace) + 1
  BY Zenon
<1>12. GrantedBefore(n, court, object, {right})'
  <2>1. GrantedBefore(n, court, object, {right})
    BY <1>2, <1>3, <1>4, <1>6, <1>11, CoveredNow, Zenon
  <2>2. n \in 1 .. Len(trace) + 1 /\ root_caps'[object] = root_caps[object]
    BY <1>2, <1>11, SMTT(30)
  <2>3. UNCHANGED GrantedBefore(n, court, object, {right})
    BY <1>1, <1>7, <2>2, BeforeKept, Zenon
  <2> QED
    BY <2>1, <2>3, Zenon
<1>13. \A c : UNCHANGED FaultedBefore(n, c)
  BY <1>1, <1>7, <1>11, BeforeKept, SMTT(30)
<1>14. \A c \in DOMAIN courts : Running(c) => ~FaultedBefore(n, c)
  BY <1>1, <1>11, Zenon DEF DamageIsContained
<1>15. ASSUME f.event = "Sent", NEW e \in 1 .. 2
       PROVE  ~FaultedBefore(n, corridors[object].endpoints[e])'
  <2>1. PICK peer : peer = corridors[object].endpoints[e]
    BY Zenon
  <2>2. Running(peer)
    BY <1>2, <1>3, <1>6, <1>15, <2>1, Zenon DEF SendResult, HasPeerDown
  <2>3. peer \in DOMAIN courts
    BY <2>2, Zenon DEF Running
  <2>4. ~FaultedBefore(n, peer)'
    BY <1>13, <1>14, <2>2, <2>3, Zenon
  <2>5. corridors'[object].endpoints[e] = peer
    BY <1>4, <1>8, <2>1, Zenon
  <2> QED
    BY <2>4, <2>5, Zenon DEF FaultedBefore
<1>16. Audited(n)'
  <2>1. RightsUsed(f) = {right} /\ f.event \in Uses
    BY <1>6, Zenon DEF RightsUsed, Uses
  <2>2. trace'[n] = f /\ f.court = court /\ f.object = object
    BY <1>6, <1>7, <1>11, Zenon
  <2>3. ~FaultedBefore(n, court)'
    BY <1>2, <1>4, <1>13, <1>14, Zenon
  <2> QED
    BY <1>12, <1>15, <2>1, <2>2, <2>3, Zenon DEF Audited
<1> QED
  BY <1>2, <1>4, <1>6, <1>7, <1>8, <1>9, <1>10, <1>11, <1>16, UseInv, Zenon DEF Uses

\* Steps that record nothing, and only add.
LEMMA SilentInv ==
  ASSUME HostedInv, TypeOK', Kept, UNCHANGED trace,
         TwoLevels', CspacesDisjoint', DamageIsContained',
         \A court \in DOMAIN courts' : \A cap \in cspaces'[court] :
           court \in DOMAIN courts /\ cap \in cspaces[court] /\ caps'[cap] = caps[cap]
  PROVE  HostedInv'
<1>1. /\ TypeOK /\ GrantsRecorded /\ EventsRefer /\ UseWasAuthorized
  BY Zenon DEF HostedInv
<1>2. GrantsRecorded'
  <2> SUFFICES ASSUME NEW court \in DOMAIN courts', NEW cap \in cspaces'[court]
               PROVE  \E i \in DOMAIN trace : trace[i] = Grant(court, cap)'
    BY Zenon DEF GrantsRecorded
  <2>1. \E i \in DOMAIN trace : trace[i] = Grant(court, cap)
    BY <1>1, Zenon DEF GrantsRecorded
  <2> QED
    BY <2>1, Zenon DEF Grant
<1>3. EventsRefer'
  BY <1>1, Zenon DEF EventsRefer, Kept
<1>4. UseWasAuthorized'
  BY <1>1, AuditKept, Zenon DEF UseWasAuthorized
<1> QED
  BY <1>2, <1>3, <1>4, Zenon DEF HostedInv

\* A new court is running and has nothing.
LEMMA CourtInv ==
  ASSUME HostedInv, create_court
  PROVE  HostedInv'
<1>1. /\ TypeOK /\ TwoLevels /\ EventsRefer /\ CspacesDisjoint /\ DamageIsContained
  BY Zenon DEF HostedInv
<1>2. /\ Len(courts) < MaxCourt /\ courts' = Append(courts, "Running") /\ cspaces' = Append(cspaces, {})
      /\ UNCHANGED <<next_cap, caps, entries, descriptors, corridors, root_caps, trace>>
  BY Zenon DEF create_court
<1>3. /\ courts \in Seq({"Running", "Faulted"}) /\ Len(courts) \in Nat
      /\ cspaces \in [1 .. Len(courts) -> SUBSET (1 .. next_cap)]
  BY <1>1, Domains, Zenon DEF TypeOK
<1>4. PICK n : n = Len(courts) + 1
  BY Zenon
<1>5. /\ courts' \in Seq({"Running", "Faulted"}) /\ Len(courts') = n /\ n \in Nat \ {0}
      /\ DOMAIN courts' = 1 .. n /\ DOMAIN courts = 1 .. n - 1
      /\ courts'[n] = "Running" /\ \A c \in DOMAIN courts : courts'[c] = courts[c]
  BY <1>2, <1>3, <1>4, Appended
<1>6. cspaces \in Seq(SUBSET (1 .. next_cap)) /\ Len(cspaces) = n - 1
  BY <1>3, <1>4, IsSequence
<1>7. /\ cspaces' \in [1 .. n -> SUBSET (1 .. next_cap)]
      /\ \A c \in DOMAIN courts : cspaces'[c] = cspaces[c]
      /\ cspaces'[n] = {}
  <2>1. /\ cspaces' \in Seq(SUBSET (1 .. next_cap)) /\ Len(cspaces') = n
        /\ \A c \in 1 .. n - 1 : cspaces'[c] = cspaces[c]
        /\ cspaces'[n] = {}
    BY <1>2, <1>5, <1>6, SMTT(30)
  <2> QED
    BY <1>5, <2>1
<1>8. TypeOK'
  <2>1. Len(courts') <= MaxCourt
    BY <1>2, <1>3, <1>4, <1>5, HostedAssumption, SMTT(30)
  <2> QED
    BY <1>1, <1>2, <1>5, <1>7, <2>1, Zenon DEF TypeOK, Registry!TypeOK
<1>9. Kept
  BY <1>2, <1>5 DEF Kept
<1>10. TwoLevels'
  BY <1>1, <1>2, Zenon DEF TwoLevels
<1>11. CspacesDisjoint'
  <2>1. \A c \in DOMAIN courts' : c \in DOMAIN courts \/ c = n
    BY <1>5
  <2>2. \A c \in DOMAIN courts : c # n
    BY <1>5
  <2>3. \A c \in DOMAIN courts' : cspaces'[c] = IF c = n THEN {} ELSE cspaces[c]
    BY <1>7, <2>1, <2>2, Zenon
  <2>4. \A c \in DOMAIN courts : \A cap \in cspaces[c] : caps[cap].parent = root_caps[caps[cap].object]
    BY <1>1, Zenon DEF CspacesDisjoint
  <2>5. \A c \in DOMAIN courts' : \A cap \in cspaces'[c] : caps[cap].parent = root_caps[caps[cap].object]
    BY <2>1, <2>3, <2>4, Zenon
  <2>6. \A c, d \in DOMAIN courts : c # d => cspaces[c] \cap cspaces[d] = {}
    BY <1>1, Zenon DEF CspacesDisjoint
  <2>7. \A c, d \in DOMAIN courts' : c # d => cspaces'[c] \cap cspaces'[d] = {}
    BY <2>1, <2>3, <2>6, Zenon
  <2> QED
    BY <1>2, <2>5, <2>7, Zenon DEF CspacesDisjoint
<1>12. DamageIsContained'
  <2>1. \A c \in DOMAIN courts : Running(c)' <=> Running(c)
    <3>1. \A c \in DOMAIN courts : c \in DOMAIN courts' /\ courts'[c] = courts[c]
      BY <1>5
    <3> QED
      BY <3>1, Zenon DEF Running
  <2>2. Running(n)'
    BY <1>5 DEF Running
  <2>3. \A c : UNCHANGED FaultedBefore(Len(trace) + 1, c)
    BY <1>2, Zenon DEF FaultedBefore
  <2>4. ~FaultedBefore(Len(trace) + 1, n)
    <3>1. \A i \in DOMAIN trace : trace[i].event = "CourtFaulted" => trace[i].court # n
      BY <1>1, <1>5 DEF EventsRefer
    <3> QED
      BY <3>1, SMTT(30) DEF FaultedBefore
  <2>5. \A c \in DOMAIN courts' : c \in DOMAIN courts \/ c = n
    BY <1>5
  <2> QED
    BY <1>1, <1>2, <2>1, <2>2, <2>3, <2>4, <2>5, Zenon DEF DamageIsContained
<1>13. \A court \in DOMAIN courts' : \A cap \in cspaces'[court] :
         court \in DOMAIN courts /\ cap \in cspaces[court] /\ caps'[cap] = caps[cap]
  BY <1>2, <1>5, <1>7, SMTT(30)
<1> QED
  BY <1>2, <1>8, <1>9, <1>10, <1>11, <1>12, <1>13, SilentInv, Zenon

\* lookup hands out a descriptor.
LEMMA LookupInv ==
  ASSUME HostedInv, NEW court, NEW path, lookup(court, path)
  PROVE  HostedInv'
<1>1. /\ TypeOK /\ TwoLevels /\ CspacesDisjoint /\ DamageIsContained
  BY Zenon DEF HostedInv
<1>2. /\ path \in DOMAIN entries /\ descriptors' = descriptors \cup {entries[path]}
      /\ UNCHANGED <<courts, cspaces, next_cap, caps, entries, corridors, root_caps, trace>>
  BY Zenon DEF lookup
<1>3. descriptors' \subseteq DOMAIN corridors
  BY <1>1, <1>2, Zenon DEF TypeOK
<1>4. TypeOK'
  BY <1>1, <1>2, <1>3, Zenon DEF TypeOK, Registry!TypeOK
<1>5. TwoLevels' /\ CspacesDisjoint'
  BY <1>1, <1>2, SMTT(30) DEF TwoLevels, CspacesDisjoint
<1>6. DamageIsContained'
  BY <1>1, <1>2, Zenon DEF DamageIsContained, Running, FaultedBefore
<1>7. Kept
  BY <1>2, Zenon DEF Kept
<1> QED
  BY <1>2, <1>4, <1>5, <1>6, <1>7, SilentInv, Zenon

\* A new id is not in use: nothing granted, revoked or derived names it.
LEMMA FreshCap ==
  ASSUME HostedInv
  PROVE  /\ next_cap \in Nat /\ next_cap + 1 \notin DOMAIN caps
         /\ \A court \in DOMAIN courts : next_cap + 1 \notin cspaces[court]
         /\ \A i \in DOMAIN trace : trace[i].event = "CapRevoked" => trace[i].cap # next_cap + 1
         /\ \A c \in DOMAIN caps : caps[c].parent # next_cap + 1
<1>1. TypeOK /\ TwoLevels /\ EventsRefer
  BY Zenon DEF HostedInv
<1>2. /\ next_cap \in Nat /\ DOMAIN caps = 1 .. next_cap
      /\ \A o \in DOMAIN corridors : root_caps[o] \in 1 .. next_cap
      /\ \A court \in DOMAIN courts : cspaces[court] \subseteq 1 .. next_cap
  BY <1>1, Domains
<1>3. next_cap + 1 \notin 1 .. next_cap /\ next_cap + 1 # NoCap
  BY <1>2 DEF NoCap
<1>4. \A i \in DOMAIN trace : trace[i].event = "CapRevoked" => trace[i].cap # next_cap + 1
  BY <1>1, <1>2, <1>3, Zenon DEF EventsRefer
<1>5. \A c \in DOMAIN caps : caps[c].parent # next_cap + 1
  BY <1>1, <1>2, <1>3, SMTT(30) DEF TwoLevels
<1> QED
  BY <1>2, <1>3, <1>4, <1>5, Zenon

\* A new corridor gets a root capability of its own, which nobody has.
LEMMA CorridorInv ==
  ASSUME HostedInv, NEW path \in Paths, NEW first \in CourtIds, NEW second \in CourtIds,
         NEW capacity \in Capacities, create_corridor(path, first, second, capacity)
  PROVE  HostedInv'
<1>1. /\ TypeOK /\ TwoLevels /\ EventsRefer /\ CspacesDisjoint /\ DamageIsContained
  BY Zenon DEF HostedInv
<1>2. PICK new, n, id, root : /\ new = [endpoints |-> <<first, second>>, queue |-> <<>>, capacity |-> capacity]
                              /\ n = Len(corridors) + 1 /\ id = next_cap + 1
                              /\ root = RootCap(n, CorridorRights)
  BY Zenon
<1>3. /\ Len(corridors) < MaxObject /\ corridors' = Append(corridors, new)
      /\ root_caps' = Append(root_caps, id)
      /\ entries' = [p \in DOMAIN entries \cup {path} |-> IF p = path THEN n ELSE entries[p]]
      /\ UNCHANGED <<courts, cspaces, descriptors, trace>>
  BY <1>2, Zenon DEF create_corridor
<1>4. /\ next_cap < MaxCap /\ next_cap' = id
      /\ caps' = [c \in 1 .. id |-> IF c = id THEN root ELSE caps[c]]
  <2>1. Registry!MintRoot(Len(corridors) + 1, CorridorRights)
    BY Zenon DEF create_corridor
  <2> QED
    BY <1>2, <2>1, MintStep, SMTT(30)
<1>5. /\ corridors \in Seq(Corridor) /\ Len(corridors) \in Nat /\ next_cap \in Nat
      /\ root_caps \in [1 .. Len(corridors) -> 1 .. next_cap] /\ DOMAIN caps = 1 .. next_cap
      /\ \A c \in 1 .. next_cap : caps[c] \in Capability
  BY <1>1, Domains, SMTT(30) DEF TypeOK
<1>6. new \in Corridor
  <2>1. <<>> \in Seq(Nat) /\ capacity \in Nat
    BY HostedAssumption, SMTT(30)
  <2> QED
    BY <1>2, <2>1, Zenon DEF Corridor
<1>7. /\ corridors' \in Seq(Corridor) /\ Len(corridors') = n /\ n \in Nat \ {0}
      /\ DOMAIN corridors' = 1 .. n /\ DOMAIN corridors = 1 .. n - 1
      /\ corridors'[n] = new /\ \A o \in DOMAIN corridors : corridors'[o] = corridors[o]
  BY <1>2, <1>3, <1>5, <1>6, SMTT(30)
<1>8. /\ root_caps' \in [1 .. n -> 1 .. id] /\ root_caps'[n] = id
      /\ \A o \in DOMAIN corridors : root_caps'[o] = root_caps[o] /\ root_caps[o] \in 1 .. next_cap
  <2>a. PICK m \in Nat : m = Len(corridors) /\ root_caps \in [1 .. m -> 1 .. next_cap]
    BY <1>5, Zenon
  <2>b. root_caps \in Seq(1 .. next_cap) /\ Len(root_caps) = m
    BY <2>a, IsSequence, Zenon
  <2>1. root_caps \in Seq(1 .. next_cap) /\ Len(root_caps) = n - 1
    BY <1>2, <2>a, <2>b
  <2>2. root_caps \in Seq(1 .. id) /\ id \in 1 .. id
    BY <1>2, <1>5, <2>1, SMTT(30)
  <2>3. /\ root_caps' \in Seq(1 .. id) /\ Len(root_caps') = n
        /\ \A o \in 1 .. n - 1 : root_caps'[o] = root_caps[o]
        /\ root_caps'[n] = id
    BY <1>3, <1>7, <2>1, <2>2, SMTT(30)
  <2> QED
    BY <1>2, <1>5, <1>7, <2>3
<1>9. /\ root.object = n /\ root.parent = NoCap /\ root.revoked = FALSE /\ n \in Objects
      /\ root \in Capability
  <2>1. n \in Objects /\ CorridorRights \in SUBSET AllRights
    BY <1>2, <1>3, HostedAssumption, SMTT(30)
  <2> QED
    BY <1>2, <2>1, Zenon DEF RootCap, Capability
<1>10. /\ DOMAIN caps' = 1 .. id /\ caps'[id] = root
       /\ \A c \in DOMAIN caps : caps'[c] = caps[c] /\ c # id
       /\ \A c \in DOMAIN caps' : c \in DOMAIN caps \/ c = id
  BY <1>2, <1>4, <1>5, SMTT(30)
<1>11. TypeOK'
  <2>1. Registry!TypeOK'
    <3>1. next_cap' \in 0 .. MaxCap
      BY <1>2, <1>4, <1>5, CapsAssumption, SMTT(30)
    <3>2. \A c \in 1 .. id : caps'[c] \in Capability
      BY <1>5, <1>9, <1>10, Zenon
    <3>3. caps' \in [1 .. next_cap' -> Capability]
      BY <1>4, <1>10, <3>2, Zenon
    <3> QED
      BY <3>1, <3>3, RegistryTypeNext, Zenon
  <2>2. cspaces' \in [DOMAIN courts' -> SUBSET (1 .. next_cap')]
    <3>1. cspaces \in [DOMAIN courts -> SUBSET (1 .. next_cap)]
      BY <1>1, Zenon DEF TypeOK
    <3>2. 1 .. next_cap \subseteq 1 .. next_cap'
      BY <1>2, <1>4, <1>5, SMTT(30)
    <3> QED
      BY <1>3, <3>1, <3>2, Zenon
  <2>3. Len(corridors') <= MaxObject
    BY <1>3, HostedAssumption, SMTT(30)
  <2>4. root_caps' \in [DOMAIN corridors' -> 1 .. next_cap']
    BY <1>4, <1>7, <1>8, Zenon
  <2>5. DOMAIN corridors \subseteq DOMAIN corridors' /\ n \in DOMAIN corridors'
    BY <1>7, SMTT(30)
  <2>6. /\ DOMAIN entries' \subseteq Paths
        /\ \A p \in DOMAIN entries' : entries'[p] \in DOMAIN corridors'
        /\ descriptors' \subseteq DOMAIN corridors'
    BY <1>1, <1>3, <2>5, Zenon DEF TypeOK
  <2>7. /\ Len(courts') <= MaxCourt /\ courts' \in Seq({"Running", "Faulted"})
        /\ trace' \in Seq(Event) /\ Len(trace') <= MaxTrace
    BY <1>1, <1>3, Zenon DEF TypeOK
  <2> QED
    BY <1>7, <2>1, <2>2, <2>3, <2>4, <2>6, <2>7, Zenon DEF TypeOK
<1>12. Kept
  <2>1. DOMAIN corridors \subseteq DOMAIN corridors'
    BY <1>7, SMTT(30)
  <2>2. DOMAIN caps \subseteq DOMAIN caps'
    <3>1. DOMAIN caps = 1 .. next_cap
      BY <1>5, Zenon
    <3>2. 1 .. next_cap \subseteq 1 .. id
      BY <1>2, <1>5
    <3>3. DOMAIN caps' = 1 .. id
      BY <1>10, Zenon
    <3> QED
      BY <3>1, <3>2, <3>3, Zenon
  <2>3. \A o \in DOMAIN corridors :
          corridors'[o].endpoints = corridors[o].endpoints /\ root_caps'[o] = root_caps[o]
    BY <1>7, <1>8, Zenon
  <2> QED
    BY <1>3, <2>1, <2>2, <2>3, Zenon DEF Kept
<1>13. TwoLevels'
  <2>1. \A o \in DOMAIN corridors' : o \in DOMAIN corridors \/ o = n
    BY <1>7
  <2>2. \A o \in DOMAIN corridors : root_caps[o] \in DOMAIN caps
    BY <1>5, <1>8, Zenon
  <2>3. \A o \in DOMAIN corridors' :
          caps'[root_caps'[o]].object = o /\ caps'[root_caps'[o]].parent = NoCap
    BY <1>1, <1>8, <1>9, <1>10, <2>1, <2>2, SMTT(30) DEF TwoLevels
  <2>4. \A c \in DOMAIN caps :
          /\ caps[c].object \in DOMAIN corridors'
          /\ caps[c].parent \in {NoCap, root_caps'[caps[c].object]}
    BY <1>1, <1>8, <1>12, Zenon DEF TwoLevels, Kept
  <2>5. n \in DOMAIN corridors'
    BY <1>7, SMTT(30)
  <2> QED
    BY <1>9, <1>10, <2>3, <2>4, <2>5, Zenon DEF TwoLevels
<1>14. \A court \in DOMAIN courts : \A cap \in cspaces[court] :
         /\ cap \in DOMAIN caps /\ caps'[cap] = caps[cap]
         /\ root_caps'[caps[cap].object] = root_caps[caps[cap].object]
  <2>1. \A court \in DOMAIN courts : \A cap \in cspaces[court] : cap \in DOMAIN caps
    BY <1>1, Domains, Zenon
  <2> QED
    BY <1>1, <1>8, <1>10, <2>1, Zenon DEF TwoLevels
<1>15. CspacesDisjoint'
  <2>1. \A court \in DOMAIN courts : \A cap \in cspaces[court] :
          caps'[cap].parent = root_caps'[caps'[cap].object]
    BY <1>1, <1>14, SMTT(30) DEF CspacesDisjoint
  <2>2. \A c \in DOMAIN courts : \A d \in DOMAIN courts \ {c} : cspaces[c] \cap cspaces[d] = {}
    BY <1>1, Zenon DEF CspacesDisjoint
  <2> QED
    BY <1>3, <2>1, <2>2, Zenon DEF CspacesDisjoint
<1>16. DamageIsContained'
  <2>1. \A c \in DOMAIN caps : caps'[c].revoked <=>
          \E i \in DOMAIN trace : trace[i].event = "CapRevoked" /\ trace[i].cap \in {c, caps'[c].parent}
    BY <1>1, <1>10, Zenon DEF DamageIsContained
  <2>2. \A i \in DOMAIN trace : trace[i].event = "CapRevoked" => trace[i].cap # id /\ trace[i].cap # NoCap
    <3>1. \A k \in 1 .. next_cap : k # id /\ k # NoCap
      BY <1>2, <1>5 DEF NoCap
    <3>2. \A i \in DOMAIN trace : trace[i].event = "CapRevoked" => trace[i].cap \in 1 .. next_cap
      BY <1>1, <1>5, Zenon DEF EventsRefer
    <3> QED
      BY <3>1, <3>2, Zenon
  <2>3. caps'[id].revoked <=>
          \E i \in DOMAIN trace : trace[i].event = "CapRevoked" /\ trace[i].cap \in {id, caps'[id].parent}
    BY <1>9, <1>10, <2>2, Zenon
  <2>4. \A court \in DOMAIN courts :
          (Running(court) <=> ~FaultedBefore(Len(trace) + 1, court))'
    BY <1>1, <1>3, Zenon DEF DamageIsContained, Running, FaultedBefore
  <2> QED
    BY <1>3, <1>10, <2>1, <2>3, <2>4, Zenon DEF DamageIsContained
<1> QED
  BY <1>3, <1>11, <1>12, <1>13, <1>14, <1>15, <1>16, SilentInv, Zenon

\* Steps that record a change of authority.
LEMMA AuthorityInv ==
  ASSUME HostedInv, TypeOK', Kept, NEW e \in Event, Record(e), e.event \notin Uses,
         TwoLevels', CspacesDisjoint', DamageIsContained',
         e.event = "CapRevoked" => e.cap \in DOMAIN caps',
         e.event = "CourtFaulted" => e.court \in DOMAIN courts',
         \A court \in DOMAIN courts' : \A cap \in cspaces'[court] :
           \/ /\ court \in DOMAIN courts /\ cap \in cspaces[court]
              /\ caps'[cap].object = caps[cap].object /\ caps'[cap].rights = caps[cap].rights
           \/ e = [event |-> "CapGranted", court |-> court, cap |-> cap,
                    object |-> caps'[cap].object, rights |-> caps'[cap].rights]
  PROVE  HostedInv'
<1>1. /\ TypeOK /\ GrantsRecorded /\ EventsRefer /\ UseWasAuthorized
  BY Zenon DEF HostedInv
<1>2. /\ trace' = Append(trace, e) /\ Len(trace) \in Nat
      /\ \A i \in DOMAIN trace : trace'[i] = trace[i]
      /\ trace'[Len(trace) + 1] = e
  BY <1>1, RecordType, Zenon
<1>3. /\ DOMAIN trace = 1 .. Len(trace) /\ DOMAIN trace' = 1 .. Len(trace) + 1
  BY <1>1, <1>2, Domains, Appended
<1>4. PICK n : n = Len(trace) + 1
  BY Zenon
<1>5. /\ trace'[n] = e /\ n \in DOMAIN trace' /\ DOMAIN trace \subseteq DOMAIN trace'
      /\ \A i \in DOMAIN trace' : i \in DOMAIN trace \/ i = n
  BY <1>2, <1>3, <1>4
<1>6. GrantsRecorded'
  <2> SUFFICES ASSUME NEW court \in DOMAIN courts', NEW cap \in cspaces'[court]
               PROVE  \E i \in DOMAIN trace' : trace'[i] = Grant(court, cap)'
    BY Zenon DEF GrantsRecorded
  <2>1. CASE /\ court \in DOMAIN courts /\ cap \in cspaces[court]
             /\ caps'[cap].object = caps[cap].object /\ caps'[cap].rights = caps[cap].rights
    <3>1. PICK i \in DOMAIN trace : trace[i] = Grant(court, cap)
      BY <1>1, <2>1, Zenon DEF GrantsRecorded
    <3>2. Grant(court, cap)' = Grant(court, cap)
      BY <2>1, Zenon DEF Grant
    <3> QED
      BY <1>2, <1>5, <3>1, <3>2, Zenon
  <2>2. CASE e = [event |-> "CapGranted", court |-> court, cap |-> cap,
                  object |-> caps'[cap].object, rights |-> caps'[cap].rights]
    BY <1>5, <2>2, Zenon DEF Grant
  <2> QED
    BY <2>1, <2>2, Zenon
<1>7. EventsRefer'
  <2> SUFFICES ASSUME NEW i \in DOMAIN trace'
               PROVE  /\ trace'[i].event \in Uses => trace'[i].object \in DOMAIN corridors'
                      /\ trace'[i].event = "CapRevoked" => trace'[i].cap \in DOMAIN caps'
                      /\ trace'[i].event = "CourtFaulted" => trace'[i].court \in DOMAIN courts'
    BY Zenon DEF EventsRefer
  <2>1. CASE i \in DOMAIN trace
    BY <1>1, <1>2, <2>1, Zenon DEF EventsRefer, Kept
  <2>2. CASE i = n
    BY <1>5, <2>2, Zenon
  <2> QED
    BY <1>5, <2>1, <2>2, Zenon
<1>8. UseWasAuthorized'
  <2>1. \A j \in DOMAIN trace : Audited(j)'
    BY <1>1, <1>2, AuditKept, Zenon DEF UseWasAuthorized
  <2>2. Audited(n)'
    BY <1>5, Zenon DEF Audited, Uses
  <2> QED
    BY <1>5, <2>1, <2>2, Zenon DEF UseWasAuthorized
<1> QED
  BY <1>6, <1>7, <1>8, Zenon DEF HostedInv

\* What the trace says of revocations and faults after one more event.
LEMMA OneMoreEvent ==
  ASSUME TypeOK, NEW e \in Event, Record(e)
  PROVE  /\ \A x : (\E i \in DOMAIN trace' : trace'[i].event = "CapRevoked" /\ trace'[i].cap \in x)
              <=> \/ \E i \in DOMAIN trace : trace[i].event = "CapRevoked" /\ trace[i].cap \in x
                  \/ e.event = "CapRevoked" /\ e.cap \in x
         /\ \A court : FaultedBefore(Len(trace) + 1, court)'
              <=> \/ FaultedBefore(Len(trace) + 1, court)
                  \/ e = [event |-> "CourtFaulted", court |-> court]
<1>1. /\ trace' = Append(trace, e) /\ Len(trace) \in Nat /\ DOMAIN trace = 1 .. Len(trace)
      /\ \A i \in DOMAIN trace : trace'[i] = trace[i]
      /\ trace'[Len(trace) + 1] = e
  BY Domains, RecordType, Zenon
<1>2. DOMAIN trace' = 1 .. Len(trace) + 1 /\ Len(trace') = Len(trace) + 1
  BY <1>1, Domains, Appended
<1>3. PICK n : n = Len(trace) + 1
  BY Zenon
<1>4. /\ trace'[n] = e /\ n \in DOMAIN trace' /\ DOMAIN trace \subseteq DOMAIN trace'
      /\ \A i \in DOMAIN trace' : i \in DOMAIN trace \/ i = n
  BY <1>1, <1>2, <1>3
<1>5. ASSUME NEW court
      PROVE  /\ FaultedBefore(Len(trace) + 1, court)
                 <=> \E i \in DOMAIN trace : trace[i] = [event |-> "CourtFaulted", court |-> court]
             /\ FaultedBefore(Len(trace) + 1, court)'
                 <=> \E i \in DOMAIN trace' : trace'[i] = [event |-> "CourtFaulted", court |-> court]
  <2>1. 1 .. (Len(trace) + 1) - 1 = DOMAIN trace /\ 1 .. (Len(trace') + 1) - 1 = DOMAIN trace'
    BY <1>1, <1>2
  <2> QED
    BY <2>1, Zenon DEF FaultedBefore
<1>6. ASSUME NEW court
      PROVE  FaultedBefore(Len(trace) + 1, court)'
               <=> \/ FaultedBefore(Len(trace) + 1, court)
                   \/ e = [event |-> "CourtFaulted", court |-> court]
  BY <1>1, <1>4, <1>5, Zenon
<1>7. ASSUME NEW x
      PROVE (\E i \in DOMAIN trace' : trace'[i].event = "CapRevoked" /\ trace'[i].cap \in x)
              <=> \/ \E i \in DOMAIN trace : trace[i].event = "CapRevoked" /\ trace[i].cap \in x
                  \/ e.event = "CapRevoked" /\ e.cap \in x
  BY <1>1, <1>4, Zenon
<1> QED
  BY <1>6, <1>7, Zenon

\* A fault takes down the court it names.
LEMMA FaultInv ==
  ASSUME HostedInv, NEW court \in CourtIds, fault_court(court)
  PROVE  HostedInv'
<1>1. TypeOK /\ TwoLevels /\ CspacesDisjoint /\ DamageIsContained
  BY Zenon DEF HostedInv
<1>2. PICK e : e = [event |-> "CourtFaulted", court |-> court]
  BY Zenon
<1>3. /\ court \in DOMAIN courts /\ courts' = [courts EXCEPT ![court] = "Faulted"] /\ Record(e)
      /\ UNCHANGED <<cspaces, next_cap, caps, entries, descriptors, corridors, root_caps>>
  BY <1>2, Zenon DEF fault_court
<1>4. e \in Event
  BY <1>2, Zenon DEF Event
<1>5. courts \in Seq({"Running", "Faulted"}) /\ DOMAIN courts = 1 .. Len(courts)
  BY <1>1, Domains, Zenon DEF TypeOK
<1>6. /\ courts' \in Seq({"Running", "Faulted"}) /\ Len(courts') = Len(courts)
      /\ DOMAIN courts' = DOMAIN courts
      /\ \A c \in DOMAIN courts : courts'[c] = IF c = court THEN "Faulted" ELSE courts[c]
  BY <1>3, <1>5
<1>7. trace' \in Seq(Event) /\ Len(trace') <= MaxTrace
  BY <1>1, <1>3, <1>4, RecordType, Zenon
<1>8. TypeOK'
  BY <1>1, <1>3, <1>6, <1>7, Zenon DEF TypeOK, Registry!TypeOK
<1>9. Kept
  BY <1>3, <1>6, Zenon DEF Kept
<1>10. TwoLevels'
  BY <1>1, <1>3, Zenon DEF TwoLevels
<1>11. CspacesDisjoint'
  BY <1>1, <1>3, <1>6 DEF CspacesDisjoint
<1>12. DamageIsContained'
  <2>1. e.event # "CapRevoked"
    BY <1>2, Zenon
  <2>2. \A x : (\E i \in DOMAIN trace' : trace'[i].event = "CapRevoked" /\ trace'[i].cap \in x)
             <=> \E i \in DOMAIN trace : trace[i].event = "CapRevoked" /\ trace[i].cap \in x
    BY <1>1, <1>3, <1>4, <2>1, OneMoreEvent, Zenon
  <2>3. \A c \in DOMAIN caps :
          caps'[c].revoked <=>
            \E i \in DOMAIN trace' : trace'[i].event = "CapRevoked" /\ trace'[i].cap \in {c, caps'[c].parent}
    BY <1>1, <1>3, <2>2, Zenon DEF DamageIsContained
  <2>4. \A c : FaultedBefore(Len(trace) + 1, c)' <=> FaultedBefore(Len(trace) + 1, c) \/ c = court
    <3>1. \A c : e = [event |-> "CourtFaulted", court |-> c] <=> c = court
      BY <1>2, Zenon
    <3> QED
      BY <1>1, <1>3, <1>4, <3>1, OneMoreEvent, Zenon
  <2>5. \A c \in DOMAIN courts : Running(c)' <=> Running(c) /\ c # court
    BY <1>6, Zenon DEF Running
  <2>6. \A c \in DOMAIN courts : Running(c) <=> ~FaultedBefore(Len(trace) + 1, c)
    BY <1>1, Zenon DEF DamageIsContained
  <2>7. \A c \in DOMAIN courts : (Running(c) <=> ~FaultedBefore(Len(trace) + 1, c))'
    BY <2>4, <2>5, <2>6, Zenon
  <2> QED
    BY <1>3, <1>6, <2>3, <2>7, Zenon DEF DamageIsContained
<1>13. e.event \notin Uses /\ e.event # "CapRevoked" /\ e.court \in DOMAIN courts'
  BY <1>2, <1>3, <1>6, Zenon DEF Uses
<1> QED
  BY <1>3, <1>4, <1>6, <1>8, <1>9, <1>10, <1>11, <1>12, <1>13, AuthorityInv, Zenon

\* In a forest of two levels, what is derived from a capability is itself

\* and what was delegated from it directly.
LEMMA DerivedTwoLevels ==
  ASSUME TypeOK, TwoLevels, NEW cap \in DOMAIN caps
  PROVE  \A c \in DOMAIN caps : c \in DerivedFrom(caps, {cap}) <=> c = cap \/ caps[c].parent = cap
<1> DEFINE T == {c \in DOMAIN caps : c = cap \/ caps[c].parent = cap}
<1>1. ClosedUnderDerivation(caps, T)
  <2> SUFFICES ASSUME NEW c \in DOMAIN caps, caps[c].parent \in T PROVE c \in T
    BY Zenon DEF ClosedUnderDerivation
  <2>1. cap # NoCap /\ caps[c].parent \in DOMAIN caps /\ caps[c].parent # NoCap
    BY Domains DEF NoCap
  <2>2. caps[caps[c].parent].parent = NoCap
    BY <2>1 DEF TwoLevels
  <2> QED
    BY <2>1, <2>2, Zenon
<1>2. ASSUME NEW c \in DerivedFrom(caps, {cap}) PROVE c = cap \/ caps[c].parent = cap
  <2>1. T \in SUBSET DOMAIN caps /\ {cap} \subseteq T
    BY Zenon
  <2>2. c \in T
    BY <1>1, <2>1, Zenon DEF DerivedFrom
  <2> QED
    BY <2>2, Zenon
<1>3. ASSUME NEW c \in DOMAIN caps, c = cap \/ caps[c].parent = cap PROVE c \in DerivedFrom(caps, {cap})
  <2> SUFFICES ASSUME NEW U \in SUBSET DOMAIN caps, {cap} \subseteq U, ClosedUnderDerivation(caps, U)
               PROVE  c \in U
    BY Zenon DEF DerivedFrom
  <2> QED
    BY <1>3, Zenon DEF ClosedUnderDerivation
<1> QED
  BY <1>2, <1>3, Zenon

\* A revocation hits the capability it names and what was delegated from it.
LEMMA RevokeInv ==
  ASSUME HostedInv, NEW cap \in CapIds, revoke(cap)
  PROVE  HostedInv'
<1>1. TypeOK /\ TwoLevels /\ CspacesDisjoint /\ DamageIsContained
  BY Zenon DEF HostedInv
<1>2. PICK e : e = [event |-> "CapRevoked", cap |-> cap]
  BY Zenon
<1>3. /\ Registry!Revoke(cap) /\ Record(e)
      /\ UNCHANGED <<courts, cspaces, entries, descriptors, corridors, root_caps>>
  BY <1>2, Zenon DEF revoke
<1>4. e \in Event
  BY <1>2, Zenon DEF Event
<1>5. cap \in DOMAIN caps /\ next_cap' = next_cap /\ DOMAIN caps' = DOMAIN caps
  BY <1>3, RevokeStep, Zenon
<1>6. \A c \in DOMAIN caps : caps'[c] = IF c = cap \/ caps[c].parent = cap
                                         THEN [caps[c] EXCEPT !.revoked = TRUE] ELSE caps[c]
  <2>1. \A c \in DOMAIN caps : caps'[c] = IF c \in DerivedFrom(caps, {cap})
                                         THEN [caps[c] EXCEPT !.revoked = TRUE] ELSE caps[c]
    BY <1>3, RevokeStep, Zenon
  <2>2. \A c \in DOMAIN caps : c \in DerivedFrom(caps, {cap}) <=> c = cap \/ caps[c].parent = cap
    BY <1>1, <1>5, DerivedTwoLevels, Zenon
  <2> QED
    BY <2>1, <2>2, Zenon
<1>7. \A c \in DOMAIN caps : caps[c] \in Capability
  BY <1>1, Domains, Zenon
<1>8. ASSUME NEW c \in DOMAIN caps
      PROVE  /\ caps'[c] \in Capability
             /\ caps'[c].object = caps[c].object /\ caps'[c].rights = caps[c].rights
             /\ caps'[c].parent = caps[c].parent
             /\ caps'[c].revoked <=> caps[c].revoked \/ c = cap \/ caps[c].parent = cap
  <2>1. caps[c] \in Capability
    BY <1>7, Zenon
  <2>2. CASE c = cap \/ caps[c].parent = cap
    <3>1. caps'[c] = [caps[c] EXCEPT !.revoked = TRUE]
      BY <1>6, <2>2, Zenon
    <3>2. [caps[c] EXCEPT !.revoked = TRUE] \in Capability
      BY <2>1, Zenon DEF Capability
    <3>3. /\ caps'[c].object = caps[c].object /\ caps'[c].rights = caps[c].rights
          /\ caps'[c].parent = caps[c].parent /\ caps'[c].revoked
      BY <2>1, <3>1, Zenon DEF Capability
    <3> QED
      BY <2>2, <3>1, <3>2, <3>3, Zenon
  <2>3. CASE ~(c = cap \/ caps[c].parent = cap)
    BY <1>6, <2>1, <2>3, Zenon
  <2> QED
    BY <2>2, <2>3, Zenon
<1>9. trace' \in Seq(Event) /\ Len(trace') <= MaxTrace
  BY <1>1, <1>3, <1>4, RecordType, Zenon
<1>10. TypeOK'
  <2>1. next_cap' \in 0 .. MaxCap /\ DOMAIN caps' = 1 .. next_cap'
    BY <1>1, <1>5, Domains, Zenon
  <2>2. caps' = [c \in DOMAIN caps' |-> caps'[c]]
    <3>1. Registry!Revoke(cap)
      BY <1>3, Zenon
    <3> QED
      BY <3>1, Zenon DEF Registry!Revoke
  <2>3. caps' \in [1 .. next_cap' -> Capability]
    BY <1>5, <1>8, <2>1, <2>2, Zenon
  <2>4. Registry!TypeOK'
    BY <2>1, <2>3, RegistryTypeNext, Zenon
  <2> QED
    BY <1>1, <1>3, <1>5, <1>9, <2>4, Zenon DEF TypeOK
<1>11. Kept
  BY <1>3, <1>5, Zenon DEF Kept
<1>12. TwoLevels'
  <2>1. \A o \in DOMAIN corridors : root_caps[o] \in DOMAIN caps
    BY <1>1, Domains, Zenon
  <2> QED
    BY <1>1, <1>3, <1>5, <1>8, <2>1, SMTT(30) DEF TwoLevels
<1>13. \A court \in DOMAIN courts : \A c \in cspaces[court] : c \in DOMAIN caps
  BY <1>1, Domains, Zenon
<1>14. CspacesDisjoint'
  <2>1. \A court \in DOMAIN courts : \A c \in cspaces[court] : caps'[c].parent = root_caps[caps'[c].object]
    BY <1>1, <1>8, <1>13, SMTT(30) DEF CspacesDisjoint
  <2>2. \A c \in DOMAIN courts : \A d \in DOMAIN courts \ {c} : cspaces[c] \cap cspaces[d] = {}
    BY <1>1, Zenon DEF CspacesDisjoint
  <2> QED
    BY <1>3, <2>1, <2>2, Zenon DEF CspacesDisjoint
<1>15. DamageIsContained'
  <2>1. \A x : (\E i \in DOMAIN trace' : trace'[i].event = "CapRevoked" /\ trace'[i].cap \in x)
             <=> (\E i \in DOMAIN trace : trace[i].event = "CapRevoked" /\ trace[i].cap \in x) \/ cap \in x
    <3>1. e.event = "CapRevoked" /\ e.cap = cap
      BY <1>2, Zenon
    <3> QED
      BY <1>1, <1>3, <1>4, <3>1, OneMoreEvent, Zenon
  <2>2. \A c \in DOMAIN caps : caps[c].revoked <=>
          \E i \in DOMAIN trace : trace[i].event = "CapRevoked" /\ trace[i].cap \in {c, caps[c].parent}
    BY <1>1, Zenon DEF DamageIsContained
  <2>3. ASSUME NEW c \in DOMAIN caps
        PROVE  caps'[c].revoked <=>
                 \E i \in DOMAIN trace' : trace'[i].event = "CapRevoked" /\ trace'[i].cap \in {c, caps'[c].parent}
    BY <1>8, <2>1, <2>2, Zenon
  <2>4. \A c : FaultedBefore(Len(trace) + 1, c)' <=> FaultedBefore(Len(trace) + 1, c)
    <3>1. \A c : e # [event |-> "CourtFaulted", court |-> c]
      BY <1>2, Zenon
    <3> QED
      BY <1>1, <1>3, <1>4, <3>1, OneMoreEvent, Zenon
  <2>5. \A c \in DOMAIN courts : (Running(c) <=> ~FaultedBefore(Len(trace) + 1, c))'
    <3>1. \A c : Running(c)' <=> Running(c)
      BY <1>3, Zenon DEF Running
    <3>2. \A c \in DOMAIN courts : Running(c) <=> ~FaultedBefore(Len(trace) + 1, c)
      BY <1>1, Zenon DEF DamageIsContained
    <3> QED
      BY <2>4, <3>1, <3>2, Zenon
  <2> QED
    BY <1>3, <1>5, <2>3, <2>5, Zenon DEF DamageIsContained
<1>16. e.event \notin Uses /\ e.event # "CourtFaulted" /\ e.cap \in DOMAIN caps'
  BY <1>2, <1>5, Zenon DEF Uses
<1>17. \A court \in DOMAIN courts' : \A c \in cspaces'[court] :
         /\ court \in DOMAIN courts /\ c \in cspaces[court]
         /\ caps'[c].object = caps[c].object /\ caps'[c].rights = caps[c].rights
  BY <1>3, <1>8, <1>13, Zenon
<1> QED
  BY <1>3, <1>4, <1>10, <1>11, <1>12, <1>14, <1>15, <1>16, <1>17, AuthorityInv, Zenon

\* A grant puts a new capability, a child of the corridor's root capability,
\* in the CSpace of one court, and the trace says so.
LEMMA GrantInv ==
  ASSUME HostedInv, NEW court \in CourtIds, NEW object \in descriptors, NEW rights \in Requests,
         grant_corridor_cap(court, object, rights)
  PROVE  HostedInv'
<1>1. TypeOK /\ TwoLevels /\ EventsRefer /\ CspacesDisjoint /\ DamageIsContained
  BY Zenon DEF HostedInv
<1>2. object \in DOMAIN corridors /\ court \in DOMAIN courts
  BY <1>1, Zenon DEF TypeOK, grant_corridor_cap, Running
<1>3. PICK id, root, child, e :
        /\ id = next_cap + 1 /\ root = root_caps[object] /\ child = ChildCap(caps[root], root, rights)
        /\ e = [event |-> "CapGranted", court |-> court, cap |-> id, object |-> object,
                rights |-> rights]
  BY Zenon
<1>4. /\ Registry!Delegate(root, rights) /\ Record(e)
      /\ cspaces' = [cspaces EXCEPT ![court] = @ \cup {id}]
      /\ UNCHANGED <<courts, entries, descriptors, corridors, root_caps>>
  BY <1>3, Zenon DEF grant_corridor_cap
<1>5. /\ root \in DOMAIN caps /\ ~caps[root].revoked /\ rights \subseteq caps[root].rights
      /\ next_cap < MaxCap /\ next_cap' = id
      /\ caps' = [c \in 1 .. id |-> IF c = id THEN child ELSE caps[c]]
  BY <1>3, <1>4, DelegateStep
<1>6. /\ next_cap \in Nat /\ DOMAIN caps = 1 .. next_cap /\ id \in 1 .. MaxCap
      /\ \A c \in 1 .. next_cap : caps[c] \in Capability
      /\ DOMAIN cspaces = DOMAIN courts
      /\ \A c \in DOMAIN courts : cspaces[c] \subseteq DOMAIN caps
      /\ \A o \in DOMAIN corridors : root_caps[o] \in DOMAIN caps
      /\ DOMAIN corridors \subseteq Objects
  <2>1. /\ next_cap \in 0 .. MaxCap /\ DOMAIN caps = 1 .. next_cap
        /\ \A c \in 1 .. next_cap : caps[c] \in Capability
        /\ DOMAIN cspaces = DOMAIN courts
        /\ \A c \in DOMAIN courts : cspaces[c] \subseteq 1 .. next_cap
        /\ \A o \in DOMAIN corridors : root_caps[o] \in 1 .. next_cap
        /\ DOMAIN corridors = 1 .. Len(corridors) /\ Len(corridors) \in Nat
    BY <1>1, Domains, Zenon
  <2>2. DOMAIN corridors \subseteq Objects
    BY <1>1, <2>1, HostedAssumption, SMTT(30) DEF TypeOK
  <2>3. id \in 1 .. MaxCap /\ next_cap \in Nat
    <3>1. \A n \in 0 .. MaxCap : n < MaxCap => n + 1 \in 1 .. MaxCap /\ n \in Nat
      BY CapsAssumption
    <3>2. QED
      BY <1>3, <1>5, <2>1, <3>1, Zenon
  <2> QED
    BY <2>1, <2>2, <2>3, Zenon
<1>7. /\ DOMAIN caps' = 1 .. id /\ caps'[id] = child /\ id \notin DOMAIN caps
      /\ \A c \in DOMAIN caps : caps'[c] = caps[c] /\ c # id
      /\ \A c \in DOMAIN caps' : c \in DOMAIN caps \/ c = id
      /\ DOMAIN caps \subseteq DOMAIN caps' /\ id \in DOMAIN caps'
  BY <1>3, <1>5, <1>6, SMTT(30)
<1>8. caps[root].object = object /\ caps[root].parent = NoCap
  BY <1>1, <1>2, <1>3, Zenon DEF TwoLevels
<1>9. /\ child.object = object /\ child.parent = root /\ child.rights = rights
      /\ child.revoked = FALSE
  BY <1>3, <1>8, Zenon DEF ChildCap
<1>10. child \in Capability
  <2>1. object \in Objects /\ rights \in SUBSET AllRights /\ root \in {NoCap} \cup CapIds
    <3>1. root \in 1 .. next_cap /\ 1 .. next_cap \subseteq CapIds
      BY <1>5, <1>6, CapsAssumption, SMTT(30) DEF CapIds
    <3> QED
      BY <1>2, <1>6, <3>1, HostedAssumption, Zenon
  <2>2. child = [object |-> object, rights |-> rights, parent |-> root, revoked |-> FALSE,
                 delegable |-> DELEGATE \in rights]
    BY <1>3, <1>8, Zenon DEF ChildCap
  <2>3. FALSE \in BOOLEAN /\ (DELEGATE \in rights) \in BOOLEAN
    OBVIOUS
  <2> QED
    BY <2>1, <2>2, <2>3, Zenon DEF Capability
<1>11. e \in Event
  <2>1. id \in CapIds /\ object \in Objects /\ rights \in SUBSET AllRights
    BY <1>2, <1>6, HostedAssumption, Zenon DEF CapIds
  <2> QED
    BY <1>3, <2>1, Zenon DEF Event
<1>12. trace' \in Seq(Event) /\ Len(trace') <= MaxTrace
  BY <1>1, <1>4, <1>11, RecordType, Zenon
<1>13. \A c \in DOMAIN courts : cspaces'[c] = IF c = court THEN cspaces[c] \cup {id} ELSE cspaces[c]
  BY <1>2, <1>4, <1>6, Zenon
<1>14. TypeOK'
  <2>1. Registry!TypeOK'
    <3>1. next_cap' \in 0 .. MaxCap
      BY <1>5, <1>6, SMTT(30)
    <3>2. \A c \in 1 .. id : caps'[c] \in Capability
      BY <1>6, <1>7, <1>10, Zenon
    <3>3. caps' \in [1 .. next_cap' -> Capability]
      BY <1>5, <1>7, <3>2, Zenon
    <3> QED
      BY <3>1, <3>3, RegistryTypeNext, Zenon
  <2>2. cspaces' \in [DOMAIN courts' -> SUBSET (1 .. next_cap')]
    <3>1. \A c \in DOMAIN courts : cspaces'[c] \in SUBSET (1 .. id)
      BY <1>6, <1>7, <1>13, Zenon
    <3>2. cspaces' = [c \in DOMAIN courts |-> cspaces'[c]]
      BY <1>4, <1>6, Zenon
    <3> QED
      BY <1>4, <1>5, <3>1, <3>2, Zenon
  <2>3. root_caps' \in [DOMAIN corridors' -> 1 .. next_cap']
    <3>1. root_caps \in [DOMAIN corridors -> 1 .. next_cap] /\ 1 .. next_cap \subseteq 1 .. id
      BY <1>1, <1>6, <1>7, Zenon DEF TypeOK
    <3> QED
      BY <1>4, <1>5, <3>1, Zenon
  <2> QED
    BY <1>1, <1>4, <1>12, <2>1, <2>2, <2>3, Zenon DEF TypeOK
<1>15. Kept
  BY <1>4, <1>7, Zenon DEF Kept
<1>16. TwoLevels'
  <2>1. \A o \in DOMAIN corridors : caps'[root_caps[o]].object = o /\ caps'[root_caps[o]].parent = NoCap
    BY <1>1, <1>6, <1>7, SMTT(30) DEF TwoLevels
  <2>2. \A c \in DOMAIN caps' :
          /\ caps'[c].object \in DOMAIN corridors
          /\ caps'[c].parent \in {NoCap, root_caps[caps'[c].object]}
    BY <1>1, <1>2, <1>3, <1>7, <1>9, SMTT(30) DEF TwoLevels
  <2> QED
    BY <1>4, <2>1, <2>2, Zenon DEF TwoLevels
<1>17. CspacesDisjoint'
  <2>1. \A c \in DOMAIN courts : \A k \in cspaces'[c] : caps'[k].parent = root_caps[caps'[k].object]
    <3>1. \A c \in DOMAIN courts : \A k \in cspaces[c] : caps'[k].parent = root_caps[caps'[k].object]
      BY <1>1, <1>6, <1>7, SMTT(30) DEF CspacesDisjoint
    <3>2. caps'[id].parent = root_caps[caps'[id].object]
      BY <1>3, <1>7, <1>9, Zenon
    <3>3. \A c \in DOMAIN courts : \A k \in cspaces'[c] : k \in cspaces[c] \/ k = id
      BY <1>13, Zenon
    <3> QED
      BY <3>1, <3>2, <3>3, Zenon
  <2>2. \A c \in DOMAIN courts : \A d \in DOMAIN courts \ {c} : cspaces'[c] \cap cspaces'[d] = {}
    <3>1. \A c \in DOMAIN courts : \A d \in DOMAIN courts \ {c} : cspaces[c] \cap cspaces[d] = {}
      BY <1>1, Zenon DEF CspacesDisjoint
    <3>2. \A c \in DOMAIN courts : id \notin cspaces[c]
      BY <1>6, <1>7, Zenon
    <3> QED
      BY <1>13, <3>1, <3>2, Zenon
  <2> QED
    BY <1>4, <2>1, <2>2, Zenon DEF CspacesDisjoint
<1>18. DamageIsContained'
  <2>1. \A x : (\E i \in DOMAIN trace' : trace'[i].event = "CapRevoked" /\ trace'[i].cap \in x)
             <=> \E i \in DOMAIN trace : trace[i].event = "CapRevoked" /\ trace[i].cap \in x
    <3>1. e.event # "CapRevoked"
      BY <1>3, Zenon
    <3> QED
      BY <1>1, <1>4, <1>11, <3>1, OneMoreEvent, Zenon
  <2>2. \A c \in DOMAIN caps : caps[c].revoked <=>
          \E i \in DOMAIN trace : trace[i].event = "CapRevoked" /\ trace[i].cap \in {c, caps[c].parent}
    BY <1>1, Zenon DEF DamageIsContained
  <2>3. ASSUME NEW c \in DOMAIN caps
        PROVE  caps'[c].revoked <=>
                 \E i \in DOMAIN trace' : trace'[i].event = "CapRevoked" /\ trace'[i].cap \in {c, caps'[c].parent}
    BY <1>7, <2>1, <2>2, Zenon
  <2>4. ~\E i \in DOMAIN trace : trace[i].event = "CapRevoked" /\ trace[i].cap \in {id, root}
    <3>1. ~\E i \in DOMAIN trace : trace[i].event = "CapRevoked" /\ trace[i].cap = root
      BY <1>5, <2>2, Zenon
    <3>2. \A i \in DOMAIN trace : trace[i].event = "CapRevoked" => trace[i].cap # id
      BY <1>3, FreshCap, Zenon
    <3> QED
      BY <3>1, <3>2, Zenon
  <2>5. caps'[id].revoked <=>
          \E i \in DOMAIN trace' : trace'[i].event = "CapRevoked" /\ trace'[i].cap \in {id, caps'[id].parent}
    BY <1>7, <1>9, <2>1, <2>4, Zenon
  <2>6. \A c : FaultedBefore(Len(trace) + 1, c)' <=> FaultedBefore(Len(trace) + 1, c)
    <3>1. \A c : e # [event |-> "CourtFaulted", court |-> c]
      BY <1>3, Zenon
    <3> QED
      BY <1>1, <1>4, <1>11, <3>1, OneMoreEvent, Zenon
  <2>7. \A c \in DOMAIN courts : (Running(c) <=> ~FaultedBefore(Len(trace) + 1, c))'
    <3>1. \A c : Running(c)' <=> Running(c)
      BY <1>4, Zenon DEF Running
    <3>2. \A c \in DOMAIN courts : Running(c) <=> ~FaultedBefore(Len(trace) + 1, c)
      BY <1>1, Zenon DEF DamageIsContained
    <3> QED
      BY <2>6, <3>1, <3>2, Zenon
  <2> QED
    BY <1>4, <1>7, <2>3, <2>5, <2>7, Zenon DEF DamageIsContained
<1>19. e.event \notin Uses /\ e.event # "CapRevoked" /\ e.event # "CourtFaulted"
  BY <1>3, Zenon DEF Uses
<1>20. \A c \in DOMAIN courts' : \A k \in cspaces'[c] :
         \/ /\ c \in DOMAIN courts /\ k \in cspaces[c]
            /\ caps'[k].object = caps[k].object /\ caps'[k].rights = caps[k].rights
         \/ e = [event |-> "CapGranted", court |-> c, cap |-> k, object |-> caps'[k].object,
                  rights |-> caps'[k].rights]
  <2>1. e = [event |-> "CapGranted", court |-> court, cap |-> id, object |-> caps'[id].object,
              rights |-> caps'[id].rights]
    BY <1>3, <1>7, <1>9, Zenon
  <2>2. \A c \in DOMAIN courts : \A k \in cspaces'[c] : k \in cspaces[c] \/ (c = court /\ k = id)
    BY <1>13, Zenon
  <2>3. \A c \in DOMAIN courts : \A k \in cspaces[c] : caps'[k] = caps[k]
    BY <1>6, <1>7, Zenon
  <2>4. DOMAIN courts' = DOMAIN courts
    BY <1>4, Zenon
  <2> QED
    BY <2>1, <2>2, <2>3, <2>4, Zenon
<1> QED
  BY <1>4, <1>11, <1>14, <1>15, <1>16, <1>17, <1>18, <1>19, <1>20, AuthorityInv, Zenon

\* Before the first call there is nothing that could be wrong.
LEMMA InitHosted == ASSUME Init PROVE HostedInv
<1>1. /\ next_cap = 0 /\ caps = <<>> /\ courts = <<>> /\ cspaces = <<>> /\ DOMAIN entries = {}
      /\ descriptors = {} /\ corridors = <<>> /\ root_caps = <<>> /\ trace = <<>>
  BY DEF Init, Registry!Init
<1>2. DOMAIN caps = {} /\ DOMAIN courts = {} /\ DOMAIN corridors = {} /\ DOMAIN trace = {}
  BY <1>1
<1>3. TypeOK
  <2>1. 1 .. next_cap = {} /\ next_cap \in 0 .. MaxCap
    BY <1>1, CapsAssumption
  <2>2. Registry!TypeOK
    BY <1>1, <1>2, <2>1 DEF Registry!TypeOK
  <2> QED
    BY <1>1, <1>2, <2>1, <2>2, HostedAssumption, SMTT(30) DEF TypeOK
<1> QED
  BY <1>1, <1>2, <1>3, Zenon
     DEF HostedInv, TwoLevels, GrantsRecorded, EventsRefer, CspacesDisjoint, DamageIsContained, UseWasAuthorized

\* Every operation keeps the invariant.
LEMMA StepHosted == ASSUME HostedInv, [Next]_vars PROVE HostedInv'
<1>1. CASE create_court
  BY <1>1, CourtInv, Zenon
<1>2. ASSUME NEW path \in Paths, NEW first \in CourtIds, NEW second \in CourtIds,
             NEW capacity \in Capacities, create_corridor(path, first, second, capacity)
      PROVE  HostedInv'
  BY <1>2, CorridorInv, Zenon
<1>3. ASSUME NEW court \in CourtIds, NEW path \in Paths, lookup(court, path) PROVE HostedInv'
  BY <1>3, LookupInv, Zenon
<1>4. ASSUME NEW court \in CourtIds, NEW object \in descriptors, NEW rights \in Requests,
             grant_corridor_cap(court, object, rights)
      PROVE  HostedInv'
  BY <1>4, GrantInv, Zenon
<1>5. ASSUME NEW court \in CourtIds, NEW object \in descriptors, NEW cap \in {NoCap} \cup CapIds,
             NEW rights \in Opens, open(court, object, cap, rights)
      PROVE  HostedInv'
  BY <1>5, OpenInv, Zenon
<1>6. ASSUME NEW court \in CourtIds, NEW cap \in CapIds,
             send(court, cap) \/ SendPeerDown(court, cap) \/ recv(court, cap)
      PROVE  HostedInv'
  BY <1>6, TransferInv, PeerDownInv, Zenon
<1>7. ASSUME NEW cap \in CapIds, revoke(cap) PROVE HostedInv'
  BY <1>7, RevokeInv, Zenon
<1>8. ASSUME NEW court \in CourtIds, fault_court(court) PROVE HostedInv'
  BY <1>8, FaultInv, Zenon
<1>9. CASE UNCHANGED vars
  <2>1. UNCHANGED <<courts, cspaces, next_cap, caps, entries, descriptors, corridors, root_caps, trace>>
    BY <1>9, Zenon DEF vars
  <2>2. Registry!TypeOK <=> Registry!TypeOK'
    BY <2>1, Zenon DEF Registry!TypeOK
  <2>3. TypeOK'
    BY <2>1, <2>2, Zenon DEF HostedInv, TypeOK
  <2>4. TwoLevels'
    BY <2>1, Zenon DEF HostedInv, TwoLevels
  <2>5. CspacesDisjoint'
    BY <2>1, Zenon DEF HostedInv, CspacesDisjoint
  <2>6. DamageIsContained'
    BY <2>1, Zenon DEF HostedInv, DamageIsContained, Running, FaultedBefore
  <2>7. Kept
    BY <2>1, Zenon DEF Kept
  <2> QED
    BY <2>1, <2>3, <2>4, <2>5, <2>6, <2>7, SilentInv, Zenon
<1>10. CASE \E path \in Paths, first, second \in CourtIds, capacity \in Capacities :
              <<first, second>> \in Ends /\ create_corridor(path, first, second, capacity)
  BY <1>2, <1>10, Zenon
<1>11. CASE \E court \in CourtIds, path \in Paths : lookup(court, path)
  BY <1>3, <1>11, Zenon
<1>12. CASE \E court \in CourtIds, object \in descriptors, rights \in Requests :
              grant_corridor_cap(court, object, rights)
  BY <1>4, <1>12, Zenon
<1>13. CASE \E court \in CourtIds, object \in descriptors, cap \in {NoCap} \cup CapIds,
                rights \in Opens : open(court, object, cap, rights)
  BY <1>5, <1>13, Zenon
<1>14. CASE \E court \in CourtIds, cap \in CapIds :
              send(court, cap) \/ SendPeerDown(court, cap) \/ recv(court, cap)
  BY <1>6, <1>14, Zenon
<1>15. CASE \E cap \in CapIds : revoke(cap)
  BY <1>7, <1>15, Zenon
<1>16. CASE \E court \in CourtIds : fault_court(court)
  BY <1>8, <1>16, Zenon
<1> QED
  BY <1>1, <1>9, <1>10, <1>11, <1>12, <1>13, <1>14, <1>15, <1>16, Zenon DEF Next

-----------------------------------------------------------------------------
\* HostedRoot keeps its tables, its registry and its trace consistent with
\* each other, whatever courts and corridors there are and whatever is called.
THEOREM HostedInvariant == Spec => []HostedInv
<1> QED
  BY InitHosted, StepHosted, PTL DEF Spec

\* Everything the trace says was opened, sent or received was covered, when
\* it happened, by a grant in the trace to a court that was up, and by no
\* revocation.
THEOREM UseIsAuthorized == Spec => []UseWasAuthorized
<1>1. HostedInv => UseWasAuthorized
  BY Zenon DEF HostedInv
<1> QED
  BY <1>1, HostedInvariant, PTL

\* No capability is in two CSpaces, and none there is a root capability.
THEOREM CspacesStayDisjoint == Spec => []CspacesDisjoint
<1>1. HostedInv => CspacesDisjoint
  BY Zenon DEF HostedInv
<1> QED
  BY <1>1, HostedInvariant, PTL

\* revoke and fault_court reach what they name and no more.
THEOREM DamageStaysContained == Spec => []DamageIsContained
<1>1. HostedInv => DamageIsContained
  BY Zenon DEF HostedInv
<1> QED
  BY <1>1, HostedInvariant, PTL

\* HostedRoot's tables, registry and trace keep their types.
THEOREM HostedTypes == Spec => []TypeOK
<1>1. HostedInv => TypeOK
  BY Zenon DEF HostedInv
<1> QED
  BY <1>1, HostedInvariant, PTL

-----------------------------------------------------------------------------
\* Corridors are FIFO.

\* The n-th event is f: what that does to the positions of the transfers and
\* to the number of the next payload.
RecordedAs(f, n) ==
  /\ n \in Nat /\ n \notin DOMAIN trace /\ DOMAIN trace' = DOMAIN trace \cup {n}
  /\ \A i \in DOMAIN trace : i \in Nat /\ i < n /\ trace'[i] = trace[i]
  /\ trace'[n] = f
  /\ \A kind, o : Transfers(kind, o)' = Transfers(kind, o) \cup
       (IF f.event = kind /\ f.object = o THEN {n} ELSE {})
  /\ Payload \in Nat /\ Payload' = Payload + 1

\* trace.push numbers the event.
LEMMA Recorded ==
  ASSUME TypeOK, NEW f \in Event, Record(f), NEW n, n = Len(trace) + 1
  PROVE  RecordedAs(f, n)
<1>2. /\ trace' \in Seq(Event) /\ trace' = Append(trace, f) /\ Len(trace) \in Nat
      /\ DOMAIN trace = 1 .. Len(trace) /\ DOMAIN trace' = 1 .. Len(trace) + 1
      /\ \A i \in DOMAIN trace : trace'[i] = trace[i]
      /\ trace'[n] = f
  BY RecordType
<1>3. n \in Nat /\ n \notin DOMAIN trace /\ DOMAIN trace' = DOMAIN trace \cup {n}
  BY <1>2
<1>4. \A i \in DOMAIN trace : i \in Nat /\ i < n /\ trace'[i] = trace[i]
  BY <1>2
<1>5. ASSUME NEW kind, NEW o
      PROVE  Transfers(kind, o)' = Transfers(kind, o) \cup
               (IF f.event = kind /\ f.object = o THEN {n} ELSE {})
  <2>1. Transfers(kind, o)' = {i \in DOMAIN trace' : trace'[i].event = kind /\ trace'[i].object = o}
    BY Zenon DEF Transfers
  <2>2. \A i \in DOMAIN trace : i \in Transfers(kind, o)' <=> i \in Transfers(kind, o)
    BY <1>2, <1>3, <2>1, Zenon DEF Transfers
  <2>3. n \in Transfers(kind, o)' <=> f.event = kind /\ f.object = o
    BY <1>2, <1>3, <2>1, Zenon
  <2>4. Transfers(kind, o) \subseteq DOMAIN trace /\ Transfers(kind, o)' \subseteq DOMAIN trace \cup {n}
    BY <1>3, <2>1, Zenon DEF Transfers
  <2> QED
    BY <1>3, <2>2, <2>3, <2>4, Zenon
<1>6. Payload \in Nat /\ Payload' = Payload + 1
  BY <1>2 DEF Payload
<1> QED
  BY <1>2, <1>3, <1>4, <1>5, <1>6, Zenon DEF RecordedAs

\* Transfers carry numbers.
LEMMA PayloadsAreNumbers ==
  ASSUME TypeOK, NEW kind \in {"Sent", "Received"}, NEW o, NEW i \in Transfers(kind, o)
  PROVE  i \in DOMAIN trace /\ i \in Nat /\ trace[i].event = kind /\ trace[i].payload \in Nat
<1>1. i \in DOMAIN trace /\ trace[i].event = kind
  BY Zenon DEF Transfers
<1>2. i \in Nat /\ trace[i] \in Event
  BY <1>1, Domains
<1>3. PICK e : e = trace[i]
  BY Zenon
<1>4. e \in [event : {"Sent", "Received"}, court : CourtIds, object : Objects, payload : Nat]
  BY <1>1, <1>2, <1>3, Zenon DEF Event
<1> QED
  BY <1>1, <1>2, <1>3, <1>4, Zenon

\* An event more leaves the payloads below the number of the next one.
LEMMA NumberedOn ==
  ASSUME TypeOK, Numbered, NEW f \in Event, NEW n, RecordedAs(f, n),
         f.event = "Sent" => f.payload = Payload
  PROVE  Numbered'
<1>1. PICK p \in Nat : p = Payload /\ Payload' = p + 1
  BY Zenon DEF RecordedAs
<1>2. ASSUME NEW i \in DOMAIN trace, trace[i].event = "Sent"
      PROVE  trace[i].payload < p + 1
  <2>1. i \in Transfers("Sent", trace[i].object)
    BY <1>2, Zenon DEF Transfers
  <2>2. trace[i].payload \in Nat /\ trace[i].payload < p
    BY <1>1, <1>2, <2>1, PayloadsAreNumbers, Zenon DEF Numbered
  <2> QED
    BY <2>2
<1>3. p < p + 1
  OBVIOUS
<1> QED
  BY <1>1, <1>2, <1>3, Zenon DEF Numbered, RecordedAs

\* What the transfers recorded so far say is not rewritten.
LEMMA TransfersKept ==
  ASSUME NEW kind, NEW o, UNCHANGED Transfers(kind, o),
         \A i \in DOMAIN trace : trace'[i] = trace[i]
  PROVE  UNCHANGED Payloads(kind, o) /\ (InOrder(kind, o) => InOrder(kind, o)')
<1>1. \A i \in Transfers(kind, o) : trace'[i] = trace[i]
  BY Zenon DEF Transfers
<1>2. UNCHANGED Payloads(kind, o)
  BY <1>1, Zenon DEF Payloads
<1>3. InOrder(kind, o) => InOrder(kind, o)'
  BY <1>1, Zenon DEF InOrder
<1> QED
  BY <1>2, <1>3, Zenon

\* A corridor without a transfer and with the same queue stays as it was.
LEMMA OtherCorridors ==
  ASSUME NEW o, DeliversInOrder(o), UNCHANGED corridors[o],
         UNCHANGED Transfers("Sent", o), UNCHANGED Transfers("Received", o),
         \A i \in DOMAIN trace : trace'[i] = trace[i]
  PROVE  DeliversInOrder(o)'
<1>1. /\ UNCHANGED Payloads("Sent", o) /\ (InOrder("Sent", o) => InOrder("Sent", o)')
      /\ UNCHANGED Payloads("Received", o) /\ (InOrder("Received", o) => InOrder("Received", o)')
  BY TransfersKept, Zenon
<1>2. PICK queue, capacity : queue = corridors[o].queue /\ capacity = corridors[o].capacity
  BY Zenon
<1>3. corridors'[o].queue = queue /\ corridors'[o].capacity = capacity
  BY <1>2, Zenon
<1> QED
  BY <1>1, <1>2, <1>3, Zenon DEF DeliversInOrder

\* An event that is no transfer, or none at all, leaves the corridors FIFO.
LEMMA FifoQuiet ==
  ASSUME TypeOK, CorridorIsFifo, UNCHANGED corridors,
         \/ UNCHANGED trace
         \/ \E f \in Event : Record(f) /\ f.event \notin {"Sent", "Received"}
  PROVE  CorridorIsFifo'
<1>1. Numbered /\ \A o \in DOMAIN corridors : DeliversInOrder(o)
  BY Zenon DEF CorridorIsFifo
<1>2. CASE UNCHANGED trace
  <2>1. \A kind, o : UNCHANGED Transfers(kind, o)
    BY <1>2, Zenon DEF Transfers
  <2>2. Numbered'
    BY <1>1, <1>2, Zenon DEF Numbered, Payload
  <2>3. \A o \in DOMAIN corridors : DeliversInOrder(o)'
    BY <1>1, <1>2, <2>1, OtherCorridors, Zenon
  <2> QED
    BY <2>2, <2>3, Zenon DEF CorridorIsFifo
<1>3. CASE \E f \in Event : Record(f) /\ f.event \notin {"Sent", "Received"}
  <2>1. PICK f \in Event : Record(f) /\ f.event \notin {"Sent", "Received"}
    BY <1>3, Zenon
  <2>2. PICK n : n = Len(trace) + 1
    BY Zenon
  <2>3. /\ DOMAIN trace' = DOMAIN trace \cup {n} /\ trace'[n] = f
        /\ \A i \in DOMAIN trace : trace'[i] = trace[i]
        /\ \A o : UNCHANGED Transfers("Sent", o) /\ UNCHANGED Transfers("Received", o)
    <3>1. RecordedAs(f, n)
      BY <2>1, <2>2, Recorded, Zenon
    <3>2. f.event # "Sent" /\ f.event # "Received"
      BY <2>1, Zenon
    <3>3. \A o : UNCHANGED Transfers("Sent", o) /\ UNCHANGED Transfers("Received", o)
      BY <3>1, <3>2, Zenon DEF RecordedAs
    <3> QED
      BY <3>1, <3>2, <3>3, Zenon DEF RecordedAs
  <2>4. Numbered'
    BY <1>1, <2>1, <2>2, Recorded, NumberedOn, Zenon
  <2>5. \A o \in DOMAIN corridors : DeliversInOrder(o)'
    BY <1>1, <2>3, OtherCorridors, Zenon
  <2> QED
    BY <2>4, <2>5, Zenon DEF CorridorIsFifo
<1> QED
  BY <1>2, <1>3, Zenon

\* create_corridor adds an empty one, which no event of the trace is about.
LEMMA FifoCreate ==
  ASSUME HostedInv, CorridorIsFifo, NEW path \in Paths, NEW first \in CourtIds,
         NEW second \in CourtIds, NEW capacity \in Capacities,
         create_corridor(path, first, second, capacity)
  PROVE  CorridorIsFifo'
<1>1. TypeOK /\ EventsRefer /\ Numbered /\ \A o \in DOMAIN corridors : DeliversInOrder(o)
  BY Zenon DEF CorridorIsFifo, HostedInv
<1>2. PICK n, new : /\ n = Len(corridors) + 1
                    /\ new = [endpoints |-> <<first, second>>, queue |-> <<>>, capacity |-> capacity]
  BY Zenon
<1>3. corridors' = Append(corridors, new) /\ UNCHANGED trace
  BY <1>2, Zenon DEF create_corridor
<1>4. new.queue = <<>> /\ new.capacity = capacity /\ capacity \in Nat
  BY <1>2, HostedAssumption, Zenon
<1>5. corridors \in Seq(Corridor) /\ Len(corridors) \in Nat /\ DOMAIN corridors = 1 .. Len(corridors)
  BY <1>1, Domains, Zenon DEF TypeOK
<1>6. /\ DOMAIN corridors' = DOMAIN corridors \cup {n} /\ n \notin DOMAIN corridors
      /\ corridors'[n] = new /\ \A o \in DOMAIN corridors : corridors'[o] = corridors[o]
  <2>1. /\ DOMAIN corridors' = 1 .. Len(corridors) + 1
        /\ corridors'[Len(corridors) + 1] = new
        /\ \A o \in 1 .. Len(corridors) : corridors'[o] = corridors[o]
    <3>1. new \in Corridor
      <4>1. <<>> \in Seq(Nat) /\ <<first, second>> \in CourtIds \X CourtIds
        OBVIOUS
      <4> QED
        BY <1>2, <1>4, <4>1, Zenon DEF Corridor
    <3> QED
      BY <1>3
  <2> QED
    BY <1>2, <2>1
<1>7. \A kind, o : UNCHANGED Transfers(kind, o)
  BY <1>3, Zenon DEF Transfers
<1>8. Numbered'
  BY <1>1, <1>3, Zenon DEF Numbered, Payload
<1>9. \A o \in DOMAIN corridors : DeliversInOrder(o)'
  BY <1>1, <1>3, <1>6, <1>7, OtherCorridors, Zenon
<1>10. DeliversInOrder(n)'
  <2>1. Transfers("Sent", n)' = {} /\ Transfers("Received", n)' = {}
    BY <1>1, <1>3, <1>6, Zenon DEF Transfers, EventsRefer, Uses
  <2>2. /\ Payloads("Sent", n)' = {} /\ Payloads("Received", n)' = {}
        /\ InOrder("Sent", n)' /\ InOrder("Received", n)'
    BY <2>1, Zenon DEF Payloads, InOrder
  <2>3. corridors'[n].queue = <<>> /\ corridors'[n].capacity = capacity
    BY <1>4, <1>6, Zenon
  <2>4. Len(<<>>) <= capacity
    BY <1>4
  <2> QED
    BY <2>2, <2>3, <2>4 DEF DeliversInOrder
<1> QED
  BY <1>6, <1>8, <1>9, <1>10, Zenon DEF CorridorIsFifo

\* What send and recv do, seen from the queue of one corridor.
Transferred(f, object, queue, after) ==
  /\ queue = corridors[object].queue /\ corridors[object].capacity \in Nat
  /\ Record(f) /\ f.object = object
  /\ DOMAIN corridors' = DOMAIN corridors
  /\ corridors'[object].queue = after
  /\ corridors'[object].capacity = corridors[object].capacity
  /\ \A o \in DOMAIN corridors \ {object} : corridors'[o] = corridors[o]
  /\ \/ /\ f.event = "Sent" /\ f.payload = Payload /\ after = Append(queue, Payload)
        /\ Len(queue) < corridors[object].capacity
     \/ /\ f.event = "Received" /\ queue # <<>> /\ f.payload = Head(queue)
        /\ after = Tail(queue)

\* send appends to the queue of the corridor its capability names, and recv
\* takes the head off.
LEMMA TransferStep ==
  ASSUME HostedInv, NEW court \in CourtIds, NEW cap \in CapIds, send(court, cap) \/ recv(court, cap)
  PROVE  \E f \in Event, object \in DOMAIN corridors, queue \in Seq(Nat), after \in Seq(Nat) :
           Transferred(f, object, queue, after)
<1>1. TypeOK /\ TwoLevels
  BY Zenon DEF HostedInv
<1>2. PICK object : object = caps[cap].object
  BY Zenon
<1>3. cap \in DOMAIN caps
  BY Zenon DEF send, recv, SendResult, RecvResult, AuthorizeResult
<1>4. object \in DOMAIN corridors /\ object \in Objects /\ corridors[object] \in Corridor
  <2>1. object \in DOMAIN corridors
    BY <1>1, <1>2, <1>3, Zenon DEF TwoLevels
  <2>2. caps[cap] \in Capability /\ corridors[object] \in Corridor
    BY <1>1, <1>3, <2>1, Domains, Zenon
  <2> QED
    BY <1>2, <2>1, <2>2, Zenon DEF Capability
<1>5. PICK queue, capacity : queue = corridors[object].queue /\ capacity = corridors[object].capacity
  BY Zenon
<1>6. queue \in Seq(Nat) /\ capacity \in Nat
  BY <1>4, <1>5, Zenon DEF Corridor
<1>7. ASSUME NEW after \in Seq(Nat), corridors' = [corridors EXCEPT ![object].queue = after]
      PROVE  /\ DOMAIN corridors' = DOMAIN corridors
             /\ corridors'[object].queue = after /\ corridors'[object].capacity = capacity
             /\ \A o \in DOMAIN corridors \ {object} : corridors'[o] = corridors[o]
  <2>1. PICK new : new = [corridors[object] EXCEPT !.queue = after]
    BY Zenon
  <2>2. new.queue = after /\ new.capacity = capacity
    BY <1>4, <1>5, <2>1, Zenon DEF Corridor
  <2>3. corridors' = [corridors EXCEPT ![object] = new]
    BY <1>7, <2>1, Zenon
  <2> QED
    BY <1>4, <2>2, <2>3, Zenon
<1>8. CASE send(court, cap)
  <2> DEFINE f == [event |-> "Sent", court |-> court, object |-> object, payload |-> Payload]
  <2>1. Payload \in Nat
    BY <1>1, PayloadType, Zenon
  <2>2. f \in Event
    BY <1>4, <2>1, Zenon DEF Event
  <2>3. Append(queue, Payload) \in Seq(Nat)
    BY <1>6, <2>1
  <2>4. /\ Record(f) /\ SendResult(court, cap) = "Ok"
        /\ corridors' = [corridors EXCEPT ![object].queue = Append(queue, Payload)]
    BY <1>2, <1>5, <1>8, Zenon DEF send
  <2>5. Len(queue) < capacity
    <3>1. ~(Len(queue) >= capacity)
      BY <1>2, <1>5, <2>4, Zenon DEF SendResult
    <3> QED
      BY <1>6, <3>1
  <2>6. f.object = object /\ f.event = "Sent" /\ f.payload = Payload
    BY Zenon
  <2> HIDE DEF f
  <2>7. PICK after \in Seq(Nat) : after = Append(queue, Payload)
    BY <2>3, Zenon
  <2>8. /\ DOMAIN corridors' = DOMAIN corridors
        /\ corridors'[object].queue = after /\ corridors'[object].capacity = capacity
        /\ \A o \in DOMAIN corridors \ {object} : corridors'[o] = corridors[o]
    BY <1>7, <2>4, <2>7, Zenon
  <2>9. Transferred(f, object, queue, after)
    BY <1>5, <1>6, <2>4, <2>5, <2>6, <2>7, <2>8, Zenon DEF Transferred
  <2> QED
    BY <1>4, <1>6, <2>2, <2>7, <2>9, Zenon
<1>9. CASE recv(court, cap)
  <2>1. queue # <<>>
    BY <1>2, <1>5, <1>9, Zenon DEF recv, RecvResult
  <2>2. PICK payload, after : payload = Head(queue) /\ after = Tail(queue)
    BY Zenon
  <2> DEFINE f == [event |-> "Received", court |-> court, object |-> object, payload |-> payload]
  <2>3. payload \in Nat /\ after \in Seq(Nat)
    BY <1>6, <2>1, <2>2
  <2>4. f \in Event
    BY <1>4, <2>3, Zenon DEF Event
  <2>5. Record(f) /\ corridors' = [corridors EXCEPT ![object].queue = after]
    BY <1>2, <1>5, <1>9, <2>2, Zenon DEF recv
  <2>6. f.object = object /\ f.event = "Received" /\ f.payload = payload
    BY Zenon
  <2> HIDE DEF f
  <2>7. /\ DOMAIN corridors' = DOMAIN corridors
        /\ corridors'[object].queue = after /\ corridors'[object].capacity = capacity
        /\ \A o \in DOMAIN corridors \ {object} : corridors'[o] = corridors[o]
    BY <1>7, <2>3, <2>5, Zenon
  <2>8. Transferred(f, object, queue, after)
    BY <1>5, <1>6, <2>1, <2>2, <2>5, <2>6, <2>7, Zenon DEF Transferred
  <2> QED
    BY <1>4, <1>6, <2>3, <2>4, <2>8, Zenon
<1> QED
  BY <1>8, <1>9, Zenon

\* The payload of a new transfer joins those of its kind; if it is newer than
\* all of them, they stay in order.
LEMMA TransferAdded ==
  ASSUME TypeOK, NEW f \in Event, NEW n, RecordedAs(f, n),
         NEW kind \in {"Sent", "Received"}, NEW o, f.event = kind, f.object = o,
         InOrder(kind, o), \A p \in Payloads(kind, o) : p < f.payload
  PROVE  Payloads(kind, o)' = Payloads(kind, o) \cup {f.payload} /\ InOrder(kind, o)'
<1>1. /\ n \in Nat /\ n \notin DOMAIN trace /\ trace'[n] = f
      /\ \A i \in DOMAIN trace : i \in Nat /\ i < n /\ trace'[i] = trace[i]
      /\ Transfers(kind, o)' = Transfers(kind, o) \cup {n}
  BY Zenon DEF RecordedAs
<1>2. \A i \in Transfers(kind, o) : i \in DOMAIN trace
  BY Zenon DEF Transfers
<1>3. Payloads(kind, o)' = Payloads(kind, o) \cup {f.payload}
  <2>1. Payloads(kind, o)' = {trace'[i].payload : i \in Transfers(kind, o) \cup {n}}
    BY <1>1, Zenon DEF Payloads
  <2> QED
    BY <1>1, <1>2 DEF Payloads
<1>4. ASSUME NEW i \in Transfers(kind, o)', NEW j \in Transfers(kind, o)', i < j
      PROVE  trace'[i].payload < trace'[j].payload
  <2>1. i # n
    <3> SUFFICES ASSUME i = n PROVE FALSE
      BY Zenon
    <3>1. j \in Transfers(kind, o) \cup {n} /\ \A k \in Transfers(kind, o) : k \in Nat /\ k < n
      BY <1>1, <1>2, Zenon
    <3> QED
      BY <1>1, <1>4, <3>1
  <2>2. i \in Transfers(kind, o) /\ trace'[i] = trace[i]
    BY <1>1, <1>2, <2>1, Zenon
  <2>3. CASE j = n
    <3>1. trace[i].payload \in Payloads(kind, o)
      BY <2>2, Zenon DEF Payloads
    <3> QED
      BY <1>1, <2>2, <2>3, <3>1, Zenon
  <2>4. CASE j # n
    <3>1. j \in Transfers(kind, o) /\ trace'[j] = trace[j]
      BY <1>1, <1>2, <2>4, Zenon
    <3> QED
      BY <1>4, <2>2, <3>1, Zenon DEF InOrder
  <2> QED
    BY <2>3, <2>4, Zenon
<1>5. InOrder(kind, o)'
  BY <1>4, Zenon DEF InOrder
<1> QED
  BY <1>3, <1>5, Zenon

\* A send appends the newest payload.
LEMMA FifoSend ==
  ASSUME TypeOK, NEW f \in Event, NEW object \in DOMAIN corridors,
         NEW queue \in Seq(Nat), NEW after \in Seq(Nat), NEW n,
         Numbered, DeliversInOrder(object), Transferred(f, object, queue, after),
         RecordedAs(f, n), f.event = "Sent"
  PROVE  Numbered' /\ DeliversInOrder(object)'
<1> DEFINE sent == Payloads("Sent", object)
           received == Payloads("Received", object)
<1>1. /\ queue = corridors[object].queue /\ f.object = object /\ f.payload = Payload
      /\ corridors'[object].queue = after /\ after = Append(queue, Payload)
      /\ corridors'[object].capacity = corridors[object].capacity
      /\ Len(queue) < corridors[object].capacity /\ corridors[object].capacity \in Nat
  BY Zenon DEF Transferred
<1>2. PICK p : p = Payload /\ p \in Nat
  BY PayloadType, Zenon
<1>3. /\ InOrder("Sent", object) /\ InOrder("Received", object)
      /\ sent = received \cup {queue[i] : i \in DOMAIN queue}
      /\ \A q \in received, i \in DOMAIN queue : q < queue[i]
      /\ \A i, j \in DOMAIN queue : i < j => queue[i] < queue[j]
      /\ Len(queue) <= corridors[object].capacity
  BY <1>1, Zenon DEF DeliversInOrder
<1>4. \A q \in sent : q \in Nat /\ q < p
  BY <1>2, PayloadsAreNumbers, Zenon DEF Payloads, Numbered
<1>5. sent' = sent \cup {p} /\ InOrder("Sent", object)'
  BY <1>1, <1>2, <1>3, <1>4, TransferAdded, Zenon
<1>6. received' = received /\ InOrder("Received", object)'
  <2>1. UNCHANGED Transfers("Received", object) /\ \A i \in DOMAIN trace : trace'[i] = trace[i]
    BY Zenon DEF RecordedAs
  <2> QED
    BY <1>3, <2>1, TransfersKept, Zenon
<1> HIDE DEF sent, received
<1>7. /\ Len(queue) \in Nat /\ DOMAIN queue = 1 .. Len(queue)
      /\ DOMAIN after = 1 .. Len(queue) + 1 /\ Len(after) = Len(queue) + 1
      /\ \A i \in 1 .. Len(queue) : after[i] = queue[i] /\ queue[i] \in sent
      /\ after[Len(queue) + 1] = p
  <2>1. \A i \in DOMAIN queue : queue[i] \in sent
    BY <1>3, Zenon
  <2> QED
    BY <1>1, <1>2, <2>1
<1>8. sent' = received' \cup {after[i] : i \in DOMAIN after}
  <2>1. {after[i] : i \in DOMAIN after} = {queue[i] : i \in DOMAIN queue} \cup {p}
    <3>1. \A i \in DOMAIN after : i \in DOMAIN queue \/ i = Len(queue) + 1
      BY <1>7
    <3>2. Len(queue) + 1 \in DOMAIN after /\ DOMAIN queue \subseteq DOMAIN after
      BY <1>7
    <3>3. \A i \in DOMAIN queue : after[i] = queue[i]
      BY <1>7, Zenon
    <3> QED
      BY <1>7, <3>1, <3>2, <3>3, Zenon
  <2> QED
    BY <1>3, <1>5, <1>6, <2>1, Zenon
<1>9. \A q \in received', i \in DOMAIN after : q < after[i]
  <2> SUFFICES ASSUME NEW q \in received, NEW i \in 1 .. Len(queue) + 1 PROVE q < after[i]
    BY <1>6, <1>7, Zenon
  <2>1. q \in sent
    BY <1>3, Zenon
  <2> QED
    BY <1>3, <1>4, <1>7, <2>1, SMTT(30)
<1>10. ASSUME NEW i \in DOMAIN after, NEW j \in DOMAIN after, i < j PROVE after[i] < after[j]
  <2>1. i \in 1 .. Len(queue) /\ after[i] = queue[i] /\ queue[i] \in sent
    BY <1>7, <1>10
  <2>2. CASE j = Len(queue) + 1
    BY <1>4, <1>7, <2>1, <2>2, Zenon
  <2>3. CASE j # Len(queue) + 1
    BY <1>3, <1>7, <1>10, <2>1, <2>3, SMTT(30)
  <2> QED
    BY <2>2, <2>3, Zenon
<1>11. Len(after) <= corridors'[object].capacity
  BY <1>1
<1>12. DeliversInOrder(object)'
  <2>1. /\ Payloads("Sent", object)' = Payloads("Received", object)' \cup {after[i] : i \in DOMAIN after}
        /\ \A q \in Payloads("Received", object)', i \in DOMAIN after : q < after[i]
    BY <1>8, <1>9, Zenon DEF sent, received
  <2> QED
    BY <1>1, <1>5, <1>6, <1>10, <1>11, <2>1, Zenon DEF DeliversInOrder
<1>13. Numbered'
  BY <1>1, NumberedOn, Zenon
<1> QED
  BY <1>12, <1>13, Zenon

\* A receive takes the oldest payload that was not received.
LEMMA FifoRecv ==
  ASSUME TypeOK, NEW f \in Event, NEW object \in DOMAIN corridors,
         NEW queue \in Seq(Nat), NEW after \in Seq(Nat), NEW n,
         Numbered, DeliversInOrder(object), Transferred(f, object, queue, after),
         RecordedAs(f, n), f.event = "Received"
  PROVE  Numbered' /\ DeliversInOrder(object)'
<1> DEFINE sent == Payloads("Sent", object)
           received == Payloads("Received", object)
<1>1. /\ queue = corridors[object].queue /\ f.object = object
      /\ queue # <<>> /\ f.payload = Head(queue) /\ after = Tail(queue)
      /\ corridors'[object].queue = after
      /\ corridors'[object].capacity = corridors[object].capacity
      /\ corridors[object].capacity \in Nat
  BY Zenon DEF Transferred
<1>2. /\ InOrder("Sent", object) /\ InOrder("Received", object)
      /\ sent = received \cup {queue[i] : i \in DOMAIN queue}
      /\ \A q \in received, i \in DOMAIN queue : q < queue[i]
      /\ \A i, j \in DOMAIN queue : i < j => queue[i] < queue[j]
      /\ Len(queue) <= corridors[object].capacity
  BY <1>1, Zenon DEF DeliversInOrder
<1>3. PICK p, l : p = f.payload /\ l = Len(queue)
  BY Zenon
<1>4. /\ l \in Nat \ {0} /\ DOMAIN queue = 1 .. l /\ queue[1] = p
      /\ DOMAIN after = 1 .. l - 1 /\ Len(after) = l - 1
      /\ \A i \in 1 .. l - 1 : after[i] = queue[i + 1]
      /\ \A i \in 1 .. l : queue[i] \in Nat
  BY <1>1, <1>3
<1>a. /\ 1 \in DOMAIN queue /\ queue[1] = p
      /\ \A i \in DOMAIN after : /\ i \in Nat /\ i + 1 \in DOMAIN queue
                                 /\ after[i] = queue[i + 1] /\ 1 < i + 1
  <2>1. 1 \in DOMAIN queue /\ queue[1] = p
    BY <1>4
  <2>2. \A i \in DOMAIN after : i \in Nat /\ i + 1 \in DOMAIN queue /\ 1 < i + 1
    BY <1>4
  <2>3. \A i \in DOMAIN after : after[i] = queue[i + 1]
    BY <1>4, Zenon
  <2> QED
    BY <2>1, <2>2, <2>3, Zenon
<1>5. \A q \in received : q < p
  BY <1>2, <1>a, Zenon
<1>6. received' = received \cup {p} /\ InOrder("Received", object)'
  BY <1>1, <1>2, <1>3, <1>5, TransferAdded, Zenon
<1>7. sent' = sent /\ InOrder("Sent", object)'
  <2>1. UNCHANGED Transfers("Sent", object) /\ \A i \in DOMAIN trace : trace'[i] = trace[i]
    BY Zenon DEF RecordedAs
  <2> QED
    BY <1>2, <2>1, TransfersKept, Zenon
<1> HIDE DEF sent, received
<1>8. sent' = received' \cup {after[i] : i \in DOMAIN after}
  <2>1. {queue[i] : i \in DOMAIN queue} = {after[i] : i \in DOMAIN after} \cup {p}
    <3>1. ASSUME NEW i \in DOMAIN queue
          PROVE  queue[i] \in {after[j] : j \in DOMAIN after} \cup {p}
      <4>1. i = 1 \/ (i - 1 \in DOMAIN after /\ after[i - 1] = queue[i])
        BY <1>4
      <4> QED
        BY <1>a, <4>1, Zenon
    <3>2. p \in {queue[i] : i \in DOMAIN queue}
      BY <1>a, Zenon
    <3>3. \A i \in DOMAIN after : after[i] \in {queue[j] : j \in DOMAIN queue}
      BY <1>a, Zenon
    <3> QED
      BY <3>1, <3>2, <3>3, Zenon
  <2> QED
    BY <1>2, <1>6, <1>7, <2>1, Zenon
<1>9. ASSUME NEW q \in received', NEW i \in DOMAIN after PROVE q < after[i]
  <2>1. q \in received \/ q = queue[1]
    BY <1>a, <1>6, Zenon
  <2> QED
    BY <1>2, <1>a, <2>1, Zenon
<1>10. ASSUME NEW i \in DOMAIN after, NEW j \in DOMAIN after, i < j PROVE after[i] < after[j]
  <2>1. i \in Nat /\ j \in Nat
    BY <1>a, Zenon
  <2>2. i + 1 < j + 1
    BY <1>10, <2>1
  <2> QED
    BY <1>2, <1>a, <2>2, Zenon
<1>11. Len(after) <= corridors'[object].capacity
  BY <1>1, <1>2
<1>12. DeliversInOrder(object)'
  <2>1. /\ Payloads("Sent", object)' = Payloads("Received", object)' \cup {after[i] : i \in DOMAIN after}
        /\ \A q \in Payloads("Received", object)', i \in DOMAIN after : q < after[i]
    BY <1>8, <1>9, Zenon DEF sent, received
  <2> QED
    BY <1>1, <1>6, <1>7, <1>10, <1>11, <2>1, Zenon DEF DeliversInOrder
<1>13. Numbered'
  BY NumberedOn, Zenon
<1> QED
  BY <1>12, <1>13, Zenon

\* send and recv leave every corridor FIFO.
LEMMA FifoTransfer ==
  ASSUME HostedInv, CorridorIsFifo, NEW court \in CourtIds, NEW cap \in CapIds,
         send(court, cap) \/ recv(court, cap)
  PROVE  CorridorIsFifo'
<1>1. TypeOK /\ Numbered /\ \A o \in DOMAIN corridors : DeliversInOrder(o)
  BY Zenon DEF HostedInv, CorridorIsFifo
<1>2. PICK f \in Event, object \in DOMAIN corridors, queue \in Seq(Nat), after \in Seq(Nat) :
        Transferred(f, object, queue, after)
  BY TransferStep, Zenon
<1>3. PICK n : n = Len(trace) + 1
  BY Zenon
<1>4. RecordedAs(f, n)
  BY <1>1, <1>2, <1>3, Recorded, Zenon DEF Transferred
<1>5. Numbered' /\ DeliversInOrder(object)'
  <2>1. f.event = "Sent" \/ f.event = "Received"
    BY <1>2, Zenon DEF Transferred
  <2> QED
    BY <1>1, <1>2, <1>4, <2>1, FifoSend, FifoRecv, Zenon
<1>6. ASSUME NEW o \in DOMAIN corridors, o # object PROVE DeliversInOrder(o)'
  <2>1. f.object = object /\ UNCHANGED corridors[o]
    BY <1>2, <1>6, Zenon DEF Transferred
  <2>2. /\ UNCHANGED Transfers("Sent", o) /\ UNCHANGED Transfers("Received", o)
        /\ \A i \in DOMAIN trace : trace'[i] = trace[i]
    BY <1>4, <1>6, <2>1, Zenon DEF RecordedAs
  <2> QED
    BY <1>1, <2>1, <2>2, OtherCorridors, Zenon
<1>7. DOMAIN corridors' = DOMAIN corridors
  BY <1>2, Zenon DEF Transferred
<1> QED
  BY <1>5, <1>6, <1>7, Zenon DEF CorridorIsFifo

\* The operations that record something other than a transfer, and leave the
\* corridors alone.
LEMMA FifoEvents ==
  ASSUME HostedInv, CorridorIsFifo,
         \/ \E court \in CourtIds, object \in descriptors, rights \in Requests :
              grant_corridor_cap(court, object, rights)
         \/ \E court \in CourtIds, object \in descriptors, cap \in {NoCap} \cup CapIds,
               rights \in Opens : open(court, object, cap, rights)
         \/ \E court \in CourtIds, cap \in CapIds : SendPeerDown(court, cap)
         \/ \E cap \in CapIds : revoke(cap)
         \/ \E court \in CourtIds : fault_court(court)
  PROVE  CorridorIsFifo'
<1>1. TypeOK /\ TypeOK'
  <2>1. HostedInv'
    BY GrantInv, OpenInv, PeerDownInv, RevokeInv, FaultInv, Zenon
  <2> QED
    BY <2>1, Zenon DEF HostedInv
<1>2. UNCHANGED corridors
  BY Zenon DEF grant_corridor_cap, open, SendPeerDown, revoke, fault_court
<1>3. \E f : Record(f) /\ f.event \notin {"Sent", "Received"}
  <2>1. ASSUME NEW court, NEW object, NEW rights, grant_corridor_cap(court, object, rights)
        PROVE  \E f : Record(f) /\ f.event \notin {"Sent", "Received"}
    <3>1. PICK f : f = [event |-> "CapGranted", court |-> court, cap |-> next_cap + 1,
                        object |-> object, rights |-> rights]
      BY Zenon
    <3> QED
      BY <2>1 DEF grant_corridor_cap
  <2>2. ASSUME NEW court, NEW object, NEW cap, NEW rights, open(court, object, cap, rights)
        PROVE  \E f : Record(f) /\ f.event \notin {"Sent", "Received"}
    <3>1. PICK f : /\ Record(f)
                   /\ f = IF OpenResult(court, object, cap, rights) = "Ok"
                          THEN [event |-> "Opened", court |-> court, cap |-> cap,
                                object |-> object, rights |-> rights]
                          ELSE [event |-> "OpenDenied", court |-> court, object |-> object,
                                reason |-> OpenResult(court, object, cap, rights)]
      BY <2>2, Zenon DEF open
    <3> QED
      BY <3>1
  <2>3. ASSUME NEW court, NEW cap, SendPeerDown(court, cap)
        PROVE  \E f : Record(f) /\ f.event \notin {"Sent", "Received"}
    <3>1. PICK f : f = [event |-> "PeerDown", court |-> court, object |-> caps[cap].object]
      BY Zenon
    <3> QED
      BY <2>3 DEF SendPeerDown
  <2>4. ASSUME NEW cap, revoke(cap) PROVE \E f : Record(f) /\ f.event \notin {"Sent", "Received"}
    <3>1. PICK f : f = [event |-> "CapRevoked", cap |-> cap]
      BY Zenon
    <3> QED
      BY <2>4 DEF revoke
  <2>5. ASSUME NEW court, fault_court(court)
        PROVE  \E f : Record(f) /\ f.event \notin {"Sent", "Received"}
    <3>1. PICK f : f = [event |-> "CourtFaulted", court |-> court]
      BY Zenon
    <3> QED
      BY <2>5 DEF fault_court
  <2> QED
    BY <2>1, <2>2, <2>3, <2>4, <2>5, Zenon
<1>4. PICK f : Record(f) /\ f.event \notin {"Sent", "Received"}
  BY <1>3, Zenon
<1>5. f \in Event
  <2>1. trace' = Append(trace, f) /\ trace \in Seq(Event) /\ trace' \in Seq(Event)
    BY <1>1, <1>4, Zenon DEF Record, TypeOK
  <2>2. Len(trace) + 1 \in DOMAIN trace' /\ trace'[Len(trace) + 1] = f
    BY <2>1
  <2> QED
    BY <2>1
<1> QED
  BY <1>1, <1>2, <1>4, <1>5, FifoQuiet, Zenon

\* Every operation leaves the corridors FIFO.
LEMMA StepFifo == ASSUME HostedInv, CorridorIsFifo, [Next]_vars PROVE CorridorIsFifo'
<1>1. TypeOK
  BY Zenon DEF HostedInv
<1>2. CASE create_court
  BY <1>1, <1>2, FifoQuiet, Zenon DEF create_court
<1>3. CASE \E path \in Paths, first, second \in CourtIds, capacity \in Capacities :
             <<first, second>> \in Ends /\ create_corridor(path, first, second, capacity)
  BY <1>3, FifoCreate, Zenon
<1>4. CASE \E court \in CourtIds, path \in Paths : lookup(court, path)
  BY <1>1, <1>4, FifoQuiet, Zenon DEF lookup
<1>5. CASE \E court \in CourtIds, object \in descriptors, rights \in Requests :
             grant_corridor_cap(court, object, rights)
  BY <1>5, FifoEvents, Zenon
<1>6. CASE \E court \in CourtIds, object \in descriptors, cap \in {NoCap} \cup CapIds,
               rights \in Opens : open(court, object, cap, rights)
  BY <1>6, FifoEvents, Zenon
<1>7. CASE \E court \in CourtIds, cap \in CapIds :
             send(court, cap) \/ SendPeerDown(court, cap) \/ recv(court, cap)
  BY <1>7, FifoTransfer, FifoEvents, Zenon
<1>8. CASE \E cap \in CapIds : revoke(cap)
  BY <1>8, FifoEvents, Zenon
<1>9. CASE \E court \in CourtIds : fault_court(court)
  BY <1>9, FifoEvents, Zenon
<1>10. CASE UNCHANGED vars
  BY <1>1, <1>10, FifoQuiet, Zenon DEF vars
<1> QED
  BY <1>2, <1>3, <1>4, <1>5, <1>6, <1>7, <1>8, <1>9, <1>10, Zenon DEF Next

\* Every corridor delivers what was sent through it in the order of the
\* sends, each message once, and never queues more than its capacity.
THEOREM CorridorsAreFifo == Spec => []CorridorIsFifo
<1>1. Init => CorridorIsFifo
  BY DEF Init, CorridorIsFifo, Numbered
<1> QED
  BY <1>1, StepFifo, HostedInvariant, PTL DEF Spec
=============================================================================

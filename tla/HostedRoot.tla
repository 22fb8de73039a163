----------------------------- MODULE HostedRoot -----------------------------
(***************************************************************************)
(* HostedRoot of crates/court-hosted/src/lib.rs: courts, their CSpaces,    *)
(* the namespace, corridors and the capability registry, composed.         *)
(*                                                                         *)
(* Every public operation is one action (all take &mut self).  The         *)
(* registry is CapTree, which CapRegistry implements.  A call that returns *)
(* an error without recording anything changes nothing and is not a step;  *)
(* the answers are the operators ...Result, in the order of the code's     *)
(* early returns.                                                          *)
(*                                                                         *)
(* A payload is the number of payloads sent before it, so that all are     *)
(* distinct.  A descriptor is the object it names: its path only reaches   *)
(* the trace.  trace keeps the events that record a use or a change of     *)
(* authority, with the object for the path and the payload for its length; *)
(* CourtCreated, CorridorCreated and NamespaceLookup, which say nothing    *)
(* the state does not, are left out.                                       *)
(***************************************************************************)
EXTENDS Caps, Sequences

CONSTANTS
  SEND, RECV, OBSERVE, REVOKE,  \* the other Rights bits a corridor has
  Paths,       \* namespace paths
  Ends,        \* pairs of courts that corridors are created between
  Capacities,  \* queue capacities corridors are created with
  Requests,    \* sets of rights that grants are asked for
  Opens,       \* sets of rights that open is asked for
  MaxCourt,    \* bound on next_court
  MaxObject,   \* bound on next_object
  MaxTrace     \* bound on the number of recorded events

\* The rights create_corridor mints the root capability with.
CorridorRights == {SEND, RECV, OBSERVE, DELEGATE, REVOKE}

ASSUME HostedAssumption ==
  /\ CorridorRights \subseteq AllRights
  /\ Requests \subseteq SUBSET AllRights /\ Opens \subseteq SUBSET AllRights
  /\ Capacities \subseteq Nat
  /\ MaxCourt \in Nat /\ MaxObject \in Nat /\ MaxTrace \in Nat
  /\ Objects = 1 .. MaxObject

CourtIds == 1 .. MaxCourt

VARIABLES
  courts,       \* [1 .. next_court -> CourtState]; next_court is its length
  cspaces,      \* [1 .. next_court -> set of cap ids]
  next_cap,     \* the registry
  caps,
  entries,      \* the namespace: bound path -> object
  descriptors,  \* objects whose descriptor lookup has handed out
  corridors,    \* [1 .. next_object -> Corridor]
  root_caps,    \* [1 .. next_object -> cap id]
  trace         \* recorded events, oldest first

vars == <<courts, cspaces, next_cap, caps, entries, descriptors, corridors,
          root_caps, trace>>

Registry == INSTANCE CapTree

Corridor == [endpoints : CourtIds \X CourtIds, queue : Seq(Nat), capacity : Nat]

Event ==
       [event : {"CapGranted"}, court : CourtIds, cap : CapIds, object : Objects,
        rights : SUBSET AllRights]
  \cup [event : {"Opened"}, court : CourtIds, cap : CapIds, object : Objects,
        rights : SUBSET AllRights]
  \cup [event : {"OpenDenied"}, court : CourtIds, object : Objects,
        reason : {"NoRight", "BadCap", "Revoked", "InvalidObject"}]
  \cup [event : {"Sent", "Received"}, court : CourtIds, object : Objects, payload : Nat]
  \cup [event : {"CapRevoked"}, cap : CapIds]
  \cup [event : {"CourtFaulted"}, court : CourtIds]
  \cup [event : {"PeerDown"}, court : CourtIds, object : Objects]

\* Every variable is of its type: courts, cspaces and the tables by object grow
\* together, and the trace consists of events of TraceEvent.
TypeOK ==
  /\ Registry!TypeOK
  /\ Len(courts) <= MaxCourt /\ courts \in Seq({"Running", "Faulted"})
  /\ cspaces \in [DOMAIN courts -> SUBSET (1 .. next_cap)]
  /\ Len(corridors) <= MaxObject /\ corridors \in Seq(Corridor)
  /\ root_caps \in [DOMAIN corridors -> 1 .. next_cap]
  /\ DOMAIN entries \subseteq Paths
  /\ \A p \in DOMAIN entries : entries[p] \in DOMAIN corridors
  /\ descriptors \subseteq DOMAIN corridors
  /\ trace \in Seq(Event) /\ Len(trace) <= MaxTrace

-----------------------------------------------------------------------------
Running(court) == court \in DOMAIN courts /\ courts[court] = "Running"

\* trace.push(event).
Record(event) ==
  /\ Len(trace) < MaxTrace
  /\ trace' = Append(trace, event)

\* Corridor::has_peer_down: an endpoint other than the caller is not running.
HasPeerDown(corridor, caller) ==
  \E i \in 1 .. 2 : corridor.endpoints[i] # caller /\ ~Running(corridor.endpoints[i])

\* Mutant: the queue takes one message too many.
SendResultOverfull(court, cap) ==
  IF ~Running(court) THEN "InvalidState"
  ELSE IF cap \notin cspaces[court] THEN "BadCap"
  ELSE IF AuthorizeResult(caps, cap, {SEND}) # "Ok"
       THEN AuthorizeResult(caps, cap, {SEND})
  ELSE IF HasPeerDown(corridors[caps[cap].object], court) THEN "PeerDown"
  ELSE IF Len(corridors[caps[cap].object].queue)
            > corridors[caps[cap].object].capacity THEN "QueueFull"
  ELSE "Ok"

\* What send answers.
SendResult(court, cap) ==
  IF ~Running(court) THEN "InvalidState"
  ELSE IF cap \notin cspaces[court] THEN "BadCap"
  ELSE IF AuthorizeResult(caps, cap, {SEND}) # "Ok"
       THEN AuthorizeResult(caps, cap, {SEND})
  ELSE IF HasPeerDown(corridors[caps[cap].object], court) THEN "PeerDown"
  ELSE IF Len(corridors[caps[cap].object].queue)
            >= corridors[caps[cap].object].capacity THEN "QueueFull"
  ELSE "Ok"

\* What recv answers: it does not ask whether the peer is running.
RecvResult(court, cap) ==
  IF ~Running(court) THEN "InvalidState"
  ELSE IF cap \notin cspaces[court] THEN "BadCap"
  ELSE IF AuthorizeResult(caps, cap, {RECV}) # "Ok"
       THEN AuthorizeResult(caps, cap, {RECV})
  ELSE IF corridors[caps[cap].object].queue = <<>> THEN "QueueEmpty"
  ELSE "Ok"

\* Mutant: open accepts a capability for another corridor.
OpenResultAnyObject(court, object, cap, rights) ==
  IF cap = NoCap THEN "NoRight"
  ELSE IF cap \notin cspaces[court] THEN "BadCap"
  ELSE AuthorizeResult(caps, cap, rights)

\* What open answers for a running court; NoCap is the argument None.
OpenResult(court, object, cap, rights) ==
  IF cap = NoCap THEN "NoRight"
  ELSE IF cap \notin cspaces[court] THEN "BadCap"
  ELSE IF AuthorizeResult(caps, cap, rights) # "Ok"
       THEN AuthorizeResult(caps, cap, rights)
  ELSE IF caps[cap].object # object THEN "InvalidObject"
  ELSE "Ok"

\* The payload of the next send: one that no earlier send has used.
Payload == Len(trace)

-----------------------------------------------------------------------------
Init ==
  /\ Registry!Init
  /\ courts = <<>>
  /\ cspaces = <<>>
  /\ entries = [p \in {} |-> 0]
  /\ descriptors = {}
  /\ corridors = <<>>
  /\ root_caps = <<>>
  /\ trace = <<>>

create_court ==
  /\ Len(courts) < MaxCourt
  /\ courts' = Append(courts, "Running")
  /\ cspaces' = Append(cspaces, {})
  /\ UNCHANGED <<next_cap, caps, entries, descriptors, corridors, root_caps, trace>>

\* bind overwrites an earlier entry of the same path.
create_corridor(path, first, second, capacity) ==
  /\ Running(first)
  /\ Running(second)
  /\ Len(corridors) < MaxObject
  /\ corridors' = Append(corridors, [endpoints |-> <<first, second>>, queue |-> <<>>,
                                     capacity |-> capacity])
  /\ Registry!MintRoot(Len(corridors) + 1, CorridorRights)
  /\ root_caps' = Append(root_caps, next_cap + 1)
  /\ entries' = [p \in DOMAIN entries \cup {path} |->
                   IF p = path THEN Len(corridors) + 1 ELSE entries[p]]
  /\ UNCHANGED <<courts, cspaces, descriptors, trace>>

lookup(court, path) ==
  /\ Running(court)
  /\ path \in DOMAIN entries
  /\ descriptors' = descriptors \cup {entries[path]}
  /\ UNCHANGED <<courts, cspaces, next_cap, caps, entries, corridors, root_caps, trace>>

\* Mutant: the court gets the root capability it was delegated from.
grant_corridor_capRoot(court, object, rights) ==
  /\ Running(court)
  /\ Registry!Delegate(root_caps[object], rights)
  /\ cspaces' = [cspaces EXCEPT ![court] = @ \cup {root_caps[object]}]
  /\ Record([event |-> "CapGranted", court |-> court, cap |-> next_cap + 1,
             object |-> object, rights |-> rights])
  /\ UNCHANGED <<courts, entries, descriptors, corridors, root_caps>>

\* The court need not be an endpoint of the corridor.
grant_corridor_cap(court, object, rights) ==
  /\ Running(court)
  /\ Registry!Delegate(root_caps[object], rights)
  /\ cspaces' = [cspaces EXCEPT ![court] = @ \cup {next_cap + 1}]
  /\ Record([event |-> "CapGranted", court |-> court, cap |-> next_cap + 1,
             object |-> object, rights |-> rights])
  /\ UNCHANGED <<courts, entries, descriptors, corridors, root_caps>>

open(court, object, cap, rights) ==
  /\ Running(court)
  /\ LET result == OpenResult(court, object, cap, rights)
     IN  Record(IF result = "Ok"
                THEN [event |-> "Opened", court |-> court, cap |-> cap,
                      object |-> object, rights |-> rights]
                ELSE [event |-> "OpenDenied", court |-> court, object |-> object,
                      reason |-> result])
  /\ UNCHANGED <<courts, cspaces, next_cap, caps, entries, descriptors, corridors,
                 root_caps>>

send(court, cap) ==
  LET object == caps[cap].object
  IN  /\ SendResult(court, cap) = "Ok"
      /\ corridors' = [corridors EXCEPT ![object].queue = Append(@, Payload)]
      /\ Record([event |-> "Sent", court |-> court, object |-> object,
                 payload |-> Payload])
      /\ UNCHANGED <<courts, cspaces, next_cap, caps, entries, descriptors, root_caps>>

\* The one failing send that leaves a mark.
SendPeerDown(court, cap) ==
  /\ SendResult(court, cap) = "PeerDown"
  /\ Record([event |-> "PeerDown", court |-> court, object |-> caps[cap].object])
  /\ UNCHANGED <<courts, cspaces, next_cap, caps, entries, descriptors, corridors,
                 root_caps>>

recv(court, cap) ==
  LET object == caps[cap].object
  IN  /\ RecvResult(court, cap) = "Ok"
      /\ corridors' = [corridors EXCEPT ![object].queue = Tail(@)]
      /\ Record([event |-> "Received", court |-> court, object |-> object,
                 payload |-> Head(corridors[object].queue)])
      /\ UNCHANGED <<courts, cspaces, next_cap, caps, entries, descriptors, root_caps>>

\* The root court may revoke any capability, root capabilities included.
revoke(cap) ==
  /\ Registry!Revoke(cap)
  /\ Record([event |-> "CapRevoked", cap |-> cap])
  /\ UNCHANGED <<courts, cspaces, entries, descriptors, corridors, root_caps>>

\* Mutant: a fault takes the other courts down too.
fault_courtSpreading(court) ==
  /\ court \in DOMAIN courts
  /\ courts' = [c \in DOMAIN courts |-> "Faulted"]
  /\ Record([event |-> "CourtFaulted", court |-> court])
  /\ UNCHANGED <<cspaces, next_cap, caps, entries, descriptors, corridors, root_caps>>

\* Faulting a court revokes nothing and drains nothing.
fault_court(court) ==
  /\ court \in DOMAIN courts
  /\ courts' = [courts EXCEPT ![court] = "Faulted"]
  /\ Record([event |-> "CourtFaulted", court |-> court])
  /\ UNCHANGED <<cspaces, next_cap, caps, entries, descriptors, corridors, root_caps>>

Next ==
  \/ create_court
  \/ \E path \in Paths, first, second \in CourtIds, capacity \in Capacities :
       <<first, second>> \in Ends /\ create_corridor(path, first, second, capacity)
  \/ \E court \in CourtIds, path \in Paths : lookup(court, path)
  \/ \E court \in CourtIds, object \in descriptors, rights \in Requests :
       grant_corridor_cap(court, object, rights)
  \/ \E court \in CourtIds, object \in descriptors, cap \in {NoCap} \cup CapIds,
        rights \in Opens : open(court, object, cap, rights)
  \/ \E court \in CourtIds, cap \in CapIds :
       send(court, cap) \/ SendPeerDown(court, cap) \/ recv(court, cap)
  \/ \E cap \in CapIds : revoke(cap)
  \/ \E court \in CourtIds : fault_court(court)

Spec == Init /\ [][Next]_vars

-----------------------------------------------------------------------------
\* Some grant before position j gave court a capability for object with the
\* rights, and neither it nor the corridor's root capability was revoked
\* before j.
GrantedBefore(j, court, object, rights) ==
  \E i \in 1 .. j - 1 :
    /\ trace[i].event = "CapGranted"
    /\ trace[i].court = court
    /\ trace[i].object = object
    /\ rights \subseteq trace[i].rights
    /\ \A k \in 1 .. j - 1 :
         trace[k].event = "CapRevoked"
           => trace[k].cap \notin {trace[i].cap, root_caps[object]}

FaultedBefore(j, court) ==
  \E i \in 1 .. j - 1 : trace[i] = [event |-> "CourtFaulted", court |-> court]

\* The rights a use takes.
RightsUsed(event) ==
  CASE event.event = "Sent" -> {SEND}
    [] event.event = "Received" -> {RECV}
    [] event.event = "Opened" -> event.rights

Uses == {"Sent", "Received", "Opened"}

Audited(j) ==
  /\ trace[j].event \in Uses =>
       /\ GrantedBefore(j, trace[j].court, trace[j].object, RightsUsed(trace[j]))
       /\ ~FaultedBefore(j, trace[j].court)
  /\ trace[j].event = "Sent" =>
       \A e \in 1 .. 2 : ~FaultedBefore(j, corridors[trace[j].object].endpoints[e])

\* The trace audits: every message sent or received, and every corridor
\* opened, was covered at that moment by a grant to that court that had not
\* been revoked, directly or through the corridor's root capability; the
\* court had not faulted; and no message was accepted for a corridor one of
\* whose endpoints was down.
UseWasAuthorized == \A j \in DOMAIN trace : Audited(j)

Transfers(kind, object) ==
  {i \in DOMAIN trace : trace[i].event = kind /\ trace[i].object = object}

Payloads(kind, object) == {trace[i].payload : i \in Transfers(kind, object)}

InOrder(kind, object) ==
  \A i, j \in Transfers(kind, object) : i < j => trace[i].payload < trace[j].payload

\* Payloads are numbered as they are sent, over all corridors.
Numbered ==
  \A i \in DOMAIN trace : trace[i].event = "Sent" => trace[i].payload < Payload

\* What was sent through a corridor is what was received followed by what is
\* queued, both in the order of the sends.
DeliversInOrder(o) ==
  LET queue == corridors[o].queue
  IN  /\ InOrder("Sent", o) /\ InOrder("Received", o)
      /\ Payloads("Sent", o) = Payloads("Received", o) \cup {queue[n] : n \in DOMAIN queue}
      /\ \A p \in Payloads("Received", o), n \in DOMAIN queue : p < queue[n]
      /\ \A m, n \in DOMAIN queue : m < n => queue[m] < queue[n]
      /\ Len(queue) <= corridors[o].capacity

\* A corridor delivers in order, loses nothing, duplicates nothing and never
\* holds more than its capacity, through faults and revocations.
CorridorIsFifo ==
  /\ Numbered
  /\ \A o \in DOMAIN corridors : DeliversInOrder(o)

\* Authority stays where it was put: a capability is in at most one CSpace,
\* the root capability of a corridor is in none, and what is in a CSpace was
\* delegated from the root capability of the corridor it names.
CspacesDisjoint ==
  \A court \in DOMAIN courts :
    /\ \A other \in DOMAIN courts \ {court} : cspaces[court] \cap cspaces[other] = {}
    /\ \A cap \in cspaces[court] : caps[cap].parent = root_caps[caps[cap].object]

\* Revocations and faults are contained: a capability is revoked exactly if
\* it, or the root capability it was delegated from, was named in a revoke,
\* and a court is down exactly if it was itself faulted.
DamageIsContained ==
  /\ \A c \in DOMAIN caps :
       caps[c].revoked <=>
         \E i \in DOMAIN trace : /\ trace[i].event = "CapRevoked"
                                 /\ trace[i].cap \in {c, caps[c].parent}
  /\ \A court \in DOMAIN courts :
       Running(court) <=> ~FaultedBefore(Len(trace) + 1, court)
-----------------------------------------------------------------------------
\* The derivation forest has two levels: the root capability of each
\* corridor, and what was delegated from it.
TwoLevels ==
  /\ \A o \in DOMAIN corridors :
       caps[root_caps[o]].object = o /\ caps[root_caps[o]].parent = NoCap
  /\ \A c \in DOMAIN caps :
       /\ caps[c].object \in DOMAIN corridors
       /\ caps[c].parent \in {NoCap, root_caps[caps[c].object]}

Grant(court, cap) ==
  [event |-> "CapGranted", court |-> court, cap |-> cap, object |-> caps[cap].object,
   rights |-> caps[cap].rights]

\* What is in a CSpace was put there by a grant the trace has.
GrantsRecorded ==
  \A court \in DOMAIN courts : \A cap \in cspaces[court] :
    \E i \in DOMAIN trace : trace[i] = Grant(court, cap)

\* Events are about what exists.
EventsRefer ==
  \A i \in DOMAIN trace :
    /\ trace[i].event \in Uses => trace[i].object \in DOMAIN corridors
    /\ trace[i].event = "CapRevoked" => trace[i].cap \in DOMAIN caps
    /\ trace[i].event = "CourtFaulted" => trace[i].court \in DOMAIN courts

\* Why the trace audits: the registry, the CSpaces and the trace of HostedRoot
\* agree.  Whatever a court holds was granted in the trace, derived directly
\* from the corridor's root capability, and is dead exactly if the trace says
\* so; hence what send, recv and open accept now was granted before.
HostedInv ==
  /\ TypeOK /\ TwoLevels /\ GrantsRecorded /\ EventsRefer
  /\ CspacesDisjoint /\ DamageIsContained /\ UseWasAuthorized
=============================================================================

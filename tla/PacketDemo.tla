----------------------------- MODULE PacketDemo -----------------------------
(***************************************************************************)
(* The hosted demo as processes: ck-root (root.rs) and one process per     *)
(* court of the manifest, running app.rs or net.rs, joined by one control  *)
(* socket each (control.rs) and by shared packet rings.                    *)
(*                                                                         *)
(* A step of a process takes a message, does what the code does with it    *)
(* and writes the answer; each effect another process can see is a step of *)
(* its own, so that a kill may come between any two of them.  A socket     *)
(* delivers in order; what a dead process wrote can still be read;         *)
(* reading past it, and writing to a dead process, is an error.  On any    *)
(* error a process exits with status 1.                                    *)
(*                                                                         *)
(* A ring is the bounded FIFO that SharedRing implements.  The core state  *)
(* of root is its capability table; no court faults in it before the last  *)
(* grant was opened, so its courts are always running when it is asked.    *)
(*                                                                         *)
(* The read timeout of ten seconds and the five seconds of net's polling   *)
(* strike either at any time (Slow) or only when nothing else in the       *)
(* system can move.                                                        *)
(***************************************************************************)
EXTENDS Caps, Manifest

CONSTANTS
  Setups,   \* the manifests and policies a run may be started with
  Mortal,   \* the processes that may be killed at any time
  Slow      \* whether a timeout may beat a message

\* Every list of the two files is a Vec.
IsList(list) == list \in Seq(Range(list))

ASSUME DemoAssumption ==
  /\ Slow \in BOOLEAN
  /\ \A s \in Setups :
       /\ IsList(s.manifest.courts) /\ IsList(s.manifest.corridors)
       /\ IsList(s.policy.grants) /\ IsList(s.policy.revokes)
       /\ IsList(s.policy.faults) /\ IsList(s.policy.peer_down)

VARIABLES
  setup,     \* [manifest, policy], chosen once
  root,      \* [pc, i: loop index, from: court whose message is awaited]
  root_exit,
  caps,      \* the registry; the first ones are the root capabilities
  keys,      \* caps_by_key: <<court, path>> -> cap id
  rings,     \* ring file -> [capacity, slot_size, queue]
  trace,     \* the lines of trace.ndjson: [event, court, status]
  peers,     \* courts accepted
  backlog,   \* connections waiting for accept
  to_root, to_court,  \* the sockets: court -> sequence of messages
  court,     \* [pc, cap, revoked, peer_down] of each court process
  exit       \* exit status of each court process

vars == <<setup, root, root_exit, caps, keys, rings, trace, peers, backlog,
          to_root, to_court, court, exit>>
core == <<caps, keys, trace, peers>>
sockets == <<backlog, to_root, to_court>>

manifest == setup.manifest
policy == setup.policy
Courts == CourtNames(manifest)
Role(c) == (CHOOSE d \in Range(manifest.courts) : d.name = c).role
AppCourt == CHOOSE c \in Courts : Role(c) = "app"
DemoPath == manifest.corridors[1].path
ObjectAt(path) == CHOOSE i \in DOMAIN manifest.corridors : manifest.corridors[i].path = path
CorridorRights == {"send", "recv", "observe", "delegate", "revoke"}

Line(event, c, status) == [event |-> event, court |-> c, status |-> status]
At(pc, i, from) == [pc |-> pc, i |-> i, from |-> from]

-----------------------------------------------------------------------------
\* validate and build_state: one root capability and one ring file per
\* corridor.  A later corridor with the same file name truncates the ring.
Init ==
  /\ setup \in {s \in Setups : validate(s.manifest, s.policy)}
  /\ root = At("accept", 1, "")
  /\ root_exit = "none"
  /\ caps = [i \in DOMAIN manifest.corridors |-> RootCap(i, CorridorRights)]
  /\ keys = [k \in {} |-> 0]
  /\ rings = [file \in {ring_file_name(path) : path \in CorridorPaths(manifest)} |->
       LET last == CHOOSE i \in DOMAIN manifest.corridors :
                     /\ ring_file_name(manifest.corridors[i].path) = file
                     /\ \A j \in DOMAIN manifest.corridors :
                          ring_file_name(manifest.corridors[j].path) = file => j <= i
       IN  [capacity |-> manifest.corridors[last].capacity,
            slot_size |-> manifest.corridors[last].slot_size, queue |-> <<>>]]
  /\ trace = <<Line("lookup", "root", "ok")>>
  /\ peers = {}
  /\ backlog = <<>>
  /\ to_root = [c \in Courts |-> <<>>]
  /\ to_court = [c \in Courts |-> <<>>]
  /\ court = [c \in Courts |-> [pc |-> "connect", cap |-> 0, path |-> DemoPath,
                                revoked |-> FALSE, peer_down |-> FALSE]]
  /\ exit = [c \in Courts |-> "none"]

-----------------------------------------------------------------------------
\* ck-root.
RootUp == root_exit = "none"
Up(c) == exit[c] = "none"

RootFails ==
  /\ root_exit' = "err"
  /\ UNCHANGED <<setup, root, caps, keys, rings, trace, peers, sockets, court, exit>>

\* What is read from c while root goes on to next and records lines.
Read(c) == to_root' = [to_root EXCEPT ![c] = Tail(@)]
Record(lines) == trace' = trace \o lines

\* Write message to c and go on; a dead reader makes root fail.
Write(c, message, next) ==
  IF Up(c)
  THEN /\ to_court' = [to_court EXCEPT ![c] = Append(@, message)]
       /\ root' = next
       /\ UNCHANGED root_exit
  ELSE /\ root_exit' = "err"
       /\ UNCHANGED <<to_court, root>>

\* The places where root reads a message, and the arm of the match it takes
\* there (accept_peers, handle_app_lookup_and_denied_open,
\* handle_grant_and_open, run_peer_down, record_trace_from).
Reading == {"hello", "lookup", "denied", "open", "send", "recv", "revoked", "faulted",
            "peer_trace", "done"}

RootTakes(m) ==
  CASE root.pc = "hello"  -> m.type = "Hello"
    [] root.pc = "lookup" -> m.type = "Lookup" /\ m.path = DemoPath
    [] root.pc = "denied" -> /\ m.type = "Open" /\ m.path = DemoPath
                             /\ m.cap = NoCap /\ "send" \in m.rights
    [] root.pc = "open"   -> /\ m.type = "Open" /\ m.path = policy.grants[root.i].path
                             /\ m.cap # NoCap
    [] root.pc = "done"   -> m.type = "DemoDone"
    [] OTHER -> m.type = "Trace"

Ready(pc) ==
  /\ RootUp /\ root.pc = pc
  /\ to_root[root.from] # <<>> /\ RootTakes(Head(to_root[root.from]))

Message == Head(to_root[root.from])

\* recv()? fails: a message root does not expect, or a closed socket.
RootRecvFails ==
  /\ RootUp /\ root.pc \in Reading
  /\ \/ to_root[root.from] # <<>> /\ ~RootTakes(Message)
     \/ to_root[root.from] = <<>> /\ ~Up(root.from)
  /\ RootFails

\* listener.accept() has no timeout.
Accept ==
  /\ RootUp /\ root.pc = "accept"
  /\ backlog # <<>>
  /\ backlog' = Tail(backlog)
  /\ root' = At("hello", 1, Head(backlog))
  /\ UNCHANGED <<setup, root_exit, core, rings, to_root, to_court, court, exit>>

HelloAck ==
  LET c == root.from
      next == IF peers \cup {c} = Courts THEN At("lookup", 1, AppCourt) ELSE At("accept", 1, "")
  IN  /\ Ready("hello")
      /\ Read(c)
      /\ Write(c, [type |-> "HelloAck", path |-> DemoPath], next)
      /\ peers' = peers \cup {c}
      /\ UNCHANGED <<setup, caps, keys, rings, trace, backlog, court, exit>>

\* handle_app_lookup_and_denied_open.
LookupResult ==
  /\ Ready("lookup")
  /\ Read(AppCourt)
  /\ Record(<<Line("lookup", AppCourt, "ok")>>)
  /\ Write(AppCourt, [type |-> "LookupResult", path |-> DemoPath], At("denied", 1, AppCourt))
  /\ UNCHANGED <<setup, caps, keys, rings, peers, backlog, court, exit>>

OpenDenied ==
  /\ Ready("denied")
  /\ Read(AppCourt)
  /\ Record(<<Line("open_denied", AppCourt, "no_right")>>)
  /\ Write(AppCourt, [type |-> "OpenResult", status |-> "no_right"], At("grant", 1, ""))
  /\ UNCHANGED <<setup, caps, keys, rings, peers, backlog, court, exit>>

\* handle_grant_and_open, up to the Grant message.  A right the corridor's
\* root capability does not have makes delegate fail.
Grant ==
  LET g == policy.grants[root.i]
      parent == ObjectAt(g.path)
      cap == Len(caps) + 1
  IN  /\ RootUp /\ root.pc = "grant" /\ root.i <= Len(policy.grants)
      /\ DelegateResult(caps, parent, g.rights) = "Ok"
      /\ caps' = Append(caps, ChildCap(caps[parent], parent, g.rights))
      /\ keys' = [k \in DOMAIN keys \cup {<<g.court, g.path>>} |->
                    IF k = <<g.court, g.path>> THEN cap ELSE keys[k]]
      /\ Record(<<Line("grant", "root", "ok")>>)
      /\ Write(g.court, [type |-> "Grant", path |-> g.path, cap |-> cap],
               At("open", root.i, g.court))
      /\ UNCHANGED <<setup, rings, peers, backlog, to_root, court, exit>>

GrantFails ==
  /\ RootUp /\ root.pc = "grant" /\ root.i <= Len(policy.grants)
  /\ DelegateResult(caps, ObjectAt(policy.grants[root.i].path), policy.grants[root.i].rights) # "Ok"
  /\ RootFails

\* Mutant: root goes on to the revokes without waiting for the reports of the
\* send and the receive.
GrantsDoneEager ==
  /\ RootUp /\ root.pc = "grant" /\ root.i > Len(policy.grants)
  /\ root' = At("revoke", 1, "")
  /\ UNCHANGED <<setup, root_exit, core, rings, sockets, court, exit>>

GrantsDone ==
  /\ RootUp /\ root.pc = "grant" /\ root.i > Len(policy.grants)
  /\ root' = At("send", 1, AppCourt)
  /\ UNCHANGED <<setup, root_exit, core, rings, sockets, court, exit>>

\* caps_by_id: the capabilities root has granted.
HandedOut == Len(manifest.corridors) + 1 .. Len(caps)

\* WireStatus::from for the errors of authorize.
WireStatus(answer) ==
  CASE answer = "BadCap"  -> "bad_cap"
    [] answer = "Revoked" -> "revoked"
    [] answer = "NoRight" -> "no_right"
    [] answer = "Ok"      -> "ok"

\* handle_grant_and_open, from the Open message.  A cap root did not hand out
\* is answered and not traced.
Opened ==
  LET c == root.from
      path == policy.grants[root.i].path
      m == Message
      answer == AuthorizeResult(caps, m.cap, m.rights)
      status == IF m.cap \notin HandedOut THEN "bad_cap"
                ELSE IF answer = "Ok" /\ caps[m.cap].object # ObjectAt(path)
                THEN "invalid_object" ELSE WireStatus(answer)
      sent == [type |-> "OpenResult", status |-> status]
  IN  /\ Ready("open")
      /\ Read(c)
      /\ Record(IF m.cap \in HandedOut THEN <<Line("open", c, status)>> ELSE <<>>)
      /\ IF status = "ok"
         THEN Write(c, sent, At("grant", root.i + 1, ""))
         ELSE /\ root_exit' = "err"
              /\ to_court' = IF Up(c) THEN [to_court EXCEPT ![c] = Append(@, sent)]
                             ELSE to_court
              /\ UNCHANGED root
      /\ UNCHANGED <<setup, caps, keys, rings, peers, backlog, court, exit>>

\* record_trace_from: whatever the court reports is written down.
RecordTrace(pc, next) ==
  /\ Ready(pc)
  /\ Read(root.from)
  /\ Record(<<Message.line>>)
  /\ root' = next
  /\ UNCHANGED <<setup, root_exit, caps, keys, rings, peers, backlog, to_court, court, exit>>

\* Mutant: any granted court is taken for the receiver.
ReceiversAny == {k[1] : k \in DOMAIN keys}

\* The courts find_recv_grant_court may return: the table has no order.
\* validate asks for a grant of recv, so there is one.
Receivers == {k[1] : k \in {k \in DOMAIN keys : "recv" \in caps[keys[k]].rights}}

SendTrace == \E c \in Receivers : RecordTrace("send", At("recv", 1, c))

RecvTrace == RecordTrace("recv", At("revoke", 1, ""))

\* Mutant: root does not wait for the court to report on its revocation.
RevokeUnconfirmed ==
  LET r == policy.revokes[root.i]
      cap == keys[<<r.court, r.path>>]
  IN  /\ RootUp /\ root.pc = "revoke" /\ root.i <= Len(policy.revokes)
      /\ caps' = [caps EXCEPT ![cap].revoked = TRUE]
      /\ Record(<<Line("revoke", "root", "ok")>>)
      /\ Write(r.court, [type |-> "Revoke", cap |-> cap], At("revoke", root.i + 1, ""))
      /\ UNCHANGED <<setup, keys, rings, peers, backlog, to_root, court, exit>>

\* run_revokes.
Revoke ==
  LET r == policy.revokes[root.i]
      cap == keys[<<r.court, r.path>>]
  IN  /\ RootUp /\ root.pc = "revoke" /\ root.i <= Len(policy.revokes)
      /\ caps' = [caps EXCEPT ![cap].revoked = TRUE]
      /\ Record(<<Line("revoke", "root", "ok")>>)
      /\ Write(r.court, [type |-> "Revoke", cap |-> cap], At("revoked", root.i, r.court))
      /\ UNCHANGED <<setup, keys, rings, peers, backlog, to_root, court, exit>>

RevokeTrace == RecordTrace("revoked", At("revoke", root.i + 1, ""))

RevokesDone ==
  /\ RootUp /\ root.pc = "revoke" /\ root.i > Len(policy.revokes)
  /\ root' = At("fault", 1, "")
  /\ UNCHANGED <<setup, root_exit, core, rings, sockets, court, exit>>

\* run_faults.  A court that was faulted already is no peer any more.
Fault ==
  LET c == policy.faults[root.i].court
  IN  /\ RootUp /\ root.pc = "fault" /\ root.i <= Len(policy.faults)
      /\ c \in peers
      /\ Write(c, [type |-> "Fault"], At("faulted", root.i, c))
      /\ UNCHANGED <<setup, core, rings, backlog, to_root, court, exit>>

FaultTrace == RecordTrace("faulted", At("reap", root.i, root.from))

\* expect_child_exit waits without a timeout.
Reap ==
  /\ RootUp /\ root.pc = "reap"
  /\ exit[root.from] = "42"
  /\ peers' = peers \ {root.from}
  /\ Record(<<Line("court_fault", "root", "fault")>>)
  /\ root' = At("fault", root.i + 1, "")
  /\ UNCHANGED <<setup, root_exit, caps, keys, rings, sockets, court, exit>>

FaultsDone ==
  /\ RootUp /\ root.pc = "fault" /\ root.i > Len(policy.faults)
  /\ root' = At("peer_down", 1, "")
  /\ UNCHANGED <<setup, root_exit, core, rings, sockets, court, exit>>

\* run_peer_down.
PeerDown ==
  LET d == policy.peer_down[root.i]
  IN  /\ RootUp /\ root.pc = "peer_down" /\ root.i <= Len(policy.peer_down)
      /\ d.court \in peers
      /\ Record(IF Up(d.court) THEN <<Line("peer_down", "root", "peer_down")>> ELSE <<>>)
      /\ Write(d.court, [type |-> "PeerDown", path |-> d.path],
               At("peer_trace", root.i, d.court))
      /\ UNCHANGED <<setup, caps, keys, rings, peers, backlog, to_root, court, exit>>

PeerDownTrace == RecordTrace("peer_trace", At("done", root.i, root.from))

DemoDone ==
  /\ Ready("done")
  /\ Read(root.from)
  /\ Record(<<Line("demo_done", root.from, "ok")>>)
  /\ root' = At("peer_down", root.i + 1, "")
  /\ UNCHANGED <<setup, root_exit, caps, keys, rings, peers, backlog, to_court, court, exit>>

PeerDownsDone ==
  /\ RootUp /\ root.pc = "peer_down" /\ root.i > Len(policy.peer_down)
  /\ root' = At("wait", 1, "")
  /\ UNCHANGED <<setup, root_exit, core, rings, sockets, court, exit>>

\* The court the policy names is gone from the table of peers, or the child
\* root waits for ended otherwise than expected.
RootGivesUp ==
  /\ RootUp
  /\ \/ /\ root.pc = "fault" /\ root.i <= Len(policy.faults)
        /\ policy.faults[root.i].court \notin peers
     \/ /\ root.pc = "peer_down" /\ root.i <= Len(policy.peer_down)
        /\ policy.peer_down[root.i].court \notin peers
     \/ root.pc = "reap" /\ exit[root.from] \notin {"none", "42"}
     \/ root.pc = "wait" /\ \E c \in peers : exit[c] \notin {"none", "ok"}
  /\ RootFails

\* Mutant: root returns without looking at the exit status of the courts.
RootReturnsEarly ==
  /\ RootUp /\ root.pc = "wait"
  /\ root_exit' = "ok"
  /\ UNCHANGED <<setup, root, core, rings, sockets, court, exit>>

\* expect_child_success for every remaining peer; then root returns.
RootReturns ==
  /\ RootUp /\ root.pc = "wait"
  /\ \A c \in peers : exit[c] = "ok"
  /\ root_exit' = "ok"
  /\ UNCHANGED <<setup, root, core, rings, sockets, court, exit>>

RootStep ==
  \/ Accept \/ HelloAck \/ LookupResult \/ OpenDenied
  \/ Grant \/ GrantFails \/ Opened \/ GrantsDone
  \/ SendTrace \/ RecvTrace
  \/ Revoke \/ RevokeTrace \/ RevokesDone
  \/ Fault \/ FaultTrace \/ Reap \/ FaultsDone
  \/ PeerDown \/ PeerDownTrace \/ DemoDone \/ PeerDownsDone
  \/ RootReturns \/ RootGivesUp \/ RootRecvFails

-----------------------------------------------------------------------------
\* The court processes.
CourtFails(c) ==
  /\ exit' = [exit EXCEPT ![c] = "err"]
  /\ UNCHANGED <<setup, root, root_exit, core, rings, sockets, court>>

\* Write messages to root and go on as next; a dead root makes c fail.
Say(c, messages, next) ==
  IF RootUp
  THEN /\ to_root' = [to_root EXCEPT ![c] = @ \o messages]
       /\ court' = [court EXCEPT ![c] = next]
       /\ UNCHANGED exit
  ELSE /\ exit' = [exit EXCEPT ![c] = "err"]
       /\ UNCHANGED <<to_root, court>>

Open(path, cap, rights) == [type |-> "Open", path |-> path, cap |-> cap, rights |-> rights]
Trace(line) == [type |-> "Trace", line |-> line]

CourtReading == {"ack", "lookup", "denied", "grant", "opened", "loop", "fault"}

CourtTakes(c, m) ==
  CASE court[c].pc = "ack"    -> m.type = "HelloAck"
    [] court[c].pc = "lookup" -> m.type = "LookupResult"
    [] court[c].pc = "denied" -> m.type = "OpenResult" /\ m.status = "no_right"
    [] court[c].pc = "grant"  -> m.type = "Grant" /\ m.path = DemoPath
    [] court[c].pc = "opened" -> m.type = "OpenResult" /\ m.status = "ok"
    [] court[c].pc = "fault"  -> m.type = "Fault"
    [] court[c].pc = "loop"   -> \/ m.type = "Revoke" /\ m.cap = court[c].cap
                                 \/ m.type = "PeerDown" /\ m.path = DemoPath

Heard(c) == Head(to_court[c])

Hears(c, role, pc) ==
  /\ Up(c) /\ Role(c) = role /\ court[c].pc = pc
  /\ to_court[c] # <<>> /\ CourtTakes(c, Heard(c))
  /\ to_court' = [to_court EXCEPT ![c] = Tail(@)]

\* The listener is bound before the courts are spawned, so the first attempt
\* of connect_with_retry succeeds while root lives.
Connect(c) ==
  /\ Up(c) /\ court[c].pc = "connect" /\ RootUp
  /\ backlog' = Append(backlog, c)
  /\ court' = [court EXCEPT ![c].pc = "hello"]
  /\ UNCHANGED <<setup, root, root_exit, core, rings, to_root, to_court, exit>>

ConnectFails(c) ==
  /\ Up(c) /\ court[c].pc = "connect" /\ ~RootUp
  /\ CourtFails(c)

Hello(c) ==
  /\ Up(c) /\ court[c].pc = "hello"
  /\ Say(c, <<[type |-> "Hello"]>>, [court[c] EXCEPT !.pc = "ack"])
  /\ UNCHANGED <<setup, root, root_exit, core, rings, backlog, to_court>>

CourtRecvFails(c) ==
  /\ Up(c) /\ court[c].pc \in CourtReading
  /\ \/ to_court[c] # <<>> /\ ~CourtTakes(c, Heard(c))
     \/ to_court[c] = <<>> /\ ~RootUp
  /\ CourtFails(c)

AppAcked(c) ==
  /\ Hears(c, "app", "ack")
  /\ Say(c, <<[type |-> "Lookup", path |-> DemoPath]>>, [court[c] EXCEPT !.pc = "lookup"])
  /\ UNCHANGED <<setup, root, root_exit, core, rings, backlog>>

AppFound(c) ==
  /\ Hears(c, "app", "lookup")
  /\ Say(c, <<Open(DemoPath, NoCap, {"send"})>>, [court[c] EXCEPT !.pc = "denied"])
  /\ UNCHANGED <<setup, root, root_exit, core, rings, backlog>>

AppDenied(c) ==
  /\ Hears(c, "app", "denied")
  /\ court' = [court EXCEPT ![c].pc = "grant"]
  /\ UNCHANGED <<setup, root, root_exit, core, rings, backlog, to_root, exit>>

AppGranted(c) ==
  /\ Hears(c, "app", "grant")
  /\ Say(c, <<Open(DemoPath, Heard(c).cap, {"send"})>>,
         [court[c] EXCEPT !.pc = "opened", !.cap = Heard(c).cap])
  /\ UNCHANGED <<setup, root, root_exit, core, rings, backlog>>

AppOpened(c) ==
  /\ Hears(c, "app", "opened")
  /\ court' = [court EXCEPT ![c].pc = "send"]
  /\ UNCHANGED <<setup, root, root_exit, core, rings, backlog, to_root, exit>>

RingFile == ring_file_name(DemoPath)

\* SharedRing::send on the ring of the demo path: its answer.
RingSendResult(state, len) ==
  IF state.peer_down THEN "peer_down"
  ELSE IF state.revoked THEN "revoked"
  ELSE IF len > rings[RingFile].slot_size THEN "invalid_object"
  ELSE IF Len(rings[RingFile].queue) >= rings[RingFile].capacity THEN "queue_full"
  ELSE "ok"

RingSend(state, len, packet) ==
  rings' = IF RingSendResult(state, len) = "ok"
           THEN [rings EXCEPT ![RingFile].queue = Append(@, packet)] ELSE rings

AppSends(c) ==
  /\ Up(c) /\ court[c].pc = "send"
  /\ RingSend(court[c], manifest.payload_len, "packet")
  /\ IF RingSendResult(court[c], manifest.payload_len) = "ok"
     THEN court' = [court EXCEPT ![c].pc = "sent"] /\ UNCHANGED exit
     ELSE exit' = [exit EXCEPT ![c] = "err"] /\ UNCHANGED court
  /\ UNCHANGED <<setup, root, root_exit, core, sockets>>

AppSent(c) ==
  /\ Up(c) /\ court[c].pc = "sent"
  /\ Say(c, <<Trace(Line("send", c, "ok"))>>, [court[c] EXCEPT !.pc = "loop"])
  /\ UNCHANGED <<setup, root, root_exit, core, rings, backlog, to_court>>

\* The endpoint is marked, then tried.
AppRevoked(c) ==
  /\ Hears(c, "app", "loop") /\ Heard(c).type = "Revoke"
  /\ court' = [court EXCEPT ![c].revoked = TRUE, ![c].pc = "retry"]
  /\ UNCHANGED <<setup, root, root_exit, core, rings, backlog, to_root, exit>>

AppRetries(c) ==
  /\ Up(c) /\ court[c].pc = "retry"
  /\ RingSend(court[c], 1, "after-revoke")
  /\ Say(c, <<Trace(Line("send_after_revoke", c, RingSendResult(court[c], 1)))>>,
         [court[c] EXCEPT !.pc = "loop"])
  /\ UNCHANGED <<setup, root, root_exit, core, backlog, to_court>>

AppPeerDown(c) ==
  /\ Hears(c, "app", "loop") /\ Heard(c).type = "PeerDown"
  /\ Say(c, <<Trace(Line("peer_down", c, "peer_down"))>>,
         [court[c] EXCEPT !.pc = "done", !.peer_down = TRUE])
  /\ UNCHANGED <<setup, root, root_exit, core, rings, backlog>>

AppDone(c) ==
  /\ Up(c) /\ court[c].pc = "done"
  /\ Say(c, <<[type |-> "DemoDone"]>>, [court[c] EXCEPT !.pc = "exit"])
  /\ UNCHANGED <<setup, root, root_exit, core, rings, backlog, to_court>>

NetAcked(c) ==
  /\ Hears(c, "net", "ack")
  /\ court' = [court EXCEPT ![c].pc = "grant"]
  /\ UNCHANGED <<setup, root, root_exit, core, rings, backlog, to_root, exit>>

NetGranted(c) ==
  /\ Hears(c, "net", "grant")
  /\ Say(c, <<Open(DemoPath, Heard(c).cap, {"recv"})>>,
         [court[c] EXCEPT !.pc = "opened", !.cap = Heard(c).cap])
  /\ UNCHANGED <<setup, root, root_exit, core, rings, backlog>>

NetOpened(c) ==
  /\ Hears(c, "net", "opened")
  /\ court' = [court EXCEPT ![c].pc = "poll"]
  /\ UNCHANGED <<setup, root, root_exit, core, rings, backlog, to_root, exit>>

\* The polling loop finds a packet.
NetReceives(c) ==
  /\ Up(c) /\ court[c].pc = "poll"
  /\ rings[RingFile].queue # <<>>
  /\ rings' = [rings EXCEPT ![RingFile].queue = Tail(@)]
  /\ court' = [court EXCEPT ![c].pc = "got"]
  /\ UNCHANGED <<setup, root, root_exit, core, sockets, exit>>

NetReceived(c) ==
  /\ Up(c) /\ court[c].pc = "got"
  /\ Say(c, <<Trace(Line("recv", c, "ok"))>>, [court[c] EXCEPT !.pc = "fault"])
  /\ UNCHANGED <<setup, root, root_exit, core, rings, backlog, to_court>>

NetFaults(c) ==
  /\ Hears(c, "net", "fault")
  /\ Say(c, <<Trace(Line("fault", c, "fault"))>>, [court[c] EXCEPT !.pc = "exit"])
  /\ UNCHANGED <<setup, root, root_exit, core, rings, backlog>>

\* The app returns Ok; net calls exit(42).
Exit(c) ==
  /\ Up(c) /\ court[c].pc = "exit"
  /\ exit' = [exit EXCEPT ![c] = IF Role(c) = "app" THEN "ok" ELSE "42"]
  /\ UNCHANGED <<setup, root, root_exit, core, rings, sockets, court>>

CourtStep(c) ==
  \/ Connect(c) \/ ConnectFails(c) \/ Hello(c) \/ CourtRecvFails(c)
  \/ AppAcked(c) \/ AppFound(c) \/ AppDenied(c) \/ AppGranted(c) \/ AppOpened(c)
  \/ AppSends(c) \/ AppSent(c) \/ AppRevoked(c) \/ AppRetries(c)
  \/ AppPeerDown(c) \/ AppDone(c)
  \/ NetAcked(c) \/ NetGranted(c) \/ NetOpened(c)
  \/ NetReceives(c) \/ NetReceived(c) \/ NetFaults(c)
  \/ Exit(c)

-----------------------------------------------------------------------------
Quiet == ~ENABLED (RootStep \/ \E c \in Courts : CourtStep(c))

\* The read timeout of the control socket.
RootTimeout ==
  /\ RootUp /\ root.pc \in Reading
  /\ to_root[root.from] = <<>> /\ Up(root.from)
  /\ Slow \/ Quiet
  /\ RootFails

\* Mutant: a control socket without a read timeout.
CourtTimeoutPollOnly(c) ==
  /\ Up(c)
  /\ court[c].pc = "poll"
  /\ Slow \/ Quiet
  /\ CourtFails(c)

\* The same in a court, or the deadline of net's polling.
CourtTimeout(c) ==
  /\ Up(c)
  /\ \/ court[c].pc \in CourtReading /\ to_court[c] = <<>> /\ RootUp
     \/ court[c].pc = "poll"
  /\ Slow \/ Quiet
  /\ CourtFails(c)

Kill(p) ==
  \/ /\ p = "root" /\ RootUp
     /\ root_exit' = "killed"
     /\ UNCHANGED <<setup, root, core, rings, sockets, court, exit>>
  \/ /\ p \in Courts /\ Up(p)
     /\ exit' = [exit EXCEPT ![p] = "killed"]
     /\ UNCHANGED <<setup, root, root_exit, core, rings, sockets, court>>

AllExited == ~RootUp /\ \A c \in Courts : ~Up(c)
Finished == AllExited /\ UNCHANGED vars

Next ==
  \/ RootStep
  \/ \E c \in Courts : CourtStep(c) \/ CourtTimeout(c)
  \/ RootTimeout
  \/ \E p \in Mortal : Kill(p)
  \/ Finished

\* A process that can run does, and a read that is never answered times out.
Spec ==
  /\ Init /\ [][Next]_vars
  /\ WF_vars(RootStep) /\ WF_vars(RootTimeout)
  /\ \A c \in UNION {CourtNames(s.manifest) : s \in Setups} :
       /\ WF_vars(c \in Courts /\ CourtStep(c))
       /\ WF_vars(c \in Courts /\ CourtTimeout(c))

-----------------------------------------------------------------------------
GrantsTo(c) == {i \in DOMAIN policy.grants : policy.grants[i].court = c}
FaultsOf(c) == {i \in DOMAIN policy.faults : policy.faults[i].court = c}

\* The setups the demo can play to the end: two courts, each granted once
\* and only on the demo path, with the right it will ask for and none the
\* corridor lacks; revokes of the app only; a packet that fits; net faulted
\* once; and the app told of it once.
Runnable ==
  /\ \E net \in Courts \ {AppCourt} : Courts = {AppCourt, net}
  /\ \A c \in Courts : \E i \in GrantsTo(c) : GrantsTo(c) = {i}
  /\ \A g \in Range(policy.grants) :
       /\ g.path = DemoPath
       /\ g.rights \subseteq CorridorRights
       /\ IF g.court = AppCourt THEN "send" \in g.rights ELSE "recv" \in g.rights
  /\ \A r \in Range(policy.revokes) : r.court = AppCourt
  /\ FaultsOf(AppCourt) = {}
  /\ \A c \in Courts \ {AppCourt} : \E i \in FaultsOf(c) : FaultsOf(c) = {i}
  /\ Len(policy.peer_down) = 1
  /\ policy.peer_down[1].court = AppCourt /\ policy.peer_down[1].path = DemoPath
  /\ ~(manifest.payload_len > rings[RingFile].slot_size)

\* Nobody but net can be taken for the receiver.
OneReceiver == \A i \in GrantsTo(AppCourt) : "recv" \notin policy.grants[i].rights

\* Every validated setup of this shape runs to a successful end, whatever
\* the order in which the processes connect, read and write, as long as
\* nobody dies and no message takes ten seconds.
RunsThrough == Runnable /\ OneReceiver => <>(root_exit = "ok")

\* And no other setup does, although validate accepts it: root never
\* reports success for a policy that was not carried out in full.
OnlyRunnableSucceeds == root_exit = "ok" => Runnable

\* Success means success of everyone: when root returns Ok, each faulted
\* court ended by its scripted fault and every other one ended well.
SuccessIsUnanimous ==
  root_exit = "ok" =>
    \A c \in Courts : exit[c] = (IF FaultsOf(c) = {} THEN "ok" ELSE "42")

\* Root has revoked the capability c opened its ring with.
RevokedInRegistry(c) == court[c].cap # NoCap /\ caps[court[c].cap].revoked

\* From the moment root revokes a capability in its registry, its holder
\* neither sends nor receives on the ring, although it opened the ring before,
\* the ring asks only the holder's own endpoint, and the holder learns of the
\* revocation by a message it may read late or never: root revokes only after
\* it was told of the last use.
NoUseAfterRevoke ==
  [][\A c \in Courts : RevokedInRegistry(c) /\ court'[c] # court[c] => rings' = rings]_vars

\* Lines that are written once per run; grant and open come once per grant.
OncePerRun(line) == line.event \notin {"grant", "open"}

\* The trace tells the story in the order of PHASE_ORDER, although its lines
\* come from three processes, when the policy revokes at most once and takes
\* down at most one peer.
TraceFollowsPhases ==
  Len(policy.revokes) <= 1 /\ Len(policy.peer_down) <= 1 =>
    \A i, j \in DOMAIN trace :
      i < j /\ OncePerRun(trace[i]) /\ OncePerRun(trace[j]) =>
        phase_index(trace[i].event) <= phase_index(trace[j].event)

StuckInAccept ==
  root.pc = "accept" /\ backlog = <<>> /\ \E c \in Courts \ peers : ~Up(c)

\* Everyone stops: no process waits for ever for another that waits for it
\* or is gone.  The one exception is accept, which has no timeout: root
\* stays there if a court died before it connected.
EveryoneStops ==
  <>[]((\A c \in Courts : ~Up(c)) /\ (RootUp => StuckInAccept))

\* What the SAFETY comment of SharedRing::init relies on: the ring of a
\* corridor is created once.
RingsArePrivate ==
  \A i, j \in DOMAIN manifest.corridors :
    ring_file_name(manifest.corridors[i].path) = ring_file_name(manifest.corridors[j].path)
      => i = j

\* What the README says of a crash: once the two courts have exchanged their
\* packet, a net court that dies does not take down the app.
CrashIsContained ==
  (\E line \in Range(trace) : line.event = "recv") => exit[AppCourt] # "err"
=============================================================================

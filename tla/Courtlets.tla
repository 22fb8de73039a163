----------------------------- MODULE Courtlets -----------------------------
(***************************************************************************)
(* The courtlet demo of the bare-metal Root Court: run_demo (courtlet.rs)  *)
(* on the memory of Paging and the tables of RootTables, and the two court *)
(* images (court-images), which see their boot page and the ring only      *)
(* through their own page tables.                                          *)
(*                                                                         *)
(* A court image runs to its end on the boot processor with interrupts     *)
(* off, so entering it is one step.                                        *)
(***************************************************************************)
EXTENDS Paging, RootTables

CONSTANT CAPACITY   \* slots of the ring

ASSUME CapacityAssumption == CAPACITY \in Nat \ {0}

\* The tables have room for root, app and net: in object.rs, 8 courts and 16
\* capabilities.
ASSUME RoomAssumption == MAX_COURTS >= 3 /\ MAX_CAPS >= 3

VARIABLES
  root,     \* the tables of the Root Court
  caps,     \* <<app_cap, net_cap>>
  boots,    \* frames of the boot pages, the app's first
  memory,   \* contents of the boot pages and of the ring: frame -> record
  stage,    \* what run_demo does next
  received  \* the status the net image returned, 0 before it is entered

demo == <<root, caps, boots, memory, stage, received>>
demo_vars == <<vars, demo>>

Put(frame, contents) ==
  memory' = [f \in DOMAIN memory \cup {frame} |-> IF f = frame THEN contents ELSE memory[f]]

BootInfo(rights) == [magic |-> "boot", rights |-> rights]
NewRing == [magic |-> "ring", producer |-> 0, consumer |-> 0, revoked |-> FALSE,
            slots |-> [i \in 0 .. CAPACITY - 1 |-> 0]]

\* The statuses of court-abi, and the length of the packet "pkt".  A slot is
\* the length stored in it: no code reads the bytes.
ST_SENT == 1
ST_RECV == 2
ST_DENIED == 57345
ST_EMPTY == 57346
ST_BAD_MAGIC == 47824
PACKET_LEN == 3

DemoInit ==
  /\ Init
  /\ root = bootstrap(NewRoot).root
  /\ caps = <<>>
  /\ boots = <<>>
  /\ memory = [f \in {} |-> NewRing]
  /\ stage = "app"
  /\ received = 0

\* The beginning of run_demo: two courts, two capabilities, one ring.
Register ==
  LET app == spawn_court(root, "app")
      net == spawn_court(app.root, "net")
      app_cap == mint(net.root, app.id, {RIGHT_SEND})
      net_cap == mint(app_cap.root, net.id, {RIGHT_RECV})
  IN  IF app.ok /\ net.ok /\ app_cap.ok /\ net_cap.ok
      THEN /\ run_demo
           /\ root' = net_cap.root
           /\ caps' = <<app_cap.id, net_cap.id>>
           /\ IF error' = "" THEN Put(ring', NewRing) ELSE UNCHANGED memory
           /\ UNCHANGED <<boots, stage, received>>
      ELSE /\ Running /\ pc = "ring"
           /\ Fail("tables")
           /\ UNCHANGED demo

\* spawn writes the boot page through the direct map.
WriteBoot ==
  LET rights == IF Len(spaces) = 2 THEN {RIGHT_SEND} ELSE {RIGHT_RECV}
  IN  /\ spawn
      /\ IF error' = ""
         THEN boots' = Append(boots, FirstFrame(bump)) /\ Put(FirstFrame(bump), BootInfo(rights))
         ELSE UNCHANGED <<boots, memory>>
      /\ UNCHANGED <<root, caps, stage, received>>

Contents(space, va) ==
  IF Translate(space, va) \in DOMAIN memory THEN memory[Translate(space, va)]
  ELSE [magic |-> "none"]

\* Mutant: nothing but the magic numbers is looked at.
ChecksMagicOnly(space, right) ==
  IF Contents(space, BOOT_VA).magic # "boot" \/ Contents(space, RING_VA).magic # "ring"
  THEN ST_BAD_MAGIC ELSE 0

\* The checks both images begin with; 0 stands for going on.
Checks(space, right) ==
  LET boot == Contents(space, BOOT_VA)
      q == Contents(space, RING_VA)
  IN  IF boot.magic # "boot" \/ q.magic # "ring" THEN ST_BAD_MAGIC
      ELSE IF right \notin boot.rights \/ q.revoked THEN ST_DENIED
      ELSE 0

\* _start of the app image: its status, and the ring after it.
app_start(space) ==
  LET q == Contents(space, RING_VA)
      checks == Checks(space, RIGHT_SEND)
  IN  IF checks # 0 THEN [status |-> checks, ring |-> q]
      ELSE IF q.producer - q.consumer >= CAPACITY THEN [status |-> ST_DENIED, ring |-> q]
      ELSE [status |-> ST_SENT,
            ring |-> [q EXCEPT !.slots[q.producer % CAPACITY] = PACKET_LEN, !.producer = @ + 1]]

\* Mutant: the slot after the packet is read.
net_startNewest(space) ==
  LET q == Contents(space, RING_VA)
      checks == Checks(space, RIGHT_RECV)
  IN  IF checks # 0 THEN [status |-> checks, ring |-> q]
      ELSE IF q.consumer = q.producer THEN [status |-> ST_EMPTY, ring |-> q]
      ELSE [status |-> ST_RECV + 256 * q.slots[q.producer % CAPACITY],
            ring |-> [q EXCEPT !.consumer = @ + 1]]

\* _start of the net image; the status carries the packet's length.
net_start(space) ==
  LET q == Contents(space, RING_VA)
      checks == Checks(space, RIGHT_RECV)
  IN  IF checks # 0 THEN [status |-> checks, ring |-> q]
      ELSE IF q.consumer = q.producer THEN [status |-> ST_EMPTY, ring |-> q]
      ELSE [status |-> ST_RECV + 256 * q.slots[q.consumer % CAPACITY],
            ring |-> [q EXCEPT !.consumer = @ + 1]]

AtStage(now) == Running /\ pc = "demo" /\ stage = now
Enter(result, space, accepted, next, why) ==
  /\ memory' = IF Translate(space, RING_VA) \in DOMAIN memory
               THEN [memory EXCEPT ![Translate(space, RING_VA)] = result.ring] ELSE memory
  /\ stage' = IF accepted THEN next ELSE stage
  /\ error' = IF accepted THEN "" ELSE why
  /\ UNCHANGED <<machine, images, pc, bump, tables, spaces, queue, item, ring, asked,
                 root, caps, boots>>

EnterApp ==
  LET app == app_start(spaces[2])
  IN  /\ AtStage("app")
      /\ IF \E i \in 1 .. 2 : images[i].entry \div PAGE >= Half
         THEN Fail("half") /\ UNCHANGED <<root, caps, boots, memory, stage>>
         ELSE Enter(app, spaces[2], app.status = ST_SENT, "net", "send failed")
      /\ UNCHANGED received

\* Only the low byte of the status is looked at, and that of ST_EMPTY is
\* ST_RECV.
EnterNet ==
  LET net == net_start(spaces[3])
  IN  /\ AtStage("net")
      /\ Enter(net, spaces[3], net.status % 256 = ST_RECV, "revoke", "recv failed")
      /\ received' = net.status

\* Mutant: the copy of the rights in the boot page is forgotten.
RevokeUncopied ==
  /\ AtStage("revoke")
  /\ root' = revoke_cap(root, caps[1]).root
  /\ memory' = IF revoke_cap(root, caps[1]).ok
               THEN [memory EXCEPT ![ring].revoked = TRUE] ELSE memory
  /\ IF revoke_cap(root, caps[1]).ok /\ cap_rights(root', caps[1]) = Some({})
     THEN stage' = "denied" /\ UNCHANGED error
     ELSE error' = "still live" /\ UNCHANGED stage
  /\ UNCHANGED <<machine, images, pc, bump, tables, spaces, queue, item, ring, asked,
                 caps, boots, received>>

\* revoke_cap, then the copy of the rights in the boot page, then the ring.
Revoke ==
  /\ AtStage("revoke")
  /\ root' = revoke_cap(root, caps[1]).root
  /\ memory' = IF revoke_cap(root, caps[1]).ok
               THEN [memory EXCEPT ![boots[1]].rights = {}, ![ring].revoked = TRUE]
               ELSE memory
  /\ IF revoke_cap(root, caps[1]).ok /\ cap_rights(root', caps[1]) = Some({})
     THEN stage' = "denied" /\ UNCHANGED error
     ELSE error' = "still live" /\ UNCHANGED stage
  /\ UNCHANGED <<machine, images, pc, bump, tables, spaces, queue, item, ring, asked,
                 caps, boots, received>>

EnterAppAgain ==
  LET app == app_start(spaces[2])
  IN  /\ AtStage("denied")
      /\ Enter(app, spaces[2], app.status = ST_DENIED, "done", "did not deny")
      /\ UNCHANGED received

DemoHalted == (error # "" \/ stage = "done") /\ UNCHANGED demo_vars

DemoNext ==
  \/ (from_memmap \/ build \/ build_entry \/ map_range \/ activate \/ clone_kernel \/ load) /\ UNCHANGED demo
  \/ Register \/ WriteBoot
  \/ EnterApp \/ EnterNet \/ Revoke \/ EnterAppAgain \/ DemoHalted

DemoSpec == DemoInit /\ [][DemoNext]_demo_vars

-----------------------------------------------------------------------------
\* Whatever the memory map and the images: the tables of the Root Court have
\* room for both courts, and once both courtlets are mapped nothing fails any
\* more.  The entries are in the lower half, the app sends, net receives, and
\* the app is denied after the revocation.
DemoNeverFails ==
  /\ error # "tables"
  /\ pc = "demo" /\ queue = <<>> => error = ""

\* What net received is the packet the app sent, through two page tables and
\* one frame.  run_demo would not notice if it were not: its test of the low
\* byte takes an empty ring and a slot nobody wrote for a packet.
PacketArrives ==
  /\ received \in {0, ST_RECV + 256 * PACKET_LEN}
  /\ stage \in {"revoke", "denied", "done"} => received # 0

\* Once the app's capability has lost its rights, nothing more is put on the
\* ring; and the app finds no rights in its boot page either, so the copy the
\* image reads and the table agree, and the ring's mark is not the only bar.
NothingSentAfterRevoke ==
  [][caps # <<>> /\ cap_rights(root, caps[1]) = Some({})
       => /\ memory'[ring].producer = memory[ring].producer
          /\ Contents(spaces[2], BOOT_VA).rights = {}]_demo_vars
=============================================================================

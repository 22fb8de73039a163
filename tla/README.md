# Court Kernel in TLA+

Specifications of the code under `src/crates`, the TLC models that check them,
and proofs for TLAPS. Court Kernel has two halves that share ideas and no code:

* the **hosted prototype**: a library that models courts, capabilities and
  corridors in one process (`court-hosted`), and a demo in which a root process
  and two court processes talk over Unix sockets and a shared-memory ring
  (`court-hosted-linux`);
* the **bare-metal Root Court** (`root-court`): a kernel that takes over memory
  and processors from the boot loader, keeps courts and capabilities in
  fixed-size tables, and runs two embedded court images (`court-images`,
  `court-abi`) one after the other.

`PROJECT.json` names for every definition the source lines it models.

## 1. The system and its models

| Part | Source | Modules |
|---|---|---|
| Capability registry | `court-hosted/src/lib.rs` | `Caps`, `CapTree` (abstract), `CapRegistry`, `CapabilityProofs` |
| Courts, CSpaces, namespace, corridors | `court-hosted/src/lib.rs` | `HostedRoot`, `HostedRootProofs` |
| Shared packet ring | `court-hosted-linux/src/shm_ring.rs`, `protocol.rs` | `BoundedFifo` (abstract), `SharedRing`, `SharedRingProofs` |
| Its file | `court-hosted-linux/src/shm_ring.rs` | `RingFile`, `RingFileProofs` |
| Manifest and policy | `court-hosted-linux/src/manifest.rs` | `Manifest` |
| Multi-process demo | `court-hosted-linux/src/{root,app,net,control,protocol}.rs` | `PacketDemo` |
| Memory, page tables, image loading | `root-court/src/{mm,paging,stack,image}.rs` | `Paging`, `SmallMachines` (inputs), `PagingSteps`, `PagingProofs` |
| Processors, interrupts, serial port | `root-court/src/{main,idt,gdt,apic,serial}.rs` | `Smp`, `SmpProofs` |
| Object tables | `root-court/src/object.rs` | `RootTables`, `RootObjects`, `CapabilityProofs` |
| Courtlet demo | `root-court/src/courtlet.rs`, `court-images`, `court-abi` | `Courtlets`, `CourtletsProofs` |
| Boot loader interface, instruction wrappers | `root-court/src/{limine_abi,cpu}.rs`, `idt_stubs.s`, `build.rs` | inputs of `Paging` and `Smp` (which answers there are, what the memory map says); the rest not modelled |
| Acceptance test of the demo | `court-hosted-linux/tests/mvp0b_demo.rs` | not modelled; the trace order it asserts is `TraceFollowsPhases` |

How the modules are composed:

```
Caps ---> CapTree <==implements== CapRegistry ---> CapabilityProofs
 |  \
 |   `--> HostedRoot ---> HostedRootProofs
 |                    (registry operations in one step, as in CapTree)
 `------> PacketDemo  (ring as a bounded queue)
Manifest --'
BoundedFifo <==implements== SharedRing ---> SharedRingProofs
RingFile ---> RingFileProofs

Paging ---> PagingSteps ---> PagingProofs --.
  \                                          >--> CourtletsProofs
   >--> Courtlets -------------------------'
RootTables ---> RootObjects ---> CapabilityProofs
  (Courtlets runs the demo on the page tables and the object tables)
Smp ---> SmpProofs
```

`PagingSteps` holds the lemmas about one step of a walk that `PagingProofs`
cites.

`HostedRoot` and `PacketDemo` use revocation as one step and `PacketDemo` uses
the ring as a bounded queue. That `CapRegistry` implements `CapTree`, and
`SharedRing` implements `BoundedFifo`, is what allows it.

### Capability registry

`caps`, `children` and `next_cap` are the fields of `CapRegistry`; ids
are 1, 2, ... in the order `alloc_cap` gives them. `mint_root`, `delegate` and
`revoke` are actions of these names. The worklist loop of `revoke` is taken one
iteration at a time (`RevokeLoop`, variable `stack`), and no other operation
comes in between, as `revoke` holds `&mut self`. `authorize` changes nothing
and is the operator `AuthorizeResult`, with the checks in the order of the
code. `CapTree` is what the registry promises: revoking a capability revokes
everything derived from it at once. The refinement mapping (`TreeCaps`) counts
what is derived from the worklist as revoked from the first iteration on.

### HostedRoot

Each public operation of `HostedRoot` is an action; an operation that returns
an error without recording an event is not a step, and its answer is in the
operators `...Result`. A payload is the number of events before its send, so
no two sends have the same one. Descriptors are held by the
courts across rebinding of a path. The trace is part of the state: the
properties audit it.

### Shared ring

`send` and `recv` are split at every access to shared memory. The stores of the
producer pass through a buffer from which plain stores leave in any order and
the `Release` store of the index only after all stores before it; the consumer's
index store is delayed too; loads are in program order, which `Acquire` gives.
The producer may stop for good anywhere in `send`. Indices are counters modulo
`Modulus` (2^64 in the code).

### Ring file

`RingFile` is how a ring comes to be: `create`, which truncates, sets the
length, maps and stores the header, and `open`, which maps what is there and
validates it. The header is stored and loaded by plain accesses, so each field
is a step of its own, the stores of `init` in any order. The documented run
directory is a fixed one (`README.md:81`), so a file is created again in place by the
next `ck-root`, while courts of the last one may still be opening it; and two
corridors may have one file name (`rings_are_private` below). A root may end
between any two steps and leave a file half made. A load from a file that was
truncated under the mapping is a SIGBUS (`killed`). `total_len` and `slot_ptr`
compute in a bounded `usize`, with the checks of the code.

What comes out: `validate` is enough, although it is not synchronized with
`init`. The length is there before the header is, the magic and the version are
checked first, and a layout of which a part is still zero has another length
than the file has. (Capacity zero would give the length of the header alone,
and a slot size of zero a shorter file; the manifest has neither.)

### Packet demo

One action per step of `run_manifest_demo` (root), and of `run` in `app.rs` and `net.rs`, between two visible
effects: a message on a control socket, an access to a ring, an exit. Sockets
are queues in each direction that deliver in order and report end-of-file once
the other end is gone. A process may be killed between any two steps
(`Mortal`), and a read may time out before its answer arrives (`Slow`). `accept`
and waiting for a child have no time-out, as in the code. What root writes to
the trace file for a message and the message itself are one step: a root killed
in between would leave one more line. `Manifest` has `validate` and
`ring_file_name` as operators; a path is the sequence of its parts, and a part
the sequence of its words.

### Paging, object tables, courtlets

`Paging` follows `kmain` and `run_demo` through `BumpAllocator::from_memmap`, the
kernel's page tables, the kernel stacks and the two address spaces; a step is
one round of `map_range` or the code between two calls of it (`build_entry` is
one round of the loop of `build` over the memory map). Tables have four
entries in the models where the machine has 512; the depth is the real one, so
a walk, a split between large and small pages, and the boundary of the lower
half all occur. The kernel image begins at some page after the base the boot
loader reports (`start`), and the stacks of processors (`KSTACK_PAGES`) and of
courtlets (`STACK_PAGES`) have sizes of their own. `RootTables` has the operations of `object.rs` as operators on
a record, with arrays of fixed size. `Courtlets` extends both: the images read
and write their boot page and the ring only through the translation of their
own tables.

The comments in `paging.rs` (lines 12-13, 52-53 and 289) say that an address
space clones entry 511 of the kernel's top table; the code copies all 512. The
model does what the code does. The mutant that copies only the last entry
violates `AllocatedReachable`: the direct map would be missing.

### Processors

`Smp` has the program counter of the boot processor from the answers of the
boot loader on, what every processor has loaded (page tables, descriptor
tables, APIC, stack, interrupt flag), the counters, one pending bit per vector
and processor, and the lock that `println` holds. Interrupts are taken at any
moment they are enabled. The machine is chosen in `Init`: processors, those
that never come up, whether a bounded wait may expire early, whether there are
x2APICs, which requests the boot loader answered, how much memory there is, and
whether it is faulty. On a faulty machine every processor that has loaded the
interrupt table may take an exception between any two steps, the boot processor
also inside `println`. The handler prints without the lock (`print_raw`) and
exits; the mutant that takes the lock violates `BootEnds`.

## 2. Runs

| Run | Distinct states | What it shows |
|---|---|---|
| `cap_registry` | 102,547 | Revocation reaches every descendant, through ones already revoked; authority shrinks along every chain; revoked is for ever; the loop ends; the registry implements `CapTree`. |
| `hosted_root` | 510,499 | Every recorded use was authorized at that point of the trace, with a path bound twice as well; a corridor is a FIFO within its capacity; a fault or a revocation touches what it names and no more. `HostedInv` is the invariant of the proofs. |
| `shared_ring` | 97,248 | No slot is overwritten before it was read, and the ring, indices wrapping, implements `BoundedFifo`, liveness included. |
| `ring_file` | 212,290 | A court that `open` lets in has all its slots inside its mapping, also if it looked at a header half written; one that met no creation is let in. |
| `packet_demo_policies` | 77,776 | Of a family of policies that `validate` accepts, exactly the runnable ones end well, in every interleaving. |
| `packet_demo_crash` | 3,823 | With kills and early time-outs everywhere: success is never reported for a failed run, nobody waits for ever but root in `accept`, and from the moment root revokes a capability its holder does not use the ring, although it learns of it only by a message. |
| `paging` | 24,094 | What was mapped is what is translated, what was allocated is reachable, courtlets share the ring only, and a collision of entries means that the ranges overlap; in a courtlet, that its image overlaps itself or its layout, whatever the kernel has mapped. |
| `smp` | 47,654 | Interrupts find a processor ready, no processor stops itself, the demo begins only when all have answered once and is not disturbed, and the boot ends, with exceptions too. |
| `root_objects` | 17,590 | Full tables: spawning is all or nothing, and a revoked number stays without rights. |
| `courtlets` | 24,882 | The object tables have room for both courts, and once both courtlets are mapped nothing fails: the app sends, net receives, revocation reaches the table and the boot page, and the app is denied. |

Two runs show where the code and what is written about it disagree:

* `crash_is_contained`: `README.md:57` says that a faulted Net Court does not
  take down App Court. That holds for the scripted fault. When net dies at
  another moment, root fails on its socket and the app with it.
* `rings_are_private`: `shm_ring.rs:166` relies on one creator per ring;
  `ring_file_name` keeps two parts of a path, so two corridors may get one file.

`validate` compares the position of an `after` in `PHASE_ORDER` with that of its
action, and does not ask whether the policy contains the phase: a fault "after"
a revoke is accepted, and carried out, without any revoke.

### Bounds

* `cap_registry`: four capabilities of one object, two rights. Chains, siblings
  and a subtree under a revoked inner node all occur; capabilities of different
  objects never meet in the registry. The proofs lift the bounds.
* `hosted_root`: two courts, two corridors on one path (one between the courts,
  one from the second to itself), four capabilities, four events: enough for a
  grant to each court, a revocation or a fault, and a use after it, for a queue
  that fills up, and for a capability of one corridor on a descriptor of the
  other. The proofs lift the bounds. A bounded history ends, so the run does not
  look for deadlocks.
* `shared_ring`: capacity 2 and indices modulo 4 wrap in a few sends.
  `RingAssumption` has the capacity divide the modulus. A capacity that does
  not would jump to another slot when the index passes 2^64.
* `ring_file`: two creations are enough for a court to meet one that it did not
  begin with; two layouts have the same length, so that a file re-created under
  a court can still match, one has another, and one overflows a `usize` of four
  bits. Two courts do not see each other. Everything may end, so the run does
  not look for deadlocks.
* `packet_demo_*`: the manifest of `fixtures/packet-rx`, with sizes scaled
  down, and policies around it: other grants, orders, revokes, faults and a
  packet that does not fit. The capacity of the ring is never reached by the
  demo, which sends one packet.
* `paging`: memory of every size from none to enough, so that it ends after
  every step; kernel images and memory-map entries of lengths that end before,
  at and after a large page. Inputs satisfy what `paging.rs:194-199` checks.
* `smp`: up to four processors with three slots, so that too many occur; the
  boot processor is not always the first. `MaxTicks` bounds the timer past the
  three ticks the code waits for.
* `root_objects`: arrays of three, four and four slots, all of which fill up.
* `courtlets`: machines of one and two processors, with memory around the limit
  at which the demo completes, with kernels that fit and that do not fit a large
  page; the demo completes on every shape of machine, with two processors too.
  `RoomAssumption` has room for the three courts and three capabilities there
  are.

`packet_demo_crash` and `crash_is_contained` do not look for deadlocks either:
root waiting in `accept` for a court that died is a state that stays. The
property `EveryoneStops` says that it is the only one.

### Fairness

* `CapRegistry`: weak fairness of the loop of `revoke`; a thread in it runs.
* `SharedRing`: weak fairness of `recv` and of the stores becoming visible. The
  consumer polls; stores reach the other processor at some time. None for the
  producer, which may be killed. `BoundedFifo` has weak fairness of `Recv` only.
* `PacketDemo`: weak fairness of each process and of each time-out. The
  operating system schedules runnable processes, and a socket with a read
  time-out returns. None for kills.
* `Smp`: weak fairness of each processor that is up, of the timer, of taking an
  interrupt that is pending where interrupts are enabled, and of the rest of the
  exception handler, which waits for nothing. None for exceptions.
* `HostedRoot`, `RingFile`, `Paging`, `RootObjects`, `Courtlets`: none; no liveness is
  claimed for them.

### Conditions in the properties

`TraceFollowsPhases` holds for policies with at most one revoke and one
`peer_down`: with two, the second revoke comes after the first refused send, and
the app is told of a second peer after it has said that it is done. `RunsThrough` is for
`Runnable` policies with one receiver: with two, the order of a hash map
decides whom root listens to. `BootSucceeds` is for machines that are fast
enough and whose processors come up. `PacketArrives` matters because
`courtlet.rs:164` compares the low byte of the status only.

## 3. Proofs

`CapabilityProofs` on `CapRegistry`, for every `MaxCap`, set of objects and set of rights
(`CapsAssumption`):

* `RegistryInvariant` (`RegistryInv`), and from it `TypeCorrect`,
  `RevocationIsClosed` (`RevocationClosed`), `AuthorityIsAttenuated`
  (`AuthorityFromParent`) and `RevocationIsForever` (`RevokedForever`), which the
  run `cap_registry` checks on its instance.
* `RegistryImplementsTree`: the refinement that the run checks as
  `ImplementsTree`. `CapTree`'s specification is safety only, so no fairness is
  involved.

`RevocationClosed` speaks of the moments between calls and is not inductive. The
invariant is `RegistryInv`: types; `TreeConsistent` (parents and lists of
children agree, and a parent is older than its child); `PendingCoversLive` (a
live child of a revoked parent is on the worklist); `Attenuated`. An iteration
of the loop revokes one capability and moves the obligation for its children to
the worklist (`LoopEffect`, from `PopThenPush` about the sequence). With the
worklist empty `PendingCoversLive` is `RevocationClosed`. For the refinement,
`DerivedFrom` is defined as the least closed set, so that its properties
(`DerivedIsClosed`, `DerivedIsLeast`) follow without recursion; an iteration of
the loop leaves the mapped table as it is.

`CapabilityProofs` on `RootObjects`, for arrays of any size with at least as many bindings as
courts (the assumption on table sizes in `RootTables`, true of the constants of
`object.rs`): `TablesTypeCorrect`, `SpawnAllOrNothing`, `RevokedStaysEmpty`. The
invariant `RootInv` adds that the number of a capability is that of its slot and
that revoked slots are empty; without it a number could be handed out twice.

`HostedRootProofs`, for any number of courts, corridors, capabilities and events
and any sets of rights (`CapsAssumption`, `HostedAssumption`):
`HostedInvariant` (`HostedInv`), and from it `UseIsAuthorized`
(`UseWasAuthorized`), `CspacesStayDisjoint` (`CspacesDisjoint`),
`DamageStaysContained` (`DamageIsContained`) and `HostedTypes`. That a use was
authorized is about the past, what `send` looks at is the present: `HostedInv`
ties them together. `TwoLevels` says that everything is a root capability or
delegated from one, so that revocation reaches one level (`DerivedTwoLevels`
computes `CapTree`'s derived set); `GrantsRecorded` that whatever is in a CSpace
was put there by a grant in the trace; `DamageIsContained` that what is not
revoked now was never revoked. Appending an event leaves the audit of the
earlier ones alone (`OneMoreEvent`).

`CorridorsAreFifo` (`CorridorIsFifo`) uses `HostedInv` and is inductive with it.
The property speaks of the sets of payloads sent and received and of the order
of their events, not of filtered sequences, so that a step adds one element to
one set (`TransferAdded`) and the proof needs no induction over the trace.

`SharedRingProofs`, for every capacity that divides the modulus, every slot size
and every set of payloads (`RingAssumption`): `RingInvariant` (`RingInv`),
`NothingOverwritten` (`NoOverwrite`), and `RingIsFifo`, the refinement of
`ImplementsFifo` without its fairness. `RingInv` says where the indices are
relative to each other, in wrapping arithmetic (`Window`); which index stores
are on their way, in which order (`IndexStores`); that the stores to a slot are
on their way only while the slot is the producer's (`FieldStores`); and that the
slots the consumer may read hold the queue (`SlotsHoldQueue`). It is the
argument that one `Release` and one `Acquire` per side are enough.

`RingFileProofs`, for every header and length size, every set of layouts and any
number of courts and creations (`FileAssumption`): `FileInvariant` (`FileInv`),
`MappingAlwaysFits` (`MappingFits`) and `OpenSucceedsWithoutRace`
(`TurnedAwayOnlyInRace`). `FileInv` says what the file holds of the creation
under way, and what a court in `open` may have seen of it; the arithmetic is in
`Torn` (a layout with a zero in it never has the length of the file) and
`SlotsInFile`.

`SmpProofs`, for any lists of processors and any number of slots
(`SmpAssumption`): `BringUpInvariant` (`BringUp`), and from it
`AlwaysReadyForInterrupts`, `NobodyEverHangs`, `DemoAfterAllAnswered` and
`DemoIsUndisturbed` for the properties of the run `smp`. `BringUp` follows the
boot processor and each other processor through their stages and says what they
have loaded by then; the counters are cardinalities of sets of processors
(`Counted`), which is what makes the comparison of a counter with a number mean
that everybody has answered.

`PagingProofs` on `Paging`, for tables with any even number of entries, pages and
stacks of any size (`PagingAssumption`), every memory map (`MachineAssumption`)
and all images (`ImageAssumption`): `Bringup` (the inductive invariant
`PagingInv`), and from it `Types` (`TypeOK`), `Mapped_as_asked`
(`MappedAsAsked`), `Reachable` (`AllocatedReachable`), `OnlyRing`
(`CourtletsShareOnlyRing`) and `Overlaps` (`CollisionsAreOverlaps`). The
assumptions on a machine are that the boot loader puts the kernel and the
direct map of all memory into the upper half; on an image, that a segment which
begins in the lower half ends there, which `AddressSpace::map` does not check.

That a map changes the translation of one page and of no other is a fact about
the shape of the tables. `Trees` says that every table has one level and one
place in the address space, that of a space of its own or, for the kernel's
tables in the upper half, that of all spaces (`Sound`: two functions, `level` and
`key`, that the invariant only says exist), and that no table of the lowest
level is empty, so that a large page finds no table in its way unless something
is mapped there. `PagingSteps` shows what `ensure_table`, `map_4k` and `map_2m`
do to such tables and to the walk of every address in every space. The rest of
`PagingInv` is bookkeeping: `Mapping` (the walk finds what was asked, and no
more), `Shared` and `High` (the kernel's mappings are in the upper half of every
space), `Owned` (frames in the lower half of a space are the ring, or were
allocated after this space and before the next), `InMemory` and `Direct` (the
region is usable memory, and usable memory is in the direct map once `build` has
passed its entry), and `Control`.

That a courtlet's image is alone to blame for a collision needs more than what
is mapped: where it came from. `Placement` says that what a courtlet's space has
in the lower half is of the segments `load` has passed, of the segment being
mapped as far as it is, and of the layout `spawn` maps after them (`Placed`), that
ranges of the layout are queued in ascending order, and that an entry is in the
lower half once its courtlet is spawned (`Entered`).

`CourtletsProofs` on `Courtlets`, for these constants and every capacity of the ring
and tables with room for three courts and three capabilities
(`CapacityAssumption`, `RoomAssumption`): `NeverFails` (`DemoNeverFails`), `Arrives`
(`PacketArrives`) and `NothingSent` (`NothingSentAfterRevoke`). The invariant
`DemoInv` adds to `PagingInv` that each courtlet has its boot page and the ring
where `court-abi` puts them, or will when the queue is mapped (`Booting`), what
these frames hold at each stage of `run_demo` (`Holding`), and that the
capability of the app has rights and can be revoked until it is (`Authority`).
With `Mapping` this tells what an image reads and writes (`Seeing`). That the
tables have room is a count of their slots from `bootstrap` on
(`RoomToRegister`), and that the entries are in the lower half is `Placement`
(`EntriesLow`).

Only model-checked: everything under fairness (`RevokeReturns`,
`RunsThrough`, `EveryoneStops`, `BootEnds`, `BootSucceeds`, the liveness part of
`ImplementsFifo`), which is out of the prover's reach; and the safety properties of `PacketDemo`,
whose runs enumerate the policies around the shipped one. Every other property
of a passing run is proved.

## 4. Not modelled

* Failures of file I/O, JSON parsing, command lines. `munmap` in `drop`, after
  which a ring is not used. A ring file of another program: the files are those
  of a root.
* What a court does to a ring that was created again under it: its indices start
  over. `RingFile` follows `open` only.
* Write time-outs of the control sockets: messages are far smaller than a
  socket buffer.
* Five-level paging: the kernel asks the boot loader for four levels at least
  and at most. Copying of segment bytes and the checks of the ELF header: the
  images are embedded at build time. `AddressSpace::map` compares only the
  start of a range with the lower half; no image gets near it.
* Port I/O and the interrupt stubs; weak memory in `Smp` (the shared words are
  atomics with release and acquire order).
* The command-line front ends beyond their exit codes, `build.rs`, and the
  layout of the boot loader's structures: there is no state to model.

## 5. Plan

What is left, in this order:

1. `PacketDemo` with the ring of `SharedRing` in place of the queue, and setups
   with several net courts.
2. Delayed stores for the words that processors share in `Smp`.

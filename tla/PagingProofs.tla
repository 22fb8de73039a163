---------------------------- MODULE PagingProofs ----------------------------
(***************************************************************************)
(* Proofs about memory bring-up, for tables of any size, every memory map  *)
(* and all court images.                                                   *)
(***************************************************************************)
EXTENDS PagingSteps

-----------------------------------------------------------------------------
\* The inductive invariant.

\* Where the ranges to be mapped lie: the kernel's in the upper half, those
\* of a courtlet in the lower.
Within(r, n) ==
  /\ r \in [virt : Nat, phys : Nat, len : Nat \ {0}]
  /\ n = 1 => Half <= r.virt /\ r.virt + r.len <= Top
  /\ n # 1 => r.virt + r.len <= Half

ErrorOK ==
  error \in {"", "region", "memory", "collision", "conflict", "half", "entry"}

\* How far the program has come, and what it has made by then.
Control ==
  /\ machine \in Machines /\ images \in Images /\ ErrorOK
  /\ pc \in {"memmap", "build", "entries", "ring", "clone", "load", "demo"}
  /\ spaces \in Seq(Nat) /\ asked \in Seq(SUBSET (Pages \X Nat)) /\ Len(asked) = Len(spaces)
  /\ pc \in {"memmap", "build"} => Len(spaces) = 0 /\ ring = 0 /\ item = 1
  /\ pc \in {"entries", "ring"} => Len(spaces) = 1
  /\ pc = "clone" => Len(spaces) \in 1 .. 2
  /\ pc = "load" => Len(spaces) \in 2 .. 3
  /\ pc = "demo" => Len(spaces) = 3
  /\ item \in Nat \ {0} /\ ring \in Nat
  /\ queue \in Seq([virt : Nat, phys : Nat, len : Nat \ {0}])
  /\ \A k \in DOMAIN queue : Within(queue[k], Len(spaces))
  /\ pc # "entries" /\ Len(spaces) <= 1 => queue = <<>>

\* The tables form trees and come from the allocator.  No table of the
\* lowest level is empty, unless a map that made one has failed.
Fine == error = ""
Trees ==
  IF pc = "memmap" THEN tables = [f \in {} |-> EmptyTable] /\ bump = [start |-> 0, cursor |-> 0, end |-> 0]
  ELSE \E level, key : Sound(tables, bump, spaces, level, key) /\ (Fine => Filled(tables, level))

\* The unit translates what was asked for.
Mapped(ts, s, pairs) ==
  /\ \A p \in pairs : Walk(ts, s, p[1]) = p[2]
  /\ \A va \in Pages : Walk(ts, s, va) # -1 => <<va, Walk(ts, s, va)>> \in pairs

Mapping == \A i \in DOMAIN spaces : Mapped(tables, spaces[i], asked[i])

\* The kernel's mappings are in the upper half and in every space.
Shared == \A i \in DOMAIN spaces : asked[1] \subseteq asked[i]
High == Len(spaces) > 0 => \A p \in asked[1] : p[1] >= Half

\* A frame in the lower half of space i: the ring, or a page that is no table
\* and was allocated after the space and before the next.
Own(i, f) ==
  \/ f = ring
  \/ /\ f \notin DOMAIN tables /\ spaces[i] < f
     /\ f < IF i = Len(spaces) THEN bump.cursor \div PAGE ELSE spaces[i + 1]

Owned ==
  /\ ring \notin DOMAIN tables /\ ring \in {0} \cup Frames(bump.start, bump.cursor)
  /\ \A i \in DOMAIN spaces : i > 1 => \A p \in asked[i] : p[1] < Half => Own(i, p[2])
  /\ Len(spaces) > 1 => \A k \in DOMAIN queue :
       \A f \in queue[k].phys .. queue[k].phys + queue[k].len - 1 : Own(Len(spaces), f)

\* The region is in usable memory.
Usable(k) == machine.memmap[k].kind = "usable"
WholePages(k) == FirstPage(machine.memmap[k]) .. EndPage(machine.memmap[k]) - 1

InMemory ==
  pc # "memmap" => \E k \in DOMAIN machine.memmap :
    Usable(k) /\ Frames(bump.start, bump.end) \subseteq WholePages(k)

\* Usable memory the loop of build has passed is in the direct map, or will
\* be when the queue is mapped.
Queued(f) ==
  \E k \in DOMAIN queue :
    /\ f \in queue[k].phys .. queue[k].phys + queue[k].len - 1
    /\ queue[k].virt = machine.hhdm + queue[k].phys

Direct ==
  Len(spaces) > 0 =>
    \A k \in DOMAIN machine.memmap : Usable(k) /\ (pc = "entries" => k < item) =>
      \A f \in WholePages(k) :
        <<machine.hhdm + f, f>> \in asked[1] \/ (pc = "entries" /\ Queued(f))

\* What map_range refuses is mapped in part.
Overlapping ==
  LET r == Head(queue)
      n == IF IsLarge(r) THEN HUGE ELSE 1
  IN  error \in {"collision", "conflict"} =>
        \E p \in asked[Len(asked)] : p[1] \in r.virt .. r.virt + n - 1

PagingInv ==
  /\ Control /\ Trees /\ Mapping /\ Shared /\ High /\ Owned /\ InMemory /\ Direct
  /\ Overlapping

-----------------------------------------------------------------------------
\* Steps that leave the tables alone.

\* The tables stay sound while the allocator hands out pages.
LEMMA Moved ==
  ASSUME NEW ts, NEW b, NEW sp, NEW level, NEW key, Sound(ts, b, sp, level, key),
         NEW c, BumpOK(c), c.start = b.start, b.cursor <= c.cursor
  PROVE  Sound(ts, c, sp, level, key) /\ Frames(b.start, b.cursor) \subseteq Frames(c.start, c.cursor)
<1>1. PICK x \in Nat, y \in Nat, z \in Nat : x = b.start /\ y = b.cursor /\ z = c.cursor
  BY Zenon DEF Sound, BumpOK
<1>2. y \div PAGE \in Nat /\ z \div PAGE \in Nat /\ y \div PAGE <= z \div PAGE
  <2>1. y <= z
    BY <1>1, Zenon
  <2> QED
    BY <2>1, PagingAssumption, SMT
<1>3. x \div PAGE \in Nat
  BY PagingAssumption, SMT
<1>4. Frames(x, y) \subseteq Frames(x, z)
  BY <1>2, <1>3, SMT DEF Frames
<1> QED
  BY <1>1, <1>4, Zenon DEF Sound

\* A step that fails stops the machine and changes nothing else.
LEMMA Failing ==
  ASSUME PagingInv, NEW why \in {"region", "memory", "half", "entry"}, Fail(why)
  PROVE  PagingInv'
<1> USE DEF Fail
<1>1. Control'
  BY Zenon DEF PagingInv, Control, ErrorOK, Within
<1>2. Trees'
  <2>1. ~Fine'
    BY Zenon DEF Fine
  <2> QED
    BY <2>1, Zenon DEF PagingInv, Trees
<1>3. Mapping' /\ Shared' /\ High'
  BY Zenon DEF PagingInv, Mapping, Mapped, Shared, High
<1>4. Owned'
  BY Zenon DEF PagingInv, Owned, Own
<1>5. InMemory' /\ Direct'
  BY Zenon DEF PagingInv, InMemory, Direct, Usable, WholePages, Queued
<1>6. Overlapping'
  BY Zenon DEF Overlapping
<1> QED
  BY <1>1, <1>2, <1>3, <1>4, <1>5, <1>6, Zenon DEF PagingInv

\* The region from_memmap chooses, with the scratch page taken from it, lies
\* in the whole pages of its memory-map entry and off page zero.
LEMMA RegionPages ==
  ASSUME NEW e \in [kind : STRING, base : Nat, length : Nat], NEW r, r = Region(e),
         r.end - r.start >= MIN_REGION, NEW b,
         b = alloc_pages([start |-> r.start, cursor |-> r.start, end |-> r.end], 1)
  PROVE  BumpOK(b) /\ Frames(b.start, b.end) \subseteq FirstPage(e) .. EndPage(e) - 1
<1>1. PICK base \in Nat, length \in Nat : base = e.base /\ length = e.length
  BY Zenon
<1>2. PICK x \in Nat : x = align_up(base) /\ x % PAGE = 0
  BY AlignUp, Zenon
<1>3. PICK s \in Nat, z \in Nat : /\ r.start = s /\ r.end = z /\ z = base + length
                                  /\ s = IF x < PAGE THEN PAGE ELSE x
  BY <1>1, <1>2, PagingAssumption, SMT DEF Region
<1>4. s >= PAGE /\ s % PAGE = 0 /\ s >= x
  BY <1>2, <1>3, PagingAssumption, SMT
<1>5. align_up(s) = s
  BY <1>4, AlignUp, Zenon
<1>6. z >= s + PAGE
  BY <1>3, PagingAssumption, SMT
<1>7. b = [start |-> s, cursor |-> s + PAGE, end |-> z]
  BY <1>3, <1>5, PagingAssumption, SMT DEF alloc_pages
<1>8. (s + PAGE) % PAGE = 0
  BY <1>4, PageOn, Zenon
<1>9. BumpOK(b)
  BY <1>4, <1>6, <1>7, <1>8, PagingAssumption, SMT DEF BumpOK
<1>10. FirstPage(e) = x \div PAGE /\ x \div PAGE <= s \div PAGE /\ x \div PAGE \in Nat
  BY <1>1, <1>2, <1>4, PagingAssumption, SMT DEF FirstPage
<1>11. EndPage(e) = z \div PAGE /\ s \div PAGE \in Nat /\ z \div PAGE \in Nat
  <2>1. EndPage(e) = ((z \div PAGE) * PAGE) \div PAGE
    BY <1>1, <1>3, Zenon DEF EndPage, align_down
  <2>2. z \div PAGE \in Nat /\ s \div PAGE \in Nat
    BY PagingAssumption, Division, Zenon
  <2>3. ((PAGE * (z \div PAGE)) + 0) \div PAGE = z \div PAGE
    BY <2>2, PagingAssumption, Quotient
  <2> QED
    BY <2>1, <2>2, <2>3, PagingAssumption, SMT
<1>12. Frames(b.start, b.end) = s \div PAGE .. (z \div PAGE) - 1
  BY <1>7 DEF Frames
<1> QED
  BY <1>9, <1>10, <1>11, <1>12, SMT

\* An entry of the memory map and its whole pages.
LEMMA MapEntry ==
  ASSUME machine \in Machines, NEW k \in DOMAIN machine.memmap
  PROVE  /\ k \in 1 .. Len(machine.memmap) /\ Len(machine.memmap) \in Nat
         /\ machine.memmap[k] \in [kind : STRING, base : Nat, length : Nat]
         /\ FirstPage(machine.memmap[k]) \in Nat /\ EndPage(machine.memmap[k]) \in Nat
<1>1. PICK mm : mm = machine.memmap
  BY Zenon
<1>2. PICK S : S = [kind : STRING, base : Nat, length : Nat] /\ mm \in Seq(S)
  BY <1>1, MachineAssumption, Zenon
<1>3. PICK e \in [kind : STRING, base : Nat, length : Nat] : e = mm[k]
  <2>1. ASSUME NEW q \in Seq(S), NEW i \in DOMAIN q
        PROVE  q[i] \in S
    OBVIOUS
  <2> QED
    BY <1>1, <1>2, <2>1, Zenon
<1>4. PICK base \in Nat, length \in Nat : base = e.base /\ length = e.length
  BY Zenon
<1>5. align_up(base) \in Nat /\ (base + length) \div PAGE \in Nat
  <2>1. base + length \in Nat
    OBVIOUS
  <2> QED
    BY <2>1, AlignUp, Division, PagingAssumption, Zenon
<1>6. (((base + length) \div PAGE) * PAGE) \div PAGE \in Nat /\ align_up(base) \div PAGE \in Nat
  BY <1>5, Division, PagingAssumption, SMT
<1>7. FirstPage(e) \in Nat /\ EndPage(e) \in Nat
  BY <1>4, <1>6, Zenon DEF FirstPage, EndPage, align_down
<1>8. k \in 1 .. Len(mm) /\ Len(mm) \in Nat
  BY <1>1, <1>2
<1> QED
  BY <1>1, <1>3, <1>7, <1>8, Zenon

\* from_memmap keeps the invariant: nothing is mapped yet, and the allocator
\* begins in usable memory.
LEMMA FirstStep ==
  ASSUME PagingInv, from_memmap
  PROVE  PagingInv'
<1>1. pc = "memmap" /\ Running /\ machine \in Machines
  BY Zenon DEF from_memmap, PagingInv, Control
<1>2. PICK best : best = Best(machine.memmap)
  BY Zenon
<1>3. PICK k : k = CHOOSE i \in best : TRUE
  BY Zenon
<1>4. PICK r : r = Region(machine.memmap[k])
  BY Zenon
<1>5. CASE Fail("region")
  BY <1>5, Failing, Zenon
<1>6. CASE best # {} /\ ~(r.end - r.start < MIN_REGION) /\ ~Fail("region")
  <2>1. /\ bump' = alloc_pages([start |-> r.start, cursor |-> r.start, end |-> r.end], 1)
        /\ pc' = "build"
        /\ UNCHANGED <<machine, images, error, tables, spaces, queue, item, ring, asked>>
    BY <1>2, <1>3, <1>4, <1>6, Zenon DEF from_memmap
  <2>2. k \in best
    BY <1>3, <1>6, Zenon
  <2>3. k \in DOMAIN machine.memmap /\ Usable(k)
    BY <1>2, <2>2, Zenon DEF Best, Usable
  <2>4. machine.memmap[k] \in [kind : STRING, base : Nat, length : Nat]
    BY <1>1, <2>3, MapEntry, Zenon
  <2>5. r.end - r.start >= MIN_REGION
    <3>1. r.end \in Int /\ r.start \in Int
      BY <1>4, <2>4, AlignUp, PagingAssumption, SMT DEF Region
    <3> QED
      BY <1>6, <3>1, PagingAssumption, SMT
  <2>6. BumpOK(bump') /\ Frames(bump'.start, bump'.end) \subseteq WholePages(k)
    BY <1>4, <2>1, <2>4, <2>5, RegionPages, Zenon DEF WholePages
  <2>7. tables = [f \in {} |-> EmptyTable] /\ Len(spaces) = 0 /\ spaces \in Seq(Nat) /\ queue = <<>>
    BY <1>1, Zenon DEF PagingInv, Trees, Control, Running
  <2>8. spaces = <<>>
    BY <2>7
  <2>9. Control'
    BY <1>1, <2>1, <2>7, Zenon DEF PagingInv, Control, ErrorOK, Within
  <2>10. Trees'
    <3>1. \A level, key : Sound(tables', bump', spaces', level, key) /\ Filled(tables', level)
      BY <2>1, <2>6, <2>7, <2>8 DEF Sound, Shaped, Filled
    <3> QED
      BY <2>1, <3>1, Zenon DEF Trees
  <2>11. Mapping' /\ Shared' /\ High' /\ Direct'
    BY <2>1, <2>7, <2>8 DEF Mapping, Shared, High, Direct
  <2>12. Owned'
    <3>1. ring = 0
      BY <1>1, Zenon DEF PagingInv, Control
    <3> QED
      BY <2>1, <2>7, <2>8, <3>1 DEF Owned
  <2>13. InMemory'
    BY <2>1, <2>3, <2>6, Zenon DEF InMemory, WholePages, Usable
  <2>14. Overlapping'
    BY <2>1, Zenon DEF PagingInv, Overlapping, IsLarge
  <2> QED
    BY <2>9, <2>10, <2>11, <2>12, <2>13, <2>14, Zenon DEF PagingInv
<1> QED
  BY <1>2, <1>3, <1>4, <1>5, <1>6, Zenon DEF from_memmap

\* The allocator later on.
Later(b, c) ==
  /\ BumpOK(b) /\ BumpOK(c) /\ c.start = b.start /\ c.end = b.end /\ b.cursor <= c.cursor
  /\ b.cursor \div PAGE \in Nat /\ c.cursor \div PAGE \in Nat
  /\ b.cursor \div PAGE <= c.cursor \div PAGE

\* alloc_pages hands out the pages that follow the ones handed out before.
LEMMA AllocLater ==
  ASSUME NEW b, BumpOK(b), NEW n \in Nat, Fits(b, n), NEW c, c = alloc_pages(b, n)
  PROVE  /\ Later(b, c) /\ FirstFrame(b) \in Nat \ {0}
         /\ b.cursor \div PAGE = FirstFrame(b) /\ c.cursor \div PAGE = FirstFrame(b) + n
<1>1. /\ BumpOK(c) /\ c.start = b.start /\ c.end = b.end
      /\ b.cursor \div PAGE = FirstFrame(b) /\ c.cursor \div PAGE = FirstFrame(b) + n
      /\ FirstFrame(b) \in Nat \ {0}
  BY Alloc, Zenon
<1>2. b.cursor <= c.cursor
  <2>1. PICK y \in Nat : y = b.cursor
    BY Zenon DEF BumpOK
  <2>2. align_up(y) \in Nat /\ y <= align_up(y)
    BY AlignUp, Zenon
  <2>3. c.cursor = align_up(y) + n * PAGE
    BY <2>1, Zenon DEF BumpOK, alloc_pages
  <2>4. n * PAGE \in Nat
    BY PagingAssumption
  <2> QED
    BY <2>1, <2>2, <2>3, <2>4, SMT
<1>3. FirstFrame(b) \in Nat /\ FirstFrame(b) + n \in Nat /\ FirstFrame(b) <= FirstFrame(b) + n
  BY <1>1
<1> QED
  BY <1>1, <1>2, <1>3, Zenon DEF Later

\* Tables are pages handed out, and the top tables are among them.
LEMMA Below ==
  ASSUME PagingInv, pc # "memmap"
  PROVE  /\ BumpOK(bump) /\ 0 \notin DOMAIN tables
         /\ DOMAIN tables \subseteq Frames(bump.start, bump.cursor)
         /\ bump.start \div PAGE \in Nat /\ bump.cursor \div PAGE \in Nat
         /\ \A f \in DOMAIN tables : f \in Nat /\ f < bump.cursor \div PAGE
         /\ \A i \in DOMAIN spaces : spaces[i] \in DOMAIN tables
<1>1. PICK level, key : Sound(tables, bump, spaces, level, key)
  BY Zenon DEF PagingInv, Trees
<1>2. BumpOK(bump) /\ DOMAIN tables \subseteq Frames(bump.start, bump.cursor)
  BY <1>1, Zenon DEF Sound
<1>3. 0 \notin DOMAIN tables /\ \A i \in DOMAIN spaces : spaces[i] \in DOMAIN tables
  BY <1>1, Zenon DEF Sound, Shaped
<1>4. PICK x \in Nat, y \in Nat : x = bump.start /\ y = bump.cursor
  BY <1>2, Zenon DEF BumpOK
<1>5. x \div PAGE \in Nat /\ y \div PAGE \in Nat
  BY Division, PagingAssumption, Zenon
<1>6. \A f \in Frames(x, y) : f \in Nat /\ f < y \div PAGE
  BY <1>5, SMT DEF Frames
<1> QED
  BY <1>2, <1>3, <1>4, <1>5, <1>6, Zenon

\* Handing out pages keeps what does not depend on the queue.
LEMMA Handing ==
  ASSUME PagingInv, pc # "memmap", pc' # "memmap", Later(bump, bump'), Fine,
         UNCHANGED <<machine, images, error, tables, spaces, asked>>
  PROVE  Trees' /\ Mapping' /\ Shared' /\ High' /\ InMemory' /\ Overlapping'
<1>1. Trees'
  <2>1. PICK level, key : Sound(tables, bump, spaces, level, key) /\ Filled(tables, level)
    BY Zenon DEF PagingInv, Trees
  <2>2. Sound(tables, bump', spaces, level, key)
    BY <2>1, Moved, Zenon DEF Later
  <2>3. Sound(tables', bump', spaces', level, key) /\ Filled(tables', level)
    BY <2>1, <2>2, Zenon
  <2> QED
    BY <2>3, Zenon DEF Trees
<1>2. Mapping' /\ Shared' /\ High'
  BY Zenon DEF PagingInv, Mapping, Mapped, Shared, High
<1>3. InMemory'
  BY Zenon DEF PagingInv, InMemory, Usable, WholePages, Later
<1>4. Overlapping'
  BY Zenon DEF Fine, Overlapping
<1> QED
  BY <1>1, <1>2, <1>3, <1>4, Zenon

\* A page of a space stays the space's own while pages are handed out.
LEMMA OwnLater ==
  ASSUME Later(bump, bump'), UNCHANGED <<tables, spaces, ring>>,
         NEW i \in DOMAIN spaces, NEW f \in Nat, Own(i, f)
  PROVE  Own(i, f)'
<1>1. PICK y \in Nat, z \in Nat : y = bump.cursor \div PAGE /\ z = bump'.cursor \div PAGE /\ y <= z
  BY Zenon DEF Later
<1>2. f < y => f < z
  BY <1>1
<1> QED
  BY <1>1, <1>2, Zenon DEF Own

\* Pages handed out stay handed out.
LEMMA FramesLater ==
  ASSUME NEW b, NEW c, Later(b, c)
  PROVE  Frames(b.start, b.cursor) \subseteq Frames(c.start, c.cursor)
<1>1. PICK x \in Nat, y \in Nat, z \in Nat :
        /\ x = b.start \div PAGE /\ y = b.cursor \div PAGE /\ z = c.cursor \div PAGE /\ y <= z
        /\ x = c.start \div PAGE
  <2>1. PICK s \in Nat : s = b.start /\ s = c.start
    BY Zenon DEF Later, BumpOK
  <2>2. s \div PAGE \in Nat
    BY PagingAssumption, Division, Zenon
  <2> QED
    BY <2>1, <2>2, Zenon DEF Later
<1> QED
  BY <1>1, SMT DEF Frames

\* While the kernel's space is the only one, no courtlet owns a page.
LEMMA OnlyKernel ==
  ASSUME PagingInv, pc \in {"entries", "ring"}
  PROVE  Len(spaces) = 1 /\ DOMAIN spaces = {1} /\ Len(asked) = 1 /\ spaces \in Seq(Nat)
<1>1. Len(spaces) = 1 /\ Len(asked) = 1 /\ spaces \in Seq(Nat)
  BY Zenon DEF PagingInv, Control
<1> QED
  BY <1>1

\* activate and stack::alloc_all keep the invariant: build has passed all
\* entries, so usable memory is in the direct map.
LEMMA Activating ==
  ASSUME PagingInv, activate
  PROVE  PagingInv'
<1>1. pc = "entries" /\ item > Len(machine.memmap) /\ Fine /\ queue = <<>>
  BY Zenon DEF activate, Running, Fine
<1>2. CASE Fail("memory")
  BY <1>2, Failing, Zenon
<1>3. CASE ~Fail("memory")
  <2>1. /\ Fits(bump, machine.ncpu * KSTACK_PAGES)
        /\ bump' = alloc_pages(bump, machine.ncpu * KSTACK_PAGES) /\ pc' = "ring"
        /\ UNCHANGED <<machine, images, error, tables, spaces, queue, item, ring, asked>>
    BY <1>3, Zenon DEF activate
  <2>2. machine \in Machines /\ item \in Nat
    BY Zenon DEF PagingInv, Control
  <2>3. machine.ncpu * KSTACK_PAGES \in Nat
    <3>1. machine.ncpu \in Nat
      BY <2>2, MachineAssumption, Zenon
    <3> QED
      BY <3>1, PagingAssumption, SMT
  <2>4. BumpOK(bump)
    BY <1>1, Below, Zenon
  <2>5. Later(bump, bump')
    BY <2>1, <2>3, <2>4, AllocLater, Zenon
  <2>6. Trees' /\ Mapping' /\ Shared' /\ High' /\ InMemory' /\ Overlapping'
    BY <1>1, <2>1, <2>5, Handing, Zenon
  <2>7. Len(spaces) = 1 /\ DOMAIN spaces = {1}
    BY <1>1, OnlyKernel, Zenon
  <2>8. Control'
    BY <1>1, <2>1, <2>7, Zenon DEF PagingInv, Control, ErrorOK, Within
  <2>9. Owned'
    <3>1. ring \notin DOMAIN tables /\ ring \in {0} \cup Frames(bump'.start, bump'.cursor)
      BY <2>5, FramesLater, Zenon DEF PagingInv, Owned
    <3> QED
      BY <2>1, <2>7, <3>1 DEF Owned
  <2>10. Direct'
    <3>1. ASSUME NEW k \in DOMAIN machine.memmap, Usable(k), NEW f \in WholePages(k)
          PROVE  <<machine.hhdm + f, f>> \in asked[1]
      <4>1. k < item
        BY <1>1, <2>2, <3>1, MapEntry
      <4>2. ~Queued(f)
        BY <1>1 DEF Queued
      <4>3. Len(spaces) > 0
        BY <2>7
      <4> QED
        BY <1>1, <3>1, <4>1, <4>2, <4>3, Zenon DEF PagingInv, Direct
    <3> QED
      BY <2>1, <3>1, Zenon DEF Direct, Usable, WholePages
  <2> QED
    BY <2>6, <2>8, <2>9, <2>10, Zenon DEF PagingInv
<1> QED
  BY <1>2, <1>3, Zenon

\* run_demo keeps the invariant: the ring's page is a fresh one.
LEMMA MakingRing ==
  ASSUME PagingInv, run_demo
  PROVE  PagingInv'
<1>1. pc = "ring" /\ Fine /\ queue = <<>>
  BY Zenon DEF run_demo, Running, Fine
<1>2. CASE Fail("memory")
  BY <1>2, Failing, Zenon
<1>3. CASE ~Fail("memory")
  <2>1. /\ Fits(bump, 1) /\ bump' = alloc_pages(bump, 1) /\ ring' = FirstFrame(bump)
        /\ pc' = "clone"
        /\ UNCHANGED <<machine, images, error, tables, spaces, queue, item, asked>>
    BY <1>3, Zenon DEF run_demo
  <2>2. /\ BumpOK(bump) /\ \A f \in DOMAIN tables : f \in Nat /\ f < bump.cursor \div PAGE
    BY <1>1, Below, Zenon
  <2>3. /\ Later(bump, bump') /\ FirstFrame(bump) \in Nat
        /\ bump.cursor \div PAGE = FirstFrame(bump)
    BY <2>1, <2>2, AllocLater, Zenon
  <2>4. Trees' /\ Mapping' /\ Shared' /\ High' /\ InMemory' /\ Overlapping'
    BY <1>1, <2>1, <2>3, Handing, Zenon
  <2>5. Len(spaces) = 1 /\ DOMAIN spaces = {1}
    BY <1>1, OnlyKernel, Zenon
  <2>6. Control'
    <3>1. Len(spaces) \in 1 .. 2
      BY <2>5
    <3> QED
      BY <1>1, <2>1, <2>3, <3>1, Zenon DEF PagingInv, Control, ErrorOK, Within
  <2>7. Owned'
    <3>1. FirstFrame(bump) \notin DOMAIN tables
      BY <2>2, <2>3
    <3>2. FirstFrame(bump) \in Frames(bump'.start, bump'.cursor)
      BY <2>1, <2>2, NextFrame, Zenon
    <3> QED
      BY <2>1, <2>5, <3>1, <3>2 DEF Owned
  <2>8. Direct'
    BY <1>1, <2>1, Zenon DEF PagingInv, Direct, Usable, WholePages
  <2> QED
    BY <2>4, <2>6, <2>7, <2>8, Zenon DEF PagingInv
<1> QED
  BY <1>2, <1>3, Zenon

\* What a courtlet owned it still owns after pages were handed out.
LEMMA OwnedLater ==
  ASSUME PagingInv, Later(bump, bump'), UNCHANGED <<tables, spaces, ring, asked>>
  PROVE  /\ ring' \notin DOMAIN tables' /\ ring' \in {0} \cup Frames(bump'.start, bump'.cursor)
         /\ \A i \in DOMAIN spaces : i > 1 => \A p \in asked[i] : p[1] < Half => Own(i, p[2])'
<1>1. ring' \notin DOMAIN tables' /\ ring' \in {0} \cup Frames(bump'.start, bump'.cursor)
  BY FramesLater, Zenon DEF PagingInv, Owned
<1>2. ASSUME NEW i \in DOMAIN spaces, i > 1, NEW p \in asked[i], p[1] < Half
      PROVE  Own(i, p[2])'
  <2>1. Own(i, p[2])
    BY <1>2, Zenon DEF PagingInv, Owned
  <2>2. p[2] \in Nat
    <3>1. PICK S : S = SUBSET (Pages \X Nat) /\ asked \in Seq(S) /\ Len(asked) = Len(spaces)
                   /\ spaces \in Seq(Nat)
      BY Zenon DEF PagingInv, Control
    <3>2. asked[i] \in S
      BY <1>2, <3>1
    <3>3. p \in Pages \X Nat
      BY <1>2, <3>1, <3>2, Zenon
    <3> QED
      BY <3>3, Zenon
  <2> QED
    BY <2>1, <2>2, OwnLater, Zenon
<1> QED
  BY <1>1, <1>2, Zenon

\* Pages just handed out are the last space's own.
LEMMA Fresh ==
  ASSUME PagingInv, pc # "memmap", Len(spaces) > 0, Later(bump, bump'),
         UNCHANGED <<tables, spaces>>, NEW f \in Nat,
         f >= bump.cursor \div PAGE, f < bump'.cursor \div PAGE
  PROVE  Own(Len(spaces), f)'
<1>1. /\ \A g \in DOMAIN tables : g \in Nat /\ g < bump.cursor \div PAGE
      /\ bump.cursor \div PAGE \in Nat /\ \A i \in DOMAIN spaces : spaces[i] \in DOMAIN tables
  BY Below, Zenon
<1>2. f \notin DOMAIN tables
  BY <1>1
<1>3. Len(spaces) \in DOMAIN spaces
  <2>1. spaces \in Seq(Nat)
    BY Zenon DEF PagingInv, Control
  <2> QED
    OBVIOUS
<1>4. spaces[Len(spaces)] < f
  BY <1>1, <1>3
<1> QED
  BY <1>2, <1>4, Zenon DEF Own

\* A segment of an image has a page at least, and ends in the lower half if
\* it begins there.
LEMMA Segment ==
  ASSUME images \in Images, Len(spaces) \in 2 .. 3, item \in Nat \ {0},
         item <= Len(Image.segments), NEW s, s = Image.segments[item],
         NEW pages, pages = SegmentPages(s), NEW first, first = s.vaddr \div PAGE
  PROVE  first \in Nat /\ pages \in Nat \ {0} /\ (first < Half => first + pages <= Half)
<1>1. PICK n \in 1 .. 2 : Image = images[n]
  <2>1. Len(spaces) - 1 \in 1 .. 2
    OBVIOUS
  <2> QED
    BY <2>1, Zenon DEF Image
<1>2. PICK segments, S : /\ segments = Image.segments /\ segments \in Seq(S)
                         /\ S = [vaddr : Nat, memsz : Nat \ {0}]
  BY <1>1, ImageAssumption, Zenon
<1>3. item \in DOMAIN segments /\ segments[item] \in S
  <2>1. ASSUME NEW q \in Seq(S), NEW i \in Nat \ {0}, i <= Len(q)
        PROVE  i \in DOMAIN q /\ q[i] \in S
    BY <2>1
  <2> QED
    BY <1>2, <2>1, Zenon
<1>4. PICK x \in Nat, y \in Nat \ {0} : x = s.vaddr /\ y = s.memsz
  BY <1>2, <1>3, Zenon
<1>5. first \in Nat /\ x % PAGE \in Nat
  <2>1. x \div PAGE \in Nat /\ x % PAGE \in Nat
    BY PagingAssumption, SMT
  <2> QED
    BY <1>4, <2>1, Zenon
<1>6. pages = ((x % PAGE) + y + PAGE - 1) \div PAGE
  BY <1>4, Zenon DEF SegmentPages
<1>7. pages \in Nat \ {0}
  <2>1. PICK z \in Nat : z = (x % PAGE) + y + PAGE - 1 /\ z >= PAGE
    BY <1>5, PagingAssumption
  <2>2. z \div PAGE \in Nat /\ z \div PAGE >= 1
    BY <2>1, PagingAssumption, SMT
  <2> QED
    BY <1>6, <2>1, <2>2
<1>8. first < Half => first + pages <= Half
  BY <1>1, <1>2, <1>3, ImageAssumption, Zenon
<1> QED
  BY <1>5, <1>7, <1>8, Zenon

\* image::load keeps the invariant: a segment gets pages nobody has, at
\* addresses in the lower half.
LEMMA Loading ==
  ASSUME PagingInv, load
  PROVE  PagingInv'
<1>1. pc = "load" /\ Fine /\ queue = <<>> /\ item <= Len(Image.segments)
  BY Zenon DEF load, Running, Fine
<1>2. PICK s, pages : s = Image.segments[item] /\ pages = SegmentPages(s)
  BY Zenon
<1>3. PICK first : first = s.vaddr \div PAGE
  BY Zenon
<1>4. CASE Fail("memory") \/ Fail("half")
  BY <1>4, Failing, Zenon
<1>5. CASE ~Fail("memory") /\ ~Fail("half")
  <2>1. /\ ~(first >= Half) /\ Fits(bump, pages) /\ bump' = alloc_pages(bump, pages)
        /\ queue' = <<Span(first, FirstFrame(bump), pages)>> /\ item' = item + 1
        /\ UNCHANGED <<machine, images, pc, error, tables, spaces, ring, asked>>
    BY <1>2, <1>3, <1>5, Zenon DEF load
  <2>2. images \in Images /\ Len(spaces) \in 2 .. 3 /\ item \in Nat \ {0}
    BY <1>1, Zenon DEF PagingInv, Control
  <2>3. first \in Nat /\ pages \in Nat \ {0} /\ (first < Half => first + pages <= Half)
    BY <1>1, <1>2, <1>3, <2>2, Segment, Zenon
  <2>4. BumpOK(bump)
    BY <1>1, Below, Zenon
  <2>5. PICK frame \in Nat : /\ frame = FirstFrame(bump) /\ Later(bump, bump')
                             /\ bump.cursor \div PAGE = frame
                             /\ bump'.cursor \div PAGE = frame + pages
    BY <2>1, <2>3, <2>4, AllocLater, Zenon
  <2>6. Trees' /\ Mapping' /\ Shared' /\ High' /\ InMemory' /\ Overlapping'
    BY <1>1, <2>1, <2>5, Handing, Zenon
  <2>7. PICK r : /\ r = Span(first, frame, pages) /\ queue' = <<r>>
                 /\ r \in [virt : Nat, phys : Nat, len : Nat \ {0}]
                 /\ r.virt = first /\ r.phys = frame /\ r.len = pages
    BY <2>1, <2>3, <2>5 DEF Span
  <2>8. Within(r, Len(spaces))
    <3>1. Half \in Nat
      BY PagingAssumption, SMT DEF Half
    <3>2. first + pages <= Half
      BY <2>1, <2>3, <3>1
    <3> QED
      BY <2>2, <2>7, <3>2 DEF Within
  <2>9. Control'
    <3>1. /\ queue' \in Seq([virt : Nat, phys : Nat, len : Nat \ {0}])
          /\ \A k \in DOMAIN queue' : Within(queue'[k], Len(spaces'))
      BY <2>1, <2>7, <2>8
    <3>2. item' \in Nat \ {0} /\ ~(Len(spaces) <= 1)
      <4>1. item' = item + 1
        BY <2>1, Zenon
      <4> QED
        BY <2>2, <4>1
    <3> QED
      BY <1>1, <2>1, <3>1, <3>2, Zenon DEF PagingInv, Control, ErrorOK
  <2>10. Owned'
    <3>0. Len(spaces) > 0
      BY <2>2
    <3>1. /\ ring' \notin DOMAIN tables' /\ ring' \in {0} \cup Frames(bump'.start, bump'.cursor)
          /\ \A i \in DOMAIN spaces : i > 1 => \A p \in asked[i] : p[1] < Half => Own(i, p[2])'
      BY <2>1, <2>5, OwnedLater, Zenon
    <3>2. ASSUME NEW f \in frame .. frame + pages - 1
          PROVE  Own(Len(spaces), f)'
      <4>1. f \in Nat /\ f >= frame /\ f < frame + pages
        BY <2>3, <3>2
      <4>2. f >= bump.cursor \div PAGE /\ f < bump'.cursor \div PAGE
        BY <2>5, <4>1, Zenon
      <4> QED
        BY <1>1, <2>1, <2>5, <3>0, <4>1, <4>2, Fresh, Zenon
    <3>3. \A k \in DOMAIN queue' : queue'[k] = r
      BY <2>7
    <3>4. \A k \in DOMAIN queue' : \A f \in queue'[k].phys .. queue'[k].phys + queue'[k].len - 1 :
            Own(Len(spaces), f)'
      BY <2>7, <3>2, <3>3, Zenon
    <3> QED
      BY <2>1, <3>1, <3>4, Zenon DEF Owned, Own
  <2>11. Direct'
    BY <1>1, <2>1, Zenon DEF PagingInv, Direct, Usable, WholePages
  <2> QED
    BY <2>6, <2>9, <2>10, <2>11, Zenon DEF PagingInv
<1> QED
  BY <1>4, <1>5, Zenon

\* Boot page, ring and stack of a courtlet lie in the lower half.
LEMMA Layout ==
  /\ Half \in Nat /\ BOOT_VA \in Nat /\ RING_VA \in Nat /\ STACK_VA \in Nat
  /\ BOOT_VA + 1 <= Half /\ RING_VA + 1 <= Half /\ STACK_VA + STACK_PAGES <= Half
<1>1. PICK h \in Nat : h = Radix \div 2 /\ h >= 1 /\ Radix = 2 * h
  <2>1. Radix \div 2 \in Nat /\ Radix = 2 * (Radix \div 2) /\ Radix \div 2 >= 1
    BY PagingAssumption
  <2> QED
    BY <2>1, Zenon
<1>2. PICK q \in Nat : q = Radix * Radix /\ q >= 4
  <2>1. Radix * Radix >= 2 * Radix
    BY <1>1, SMT
  <2> QED
    BY <1>1, <2>1, SMT
<1>3. PICK c \in Nat : c = Radix * q /\ c >= 4 * Radix
  BY <1>1, <1>2, SMT
<1>4. Half = h * c
  <2>1. Half = h * Radix * Radix * Radix
    BY <1>1, Zenon DEF Half
  <2>2. h * Radix * Radix * Radix = h * (Radix * (Radix * Radix))
    BY <1>1, SMT
  <2> QED
    BY <1>2, <1>3, <2>1, <2>2, Zenon
<1>5. h * c >= c /\ h * c \in Nat
  BY <1>1, <1>3, SMT
<1>6. /\ Radix \in Nat /\ Radix >= 2 /\ STACK_PAGES \in Nat /\ STACK_PAGES <= Radix
      /\ BOOT_VA = Radix /\ RING_VA = Radix + h /\ STACK_VA = 2 * Radix
  BY <1>1, PagingAssumption, SMT DEF BOOT_VA, RING_VA, STACK_VA
<1> QED
  BY <1>1, <1>3, <1>4, <1>5, <1>6, SMT

\* Where pages for two requests are left, both are met, one after the other.
LEMMA TwoRequests ==
  ASSUME NEW b, BumpOK(b), NEW n \in Nat, NEW k \in Nat, Fits(b, n + k),
         NEW c, c = alloc_pages(b, n), NEW d, d = alloc_pages(c, k), NEW y, y = FirstFrame(b)
  PROVE  /\ Later(b, d) /\ y \in Nat \ {0} /\ y = b.cursor \div PAGE
         /\ FirstFrame(c) = y + n /\ d.cursor \div PAGE = y + n + k
<1>1. PICK x \in Nat, z \in Nat : /\ x = b.cursor /\ z = b.end /\ align_up(x) \in Nat
                                  /\ x <= align_up(x)
  BY AlignUp, Zenon DEF BumpOK
<1>2. PICK u \in Nat : u = align_up(x) + n * PAGE
  BY <1>1, PagingAssumption, SMT
<1>3. u + k * PAGE <= z /\ k * PAGE \in Nat
  BY <1>1, <1>2, PagingAssumption, SMT DEF Fits
<1>4. Fits(b, n)
  BY <1>1, <1>2, <1>3 DEF Fits
<1>5. /\ Later(b, c) /\ y \in Nat \ {0} /\ b.cursor \div PAGE = y /\ c.cursor \div PAGE = y + n
  BY <1>4, AllocLater, Zenon
<1>6. c.cursor = u /\ c.end = z
  BY <1>1, <1>2, Zenon DEF alloc_pages, BumpOK
<1>7. BumpOK(c)
  BY <1>5, Zenon DEF Later
<1>8. Fits(c, k)
  <2>1. align_up(u) = u
    BY <1>6, <1>7, AlignUp, Zenon DEF BumpOK
  <2> QED
    BY <1>3, <1>6, <2>1, Zenon DEF Fits
<1>9. Later(c, d) /\ c.cursor \div PAGE = FirstFrame(c) /\ d.cursor \div PAGE = FirstFrame(c) + k
  BY <1>7, <1>8, AllocLater, Zenon
<1>10. Later(b, d)
  <2>1. PICK i \in Nat, j \in Nat, l \in Nat :
          i = b.cursor \div PAGE /\ j = c.cursor \div PAGE /\ l = d.cursor \div PAGE /\ i <= j /\ j <= l
    BY <1>5, <1>9, Zenon DEF Later
  <2>2. i <= l
    BY <2>1
  <2>3. b.cursor <= d.cursor
    BY <1>5, <1>9, SMT DEF Later, BumpOK
  <2> QED
    BY <1>5, <1>9, <2>1, <2>2, <2>3, Zenon DEF Later
<1> QED
  BY <1>5, <1>9, <1>10, Zenon

\* spawn keeps the invariant: a courtlet gets a boot page and a stack of its
\* own, and the ring.
LEMMA Spawning ==
  ASSUME PagingInv, spawn
  PROVE  PagingInv'
<1>1. pc = "load" /\ Fine /\ queue = <<>>
  BY Zenon DEF spawn, Running, Fine
<1>2. PICK boot : boot = FirstFrame(bump)
  BY Zenon
<1>3. PICK stack : stack = FirstFrame(alloc_pages(bump, 1))
  BY Zenon
<1>4. CASE Fail("memory") \/ Fail("entry")
  BY <1>4, Failing, Zenon
<1>5. CASE ~Fail("memory") /\ ~Fail("entry")
  <2>1. /\ Fits(bump, 1 + STACK_PAGES)
        /\ bump' = alloc_pages(alloc_pages(bump, 1), STACK_PAGES)
        /\ queue' = <<Span(BOOT_VA, boot, 1), Span(RING_VA, ring, 1),
                      Span(STACK_VA, stack, STACK_PAGES)>>
        /\ pc' = IF Len(spaces) = 3 THEN "demo" ELSE "clone"
        /\ UNCHANGED <<machine, images, error, tables, spaces, item, ring, asked>>
    BY <1>2, <1>3, <1>5, Zenon DEF spawn
  <2>2. Len(spaces) \in 2 .. 3 /\ ring \in Nat
    BY <1>1, Zenon DEF PagingInv, Control
  <2>3. BumpOK(bump)
    BY <1>1, Below, Zenon
  <2>4. STACK_PAGES \in Nat \ {0} /\ STACK_PAGES \in Nat /\ 1 \in Nat
    BY PagingAssumption
  <2>5. /\ Later(bump, bump') /\ boot \in Nat \ {0} /\ boot = bump.cursor \div PAGE
        /\ stack = boot + 1 /\ bump'.cursor \div PAGE = boot + 1 + STACK_PAGES
    BY <1>2, <1>3, <2>1, <2>3, <2>4, TwoRequests
  <2>6. pc' \in {"demo", "clone"} /\ (pc' = "demo" => Len(spaces) = 3) /\ (pc' = "clone" => Len(spaces) = 2)
    BY <2>1, <2>2
  <2>7. Trees' /\ Mapping' /\ Shared' /\ High' /\ InMemory' /\ Overlapping'
    <3>1. pc' # "memmap"
      BY <2>6, Zenon
    <3> QED
      BY <1>1, <2>1, <2>5, <3>1, Handing, Zenon
  <2>8. PICK R, r1, r2, r3 :
          /\ R = [virt : Nat, phys : Nat, len : Nat \ {0}]
          /\ r1 = Span(BOOT_VA, boot, 1) /\ r2 = Span(RING_VA, ring, 1)
          /\ r3 = Span(STACK_VA, stack, STACK_PAGES)
    BY Zenon
  <2>9. /\ r1 \in R /\ r1.virt = BOOT_VA /\ r1.phys = boot /\ r1.len = 1
        /\ r2 \in R /\ r2.virt = RING_VA /\ r2.phys = ring /\ r2.len = 1
        /\ r3 \in R /\ r3.virt = STACK_VA /\ r3.phys = stack /\ r3.len = STACK_PAGES
    <3>1. boot \in Nat /\ stack \in Nat
      BY <2>5
    <3> QED
      BY <2>2, <2>4, <2>8, <3>1, Layout DEF Span
  <2>10. queue' = <<r1, r2, r3>> /\ \A k \in DOMAIN queue' : queue'[k] \in {r1, r2, r3}
    <3>1. queue' = <<r1, r2, r3>>
      BY <2>1, <2>8, Zenon
    <3> QED
      BY <3>1
  <2>11. Control'
    <3>1. \A r \in {r1, r2, r3} : Within(r, Len(spaces))
      BY <2>2, <2>8, <2>9, Layout DEF Within
    <3>2. queue' \in Seq(R)
      BY <2>9, <2>10
    <3>3. ~(Len(spaces) <= 1) /\ Len(spaces) \in 1 .. 3 /\ (pc' = "clone" => Len(spaces) \in 1 .. 2)
      BY <2>2, <2>6
    <3>4. \A k \in DOMAIN queue' : Within(queue'[k], Len(spaces'))
      BY <2>1, <2>10, <3>1, Zenon
    <3> QED
      BY <2>1, <2>6, <2>8, <3>2, <3>3, <3>4, Zenon DEF PagingInv, Control, ErrorOK
  <2>12. Owned'
    <3>1. /\ ring' \notin DOMAIN tables' /\ ring' \in {0} \cup Frames(bump'.start, bump'.cursor)
          /\ \A i \in DOMAIN spaces : i > 1 => \A p \in asked[i] : p[1] < Half => Own(i, p[2])'
      BY <2>1, <2>5, OwnedLater, Zenon
    <3>2. Len(spaces) > 0
      BY <2>2
    <3>3. ASSUME NEW f \in Nat, f >= boot, f < boot + 1 + STACK_PAGES
          PROVE  Own(Len(spaces), f)'
      <4>1. f >= bump.cursor \div PAGE /\ f < bump'.cursor \div PAGE
        BY <2>5, <3>3, Zenon
      <4> QED
        BY <1>1, <2>1, <2>5, <3>2, <4>1, Fresh, Zenon
    <3>4. Own(Len(spaces), ring)'
      BY <2>1, Zenon DEF Own
    <3>5. /\ \A f \in boot .. boot + 1 - 1 : f \in Nat /\ f >= boot /\ f < boot + 1 + STACK_PAGES
          /\ \A f \in ring .. ring + 1 - 1 : f = ring
          /\ \A f \in stack .. stack + STACK_PAGES - 1 :
               f \in Nat /\ f >= boot /\ f < boot + 1 + STACK_PAGES
      <4>1. boot \in Nat /\ stack = boot + 1
        BY <2>5, Zenon
      <4> QED
        BY <2>2, <2>4, <4>1
    <3>6. \A r \in {r1, r2, r3} : \A f \in r.phys .. r.phys + r.len - 1 : Own(Len(spaces), f)'
      <4>1. \A f \in r1.phys .. r1.phys + r1.len - 1 : Own(Len(spaces), f)'
        BY <2>9, <3>3, <3>5, Zenon
      <4>2. \A f \in r2.phys .. r2.phys + r2.len - 1 : Own(Len(spaces), f)'
        BY <2>1, <2>9, <3>4, <3>5, Zenon
      <4>3. \A f \in r3.phys .. r3.phys + r3.len - 1 : Own(Len(spaces), f)'
        BY <2>9, <3>3, <3>5, Zenon
      <4> QED
        BY <4>1, <4>2, <4>3, Zenon
    <3> QED
      BY <2>1, <2>10, <3>1, <3>6, Zenon DEF Owned, Own
  <2>13. Direct'
    <3>1. pc' # "entries"
      BY <2>6, Zenon
    <3> QED
      BY <1>1, <2>1, <3>1, Zenon DEF PagingInv, Direct, Usable, WholePages
  <2> QED
    BY <2>7, <2>11, <2>12, <2>13, Zenon DEF PagingInv
<1> QED
  BY <1>4, <1>5, Zenon

-----------------------------------------------------------------------------
\* New spaces.

\* ts2 is ts with a top table more.
Topped(ts, next, table, ts2) ==
  /\ next \in Nat \ {0} /\ next \notin DOMAIN ts
  /\ DOMAIN ts2 = DOMAIN ts \cup {next} /\ ts2[next] = table
  /\ \A f \in DOMAIN ts : ts2[f] = ts[f]

\* The entries of a top table fit the tables below, for space n.
Root(ts, level, key, n, table) ==
  /\ table \in [Index -> EntrySet]
  /\ \A i \in Index : ~table[i].huge
  /\ \A i \in Index : table[i].present =>
       /\ table[i].frame \in DOMAIN ts
       /\ level[table[i].frame] = 3 /\ key[table[i].frame] = Branch(4, n, i)
  /\ \A i \in Index : n = 1 /\ 2 * i < Radix => ~table[i].present

\* With a top table that fits, the tables still form trees.
LEMMA ToppedShape ==
  ASSUME NEW ts, NEW sp \in Seq(Nat), NEW level, NEW key, Shaped(ts, sp, level, key),
         Filled(ts, level), NEW next, NEW table, NEW ts2, Topped(ts, next, table, ts2),
         NEW n, n = Len(sp) + 1, Root(ts, level, key, n, table), NEW sp2, sp2 = Append(sp, next)
  PROVE  \E l2, k2 : Shaped(ts2, sp2, l2, k2) /\ Filled(ts2, l2)
<1>1. PICK l2 : \A f \in DOMAIN ts2 : l2[f] = IF f = next THEN 4 ELSE level[f]
  <2>1. \A f \in DOMAIN ts2 : [g \in DOMAIN ts2 |-> IF g = next THEN 4 ELSE level[g]][f]
                              = IF f = next THEN 4 ELSE level[f]
    BY Zenon
  <2> QED
    BY <2>1, Zenon
<1>2. PICK k2 : \A f \in DOMAIN ts2 : k2[f] = IF f = next THEN n ELSE key[f]
  <2>1. \A f \in DOMAIN ts2 : [g \in DOMAIN ts2 |-> IF g = next THEN n ELSE key[g]][f]
                              = IF f = next THEN n ELSE key[f]
    BY Zenon
  <2> QED
    BY <2>1, Zenon
<1>3. /\ DOMAIN ts2 = DOMAIN ts \cup {next} /\ ts2[next] = table
      /\ next # 0 /\ next \notin DOMAIN ts
      /\ l2[next] = 4 /\ k2[next] = n
  BY <1>1, <1>2, Zenon DEF Topped
<1>4. \A f \in DOMAIN ts : f # next /\ ts2[f] = ts[f] /\ l2[f] = level[f] /\ k2[f] = key[f]
  BY <1>1, <1>2, <1>3, Zenon DEF Topped
<1>5. 0 \notin DOMAIN ts2
  BY <1>3, Zenon DEF Shaped
<1>6. \A f \in DOMAIN ts2 : ts2[f] \in [Index -> EntrySet] /\ l2[f] \in 1 .. 4
  <2>1. l2[next] \in 1 .. 4
    BY <1>3
  <2> QED
    BY <1>3, <1>4, <2>1, Zenon DEF Shaped, Root
<1>7. ASSUME NEW f \in DOMAIN ts, NEW i \in Index
      PROVE  Hangs(ts2, l2, k2, f, i) /\ (ts2[f][i].huge => l2[f] = 2 /\ ts2[f][i].present)
  <2>1. Hangs(ts, level, key, f, i) /\ (ts[f][i].huge => level[f] = 2 /\ ts[f][i].present)
    BY <1>7, Zenon DEF Shaped
  <2>2. ts2[f][i] = ts[f][i] /\ l2[f] = level[f] /\ k2[f] = key[f]
    BY <1>4, <1>7, Zenon
  <2>3. PICK g : g = ts[f][i].frame
    BY Zenon
  <2>4. g \in DOMAIN ts => g \in DOMAIN ts2 /\ l2[g] = level[g] /\ k2[g] = key[g]
    BY <1>3, <1>4, Zenon
  <2> QED
    BY <2>1, <2>2, <2>3, <2>4, Zenon DEF Hangs
<1>8. ASSUME NEW i \in Index
      PROVE  Hangs(ts2, l2, k2, next, i) /\ ~ts2[next][i].huge
  <2>1. 3 = 4 - 1
    OBVIOUS
  <2> QED
    BY <1>3, <1>4, <1>8, <2>1, Zenon DEF Hangs, Root
<1>9. \A f \in DOMAIN ts2, i \in Index :
        Hangs(ts2, l2, k2, f, i) /\ (ts2[f][i].huge => l2[f] = 2 /\ ts2[f][i].present)
  BY <1>3, <1>7, <1>8, Zenon
<1>10. /\ DOMAIN sp2 = DOMAIN sp \cup {n} /\ sp2[n] = next /\ n \notin DOMAIN sp
       /\ \A j \in DOMAIN sp : sp2[j] = sp[j]
  <2>1. next \in Nat
    BY Zenon DEF Topped
  <2> QED
    BY <2>1
<1>11. \A j \in DOMAIN sp2 : sp2[j] \in DOMAIN ts2 /\ l2[sp2[j]] = 4 /\ k2[sp2[j]] = j
  <2>1. ASSUME NEW j \in DOMAIN sp
        PROVE  sp2[j] \in DOMAIN ts2 /\ l2[sp2[j]] = 4 /\ k2[sp2[j]] = j
    <3>1. sp[j] \in DOMAIN ts /\ level[sp[j]] = 4 /\ key[sp[j]] = j
      BY <2>1, Zenon DEF Shaped
    <3> QED
      BY <1>3, <1>4, <1>10, <2>1, <3>1, Zenon
  <2> QED
    BY <1>3, <1>10, <2>1, Zenon
<1>12. \A i \in Index : 1 \in DOMAIN sp2 /\ 2 * i < Radix => ~ts2[sp2[1]][i].present
  <2>1. CASE n = 1
    BY <1>3, <1>10, <2>1, Zenon DEF Root
  <2>2. CASE n # 1
    <3>1. 1 \in DOMAIN sp2 => 1 \in DOMAIN sp /\ sp2[1] = sp[1]
      BY <1>10, <2>2, Zenon
    <3>2. 1 \in DOMAIN sp => sp[1] \in DOMAIN ts /\ ts2[sp[1]] = ts[sp[1]]
      BY <1>4, Zenon DEF Shaped
    <3>3. \A i \in Index : 1 \in DOMAIN sp /\ 2 * i < Radix => ~ts[sp[1]][i].present
      BY Zenon DEF Shaped
    <3> QED
      BY <3>1, <3>2, <3>3, Zenon
  <2> QED
    BY <2>1, <2>2, Zenon
<1>13. Filled(ts2, l2)
  <2>1. l2[next] # 1
    BY <1>3
  <2> QED
    BY <1>3, <1>4, <2>1, Zenon DEF Filled
<1>14. Shaped(ts2, sp2, l2, k2)
  BY <1>5, <1>6, <1>9, <1>11, <1>12, Zenon DEF Shaped
<1> QED
  BY <1>13, <1>14, Zenon

\* A walk that comes to the same table below the top goes on the same way.
LEMMA ToppedWalk ==
  ASSUME NEW ts, NEW sp, NEW level, NEW key, Shaped(ts, sp, level, key),
         NEW next, NEW table, NEW ts2, Topped(ts, next, table, ts2),
         NEW j \in DOMAIN sp, NEW s, NEW va \in Nat,
         Pdpt(ts2, s, va) = Pdpt(ts, sp[j], va)
  PROVE  Walk(ts2, s, va) = Walk(ts, sp[j], va)
<1>1. PICK p3, p2, p1 : p3 = Pdpt(ts, sp[j], va) /\ p2 = Pd(ts, sp[j], va) /\ p1 = Pt(ts, sp[j], va)
  BY Zenon
<1>2. /\ p3 # 0 => p3 \in DOMAIN ts
      /\ p2 # 0 => p2 \in DOMAIN ts
      /\ p1 # 0 => p1 \in DOMAIN ts
  BY <1>1, WalkKeys
<1>3. \A f \in DOMAIN ts : ts2[f] = ts[f]
  BY Zenon DEF Topped
<1>4. \A i : Follow(ts2, p3, i) = Follow(ts, p3, i)
  BY <1>2, <1>3, Zenon DEF Follow
<1>5. \A i : Follow(ts2, p2, i) = Follow(ts, p2, i)
  BY <1>2, <1>3, Zenon DEF Follow
<1>6. Pd(ts2, s, va) = p2
  BY <1>1, <1>4, Zenon DEF Pd
<1>7. Pt(ts2, s, va) = p1
  BY <1>1, <1>5, <1>6, Zenon DEF Pt
<1>8. Answer(ts2, p2, p1, va) = Answer(ts, p2, p1, va)
  BY <1>2, <1>3, Zenon DEF Answer
<1> QED
  BY <1>1, <1>6, <1>7, <1>8, WalkAnswer, Zenon

\* The spaces there were are not changed by a top table more.
LEMMA ToppedOld ==
  ASSUME NEW ts, NEW sp, NEW level, NEW key, Shaped(ts, sp, level, key),
         NEW next, NEW table, NEW ts2, Topped(ts, next, table, ts2),
         NEW j \in DOMAIN sp, NEW va \in Nat
  PROVE  Walk(ts2, sp[j], va) = Walk(ts, sp[j], va)
<1>1. ts2[sp[j]] = ts[sp[j]]
  BY Zenon DEF Topped, Shaped
<1>2. Pdpt(ts2, sp[j], va) = Pdpt(ts, sp[j], va)
  BY <1>1, Zenon DEF Pdpt, Follow
<1> QED
  BY <1>2, ToppedWalk

\* Nothing is mapped through an empty top table.
LEMMA EmptyTop ==
  ASSUME NEW ts, NEW next, NEW ts2, Topped(ts, next, EmptyTable, ts2), NEW va \in Nat
  PROVE  Walk(ts2, next, va) = -1
<1>1. pml4_index(va) \in Index
  BY Digits, Zenon
<1>2. Pdpt(ts2, next, va) = 0
  <2>1. ts2[next] = EmptyTable /\ ~EmptyTable[pml4_index(va)].present
    BY <1>1, Empty, Zenon DEF Topped
  <2> QED
    BY <2>1, Zenon DEF Pdpt, Follow
<1>3. \A i : Follow(ts2, 0, i) = 0
  BY Zenon DEF Follow
<1>4. Pd(ts2, next, va) = 0
  BY <1>2, <1>3, Zenon DEF Pd
<1>5. Pt(ts2, next, va) = 0
  BY <1>3, <1>4, Zenon DEF Pt
<1>6. Answer(ts2, 0, 0, va) = -1
  BY Zenon DEF Answer
<1> QED
  BY <1>4, <1>5, <1>6, WalkAnswer, Zenon

\* An empty table is a top table that fits.
LEMMA EmptyRoot ==
  ASSUME NEW ts, NEW level, NEW key, NEW n
  PROVE  Root(ts, level, key, n, EmptyTable)
<1>1. 0 \in Index
  BY PagingAssumption DEF Index
<1> QED
  BY <1>1, Empty, Zenon DEF Root

\* So is what clone_kernel makes: only the kernel's upper entries are present.
LEMMA CloneRoot ==
  ASSUME NEW ts, NEW sp \in Seq(Nat), NEW level, NEW key, Shaped(ts, sp, level, key),
         1 \in DOMAIN sp, NEW n, n = Len(sp) + 1, NEW table, table = Clone(ts[sp[1]])
  PROVE  /\ Root(ts, level, key, n, table)
         /\ \A i \in Index : table[i] = ts[sp[1]][i]
<1>1. PICK s : s = sp[1] /\ s \in DOMAIN ts /\ level[s] = 4 /\ key[s] = 1
  BY Zenon DEF Shaped
<1>2. ts[s] \in [Index -> EntrySet]
  BY <1>1, Zenon DEF Shaped
<1>3. table = ts[s]
  BY <1>1, <1>2, Zenon DEF Clone, Index
<1>4. n # 1
  OBVIOUS
<1>5. ASSUME NEW i \in Index
      PROVE  ~table[i].huge
  <2>1. table[i].huge => level[s] = 2
    BY <1>1, <1>3, <1>5, Zenon DEF Shaped
  <2>2. level[s] # 2
    BY <1>1
  <2> QED
    BY <2>1, <2>2, Zenon
<1>6. ASSUME NEW i \in Index, table[i].present
      PROVE  /\ table[i].frame \in DOMAIN ts
             /\ level[table[i].frame] = 3 /\ key[table[i].frame] = Branch(4, n, i)
  <2>1. /\ table[i].frame \in DOMAIN ts /\ level[table[i].frame] = 4 - 1
        /\ key[table[i].frame] = Branch(4, 1, i)
    <3>1. Hangs(ts, level, key, s, i)
      BY <1>1, <1>6, Zenon DEF Shaped
    <3>2. level[s] > 1
      BY <1>1
    <3> QED
      BY <1>1, <1>3, <1>5, <1>6, <3>1, <3>2, Zenon DEF Hangs
  <2>2. 2 * i >= Radix
    <3>1. ~(2 * i < Radix)
      BY <1>1, <1>3, <1>6, Zenon DEF Shaped
    <3> QED
      BY <1>6, <3>1, PagingAssumption DEF Index
  <2>3. Branch(4, 1, i) = Branch(4, n, i)
    BY <2>2, Zenon DEF Branch
  <2>4. 4 - 1 = 3
    OBVIOUS
  <2> QED
    BY <2>1, <2>3, <2>4, Zenon
<1> QED
  BY <1>1, <1>2, <1>3, <1>4, <1>5, <1>6, Zenon DEF Root

\* A space whose walks are those of another is mapped like it.
LEMMA MappedSame ==
  ASSUME NEW ts, NEW s, NEW pairs \in SUBSET (Pages \X Nat), Mapped(ts, s, pairs),
         NEW ts2, NEW s2, \A va \in Pages : Walk(ts2, s2, va) = Walk(ts, s, va)
  PROVE  Mapped(ts2, s2, pairs)
<1>1. \A p \in pairs : p[1] \in Pages
  BY Zenon
<1> QED
  BY <1>1, Zenon DEF Mapped

\* The pairs of a space are pages and frames.
LEMMA AskedPairs ==
  ASSUME PagingInv, NEW i \in DOMAIN spaces
  PROVE  /\ i \in DOMAIN asked /\ asked[i] \in SUBSET (Pages \X Nat)
         /\ \A p \in asked[i] : p[1] \in Pages /\ p[1] \in Nat /\ p[2] \in Nat
<1>1. PICK S : /\ S = SUBSET (Pages \X Nat) /\ asked \in Seq(S) /\ Len(asked) = Len(spaces)
               /\ spaces \in Seq(Nat)
  BY Zenon DEF PagingInv, Control
<1>2. i \in DOMAIN asked /\ asked[i] \in S
  BY <1>1
<1>3. asked[i] \in SUBSET (Pages \X Nat)
  BY <1>1, <1>2, Zenon
<1>4. \A p \in Pages \X Nat : p[1] \in Pages /\ p[2] \in Nat
  BY Zenon
<1>5. \A va \in Pages : va \in Nat
  BY PagingAssumption, TopDigit, Zenon
<1> QED
  BY <1>2, <1>3, <1>4, <1>5, Zenon

\* The sequences after NewSpace: a space and its pairs more.
OneMore(pairs, next, n) ==
  /\ spaces' \in Seq(Nat) /\ asked' \in Seq(SUBSET (Pages \X Nat))
  /\ Len(spaces') = n /\ Len(asked') = n /\ n \in Nat \ {0} /\ n \notin DOMAIN spaces
  /\ DOMAIN spaces = 1 .. n - 1 /\ DOMAIN spaces' = DOMAIN spaces \cup {n}
  /\ spaces'[n] = next /\ asked'[n] = pairs
  /\ \A i \in DOMAIN spaces : spaces'[i] = spaces[i] /\ asked'[i] = asked[i]

\* NewSpace leaves the spaces there were and their pairs.
LEMMA Appending ==
  ASSUME PagingInv, NEW pairs, pairs \in SUBSET (Pages \X Nat), asked' = Append(asked, pairs),
         NEW next, next \in Nat, spaces' = Append(spaces, next), NEW n, n = Len(spaces) + 1
  PROVE  OneMore(pairs, next, n)
<1>1. PICK S : /\ S = SUBSET (Pages \X Nat) /\ asked \in Seq(S) /\ Len(asked) = Len(spaces)
               /\ spaces \in Seq(Nat)
  BY Zenon DEF PagingInv, Control
<1>2. pairs \in S
  BY <1>1, Zenon
<1>3. /\ spaces' \in Seq(Nat) /\ Len(spaces') = n /\ n \in Nat \ {0} /\ n \notin DOMAIN spaces
      /\ DOMAIN spaces' = DOMAIN spaces \cup {n} /\ spaces'[n] = next
      /\ \A i \in DOMAIN spaces : spaces'[i] = spaces[i]
      /\ DOMAIN spaces = 1 .. n - 1
  BY <1>1, <1>2
<1>4. asked' \in Seq(S) /\ Len(asked') = n /\ asked'[n] = pairs
  BY <1>1, <1>2
<1>5. \A i \in DOMAIN spaces : asked'[i] = asked[i]
  BY <1>1, <1>2
<1> QED
  BY <1>1, <1>3, <1>4, <1>5, Zenon DEF OneMore

\* Mapping goes on to hold when a new space maps nothing, or what the
\* kernel's maps.
LEMMA Spacing ==
  ASSUME PagingInv, pc # "memmap", pc' # "memmap", Fine, Fits(bump, 1),
         NEW table, NEW pairs, NewSpace(table, pairs), UNCHANGED <<machine, images, error>>,
         \/ table = EmptyTable /\ pairs = {}
         \/ 1 \in DOMAIN spaces /\ table = Clone(tables[spaces[1]]) /\ pairs = asked[1]
  PROVE  /\ Trees' /\ Mapping' /\ InMemory' /\ Overlapping'
         /\ pairs \in SUBSET (Pages \X Nat) /\ Later(bump, bump')
         /\ Topped(tables, FirstFrame(bump), table, tables')
         /\ bump.cursor \div PAGE = FirstFrame(bump)
<1>1. PICK next, n : next = FirstFrame(bump) /\ n = Len(spaces) + 1
  BY Zenon
<1>2. PICK level, key : Sound(tables, bump, spaces, level, key) /\ Filled(tables, level)
  BY Zenon DEF PagingInv, Trees
<1>3. /\ BumpOK(bump) /\ Shaped(tables, spaces, level, key)
      /\ DOMAIN tables \subseteq Frames(bump.start, bump.cursor)
  BY <1>2, Zenon DEF Sound
<1>4. /\ tables' = WithTable(tables, next, table) /\ bump' = alloc_pages(bump, 1)
      /\ spaces' = Append(spaces, next)
  BY <1>1, Zenon DEF NewSpace
<1>5. /\ BumpOK(bump') /\ next \in Nat \ {0} /\ next \notin Frames(bump.start, bump.cursor)
      /\ next \in Frames(bump'.start, bump'.cursor)
      /\ Frames(bump.start, bump.cursor) \subseteq Frames(bump'.start, bump'.cursor)
  BY <1>1, <1>3, <1>4, NextFrame, Zenon
<1>6. Later(bump, bump') /\ bump.cursor \div PAGE = next
  BY <1>1, <1>3, <1>4, AllocLater, Zenon
<1>7. next \notin DOMAIN tables
  BY <1>3, <1>5, Zenon
<1>8. Topped(tables, next, table, tables')
  BY <1>4, <1>5, <1>7, Zenon DEF Topped, WithTable
<1>9. spaces \in Seq(Nat)
  BY Zenon DEF PagingInv, Control
<1>10. pairs \in SUBSET (Pages \X Nat)
  BY AskedPairs, Zenon
<1>11. Root(tables, level, key, n, table)
  BY <1>1, <1>3, <1>9, EmptyRoot, CloneRoot, Zenon
<1>12. Trees'
  <2>1. PICK l2, k2 : Shaped(tables', spaces', l2, k2) /\ Filled(tables', l2)
    BY <1>1, <1>2, <1>3, <1>4, <1>8, <1>9, <1>11, ToppedShape, Zenon
  <2>2. DOMAIN tables' \subseteq Frames(bump'.start, bump'.cursor)
    BY <1>3, <1>5, <1>8, Zenon DEF Topped
  <2>3. Sound(tables', bump', spaces', l2, k2)
    BY <1>5, <2>1, <2>2, Zenon DEF Sound
  <2> QED
    BY <2>1, <2>3, Zenon DEF Trees
<1>13. /\ DOMAIN spaces' = DOMAIN spaces \cup {n} /\ spaces'[n] = next /\ asked'[n] = pairs
       /\ \A i \in DOMAIN spaces : spaces'[i] = spaces[i] /\ asked'[i] = asked[i]
  <2>1. next \in Nat
    BY <1>5, Zenon
  <2>2. OneMore(pairs, next, n)
    BY <1>1, <1>10, <2>1, Appending, Zenon DEF NewSpace
  <2> QED
    BY <2>2, Zenon DEF OneMore
<1>14. \A va \in Pages : va \in Nat
  BY PagingAssumption, TopDigit, Zenon
<1>15. ASSUME NEW i \in DOMAIN spaces
       PROVE  Mapped(tables', spaces'[i], asked'[i])
  <2>1. Mapped(tables, spaces[i], asked[i]) /\ asked[i] \in SUBSET (Pages \X Nat)
    BY <1>15, AskedPairs, Zenon DEF PagingInv, Mapping
  <2>2. \A va \in Pages : Walk(tables', spaces[i], va) = Walk(tables, spaces[i], va)
    BY <1>3, <1>8, <1>14, ToppedOld
  <2>3. Mapped(tables', spaces[i], asked[i])
    BY <2>1, <2>2, MappedSame, Zenon
  <2> QED
    BY <1>13, <1>15, <2>3, Zenon
<1>16. Mapped(tables', next, pairs)
  <2>1. CASE table = EmptyTable /\ pairs = {}
    <3>1. \A va \in Pages : Walk(tables', next, va) = -1
      BY <1>8, <1>14, <2>1, EmptyTop, Zenon
    <3> QED
      BY <2>1, <3>1, Zenon DEF Mapped
  <2>2. CASE 1 \in DOMAIN spaces /\ table = Clone(tables[spaces[1]]) /\ pairs = asked[1]
    <3>1. \A i \in Index : table[i] = tables[spaces[1]][i]
      BY <1>3, <1>9, <2>2, CloneRoot
    <3>2. tables'[next] = table /\ next # 0 /\ spaces[1] # 0
      <4>1. spaces[1] \in DOMAIN tables /\ 0 \notin DOMAIN tables
        BY <1>3, <2>2, Zenon DEF Shaped
      <4>2. tables'[next] = table /\ next # 0
        BY <1>5, <1>8, Zenon DEF Topped
      <4> QED
        BY <4>1, <4>2, Zenon
    <3>3. \A i \in Index : Follow(tables', next, i) = Follow(tables, spaces[1], i)
      BY <3>1, <3>2, Zenon DEF Follow
    <3>4. ASSUME NEW va \in Pages
          PROVE  Walk(tables', next, va) = Walk(tables, spaces[1], va)
      <4>1. va \in Nat
        BY <1>14, <3>4, Zenon
      <4>2. pml4_index(va) \in Index
        BY <4>1, Digits, Zenon
      <4>3. Pdpt(tables', next, va) = Pdpt(tables, spaces[1], va)
        BY <3>3, <4>2, Zenon DEF Pdpt
      <4> QED
        BY <1>3, <1>8, <2>2, <4>1, <4>3, ToppedWalk
    <3>5. Mapped(tables, spaces[1], asked[1]) /\ asked[1] \in SUBSET (Pages \X Nat)
      BY <2>2, AskedPairs, Zenon DEF PagingInv, Mapping
    <3> QED
      BY <2>2, <3>4, <3>5, MappedSame, Zenon
  <2> QED
    BY <2>1, <2>2, Zenon
<1>17. Mapping'
  BY <1>13, <1>15, <1>16, Zenon DEF Mapping
<1>18. InMemory'
  BY <1>6, Zenon DEF PagingInv, InMemory, Usable, WholePages, Later
<1>19. Overlapping'
  BY Zenon DEF Fine, Overlapping
<1> QED
  BY <1>1, <1>6, <1>8, <1>10, <1>12, <1>17, <1>18, <1>19, Zenon

\* build's first step keeps the invariant: the kernel's space is empty and its
\* image is to be mapped, in the upper half.
LEMMA Building ==
  ASSUME PagingInv, build
  PROVE  PagingInv'
<1>1. pc = "build" /\ Fine /\ queue = <<>>
  BY Zenon DEF build, Running, Fine
<1>2. CASE Fail("memory")
  BY <1>2, Failing, Zenon
<1>3. CASE ~Fail("memory")
  <2>1. PICK r : r = Span(machine.kernel.virt + machine.kernel.start,
                          machine.kernel.phys + machine.kernel.start, machine.kernel.len)
    BY Zenon
  <2>2. /\ Fits(bump, 1) /\ NewSpace(EmptyTable, {}) /\ queue' = <<r>> /\ pc' = "entries"
        /\ UNCHANGED <<machine, images, error, item, ring>>
    BY <1>3, <2>1, Zenon DEF build
  <2>3. /\ Trees' /\ Mapping' /\ InMemory' /\ Overlapping' /\ Later(bump, bump')
        /\ Topped(tables, FirstFrame(bump), EmptyTable, tables')
    BY <1>1, <2>2, Spacing, Zenon
  <2>4. Len(spaces) = 0 /\ ring = 0 /\ machine \in Machines /\ item \in Nat \ {0}
    BY <1>1, Zenon DEF PagingInv, Control
  <2>5. /\ spaces' \in Seq(Nat) /\ asked' \in Seq(SUBSET (Pages \X Nat))
        /\ Len(spaces') = 1 /\ Len(asked') = 1 /\ DOMAIN spaces' = {1} /\ asked'[1] = {}
    <3>1. FirstFrame(bump) \in Nat /\ 1 = Len(spaces) + 1 /\ {} \in SUBSET (Pages \X Nat)
      BY <2>3, <2>4 DEF Topped
    <3>2. DOMAIN spaces = {}
      <4>1. spaces \in Seq(Nat)
        BY Zenon DEF PagingInv, Control
      <4> QED
        BY <2>4, <4>1
    <3>3. /\ spaces' \in Seq(Nat) /\ asked' \in Seq(SUBSET (Pages \X Nat))
          /\ Len(spaces') = 1 /\ Len(asked') = 1
          /\ DOMAIN spaces' = DOMAIN spaces \cup {1} /\ asked'[1] = {}
      BY <2>2, <3>1, Appending, Zenon DEF NewSpace, OneMore
    <3> QED
      BY <3>2, <3>3, Zenon
  <2>6. r \in [virt : Nat, phys : Nat, len : Nat \ {0}] /\ Within(r, 1)
    <3>1. /\ machine.kernel \in [virt : Nat, phys : Nat, start : Nat, len : Nat \ {0}]
          /\ machine.kernel.virt >= Half
          /\ machine.kernel.virt + machine.kernel.start + machine.kernel.len <= Top
      BY <2>4, MachineAssumption, Zenon
    <3>2. PICK a \in Nat, b \in Nat, c \in Nat \ {0}, d \in Nat :
            /\ a = machine.kernel.virt /\ b = machine.kernel.phys
            /\ c = machine.kernel.len /\ d = machine.kernel.start
      BY <3>1, Zenon
    <3>3. r = [virt |-> a + d, phys |-> b + d, len |-> c]
      BY <2>1, <3>2, Zenon DEF Span
    <3>4. a >= Half /\ a + d + c <= Top
      BY <3>1, <3>2, Zenon
    <3>5. Half <= a + d /\ a + d \in Nat /\ b + d \in Nat
      BY <3>4, Layout
    <3> QED
      BY <3>3, <3>4, <3>5, Zenon DEF Within
  <2>7. Control'
    <3>1. /\ queue' \in Seq([virt : Nat, phys : Nat, len : Nat \ {0}])
          /\ \A k \in DOMAIN queue' : queue'[k] = r
      BY <2>2, <2>6
    <3> QED
      BY <2>2, <2>5, <2>6, <3>1, Zenon DEF PagingInv, Control, ErrorOK
  <2>8. Shared' /\ High'
    BY <2>5, Zenon DEF Shared, High
  <2>9. Owned'
    <3>1. 0 \notin DOMAIN tables'
      BY <1>1, <2>3, Below, Zenon DEF Topped
    <3> QED
      BY <2>2, <2>4, <2>5 DEF Owned
  <2>10. Direct'
    <3>1. item = 1
      BY <1>1, Zenon DEF PagingInv, Control
    <3>2. \A k \in DOMAIN machine.memmap : ~(k < item)
      BY <2>4, <3>1, MapEntry
    <3> QED
      BY <2>2, <3>2, Zenon DEF Direct
  <2> QED
    BY <2>3, <2>7, <2>8, <2>9, <2>10, Zenon DEF PagingInv
<1> QED
  BY <1>2, <1>3, Zenon

\* clone_kernel keeps the invariant: the new space maps what the kernel's
\* does, which is in the upper half, and the pages of the space before it end
\* where it begins.
LEMMA Cloning ==
  ASSUME PagingInv, clone_kernel
  PROVE  PagingInv'
<1>1. pc = "clone" /\ Fine /\ queue = <<>>
  BY Zenon DEF clone_kernel, Running, Fine
<1>2. CASE Fail("memory")
  BY <1>2, Failing, Zenon
<1>3. CASE ~Fail("memory")
  <2>1. /\ Fits(bump, 1) /\ NewSpace(Clone(tables[spaces[1]]), asked[1]) /\ item' = 1
        /\ pc' = "load" /\ UNCHANGED <<machine, images, error, queue, ring>>
    BY <1>3, Zenon DEF clone_kernel
  <2>2. Len(spaces) \in 1 .. 2 /\ Len(spaces) > 0
    <3>1. Len(spaces) \in 1 .. 2
      BY <1>1, Zenon DEF PagingInv, Control
    <3> QED
      BY <3>1
  <2>3. 1 \in DOMAIN spaces
    <3>1. spaces \in Seq(Nat)
      BY Zenon DEF PagingInv, Control
    <3> QED
      BY <2>2, <3>1
  <2>4. PICK next : next = FirstFrame(bump)
    BY Zenon
  <2>5. /\ Trees' /\ Mapping' /\ InMemory' /\ Overlapping' /\ Later(bump, bump')
        /\ asked[1] \in SUBSET (Pages \X Nat) /\ bump.cursor \div PAGE = next
        /\ Topped(tables, next, Clone(tables[spaces[1]]), tables')
    BY <1>1, <2>1, <2>3, <2>4, Spacing
  <2>6. next \in Nat \ {0} /\ next \notin DOMAIN tables /\ DOMAIN tables' = DOMAIN tables \cup {next}
    BY <2>5, Zenon DEF Topped
  <2>7. PICK n : n = Len(spaces) + 1
    BY Zenon
  <2>8. /\ spaces' \in Seq(Nat) /\ asked' \in Seq(SUBSET (Pages \X Nat))
        /\ Len(spaces') = n /\ Len(asked') = n /\ n \in Nat \ {0} /\ n \notin DOMAIN spaces
        /\ DOMAIN spaces = 1 .. n - 1 /\ DOMAIN spaces' = DOMAIN spaces \cup {n}
        /\ spaces'[n] = next /\ asked'[n] = asked[1]
        /\ \A i \in DOMAIN spaces : spaces'[i] = spaces[i] /\ asked'[i] = asked[i]
    <3>1. next \in Nat
      BY <2>6, Zenon
    <3>2. spaces' = Append(spaces, next) /\ asked' = Append(asked, asked[1])
      BY <2>1, <2>4, Zenon DEF NewSpace
    <3>3. asked[1] \in SUBSET (Pages \X Nat)
      BY <2>5, Zenon
    <3>4. OneMore(asked[1], next, n)
      BY <2>7, <3>1, <3>2, <3>3, Appending, Zenon
    <3> QED
      BY <3>4, Zenon DEF OneMore
  <2>9. n \in 2 .. 3 /\ n > 1 /\ n > 0
    <3>1. \A m \in 1 .. 2 : m + 1 \in 2 .. 3 /\ m + 1 > 1 /\ m + 1 > 0
      OBVIOUS
    <3> QED
      BY <2>2, <2>7, <3>1, Zenon
  <2>10. Control'
    <3>1. queue' = <<>> /\ queue' \in Seq([virt : Nat, phys : Nat, len : Nat \ {0}])
      BY <1>1, <2>1
    <3>2. \A k \in DOMAIN queue' : Within(queue'[k], Len(spaces'))
      BY <3>1
    <3>3. item' \in Nat \ {0}
      BY <2>1
    <3> QED
      BY <2>1, <2>8, <2>9, <3>1, <3>2, <3>3, Zenon DEF PagingInv, Control, ErrorOK
  <2>11. Shared'
    BY <2>3, <2>8, Zenon DEF PagingInv, Shared
  <2>12. \A p \in asked[1] : p[1] >= Half
    BY <2>2, Zenon DEF PagingInv, High
  <2>13. High'
    BY <2>3, <2>8, <2>12, Zenon DEF High
  <2>14. Owned'
    <3>1. ring' \notin DOMAIN tables' /\ ring' \in {0} \cup Frames(bump'.start, bump'.cursor)
      <4>1. next \notin Frames(bump.start, bump.cursor)
        BY <1>1, <2>1, <2>4, Below, NextFrame, Zenon
      <4>2. ring \notin DOMAIN tables /\ ring \in {0} \cup Frames(bump.start, bump.cursor)
        BY Zenon DEF PagingInv, Owned
      <4>3. ring # next
        BY <2>6, <4>1, <4>2, Zenon
      <4> QED
        BY <2>1, <2>5, <2>6, <4>2, <4>3, FramesLater, Zenon
    <3>2. ASSUME NEW i \in DOMAIN spaces, i > 1, NEW p \in asked[i], p[1] < Half
          PROVE  Own(i, p[2])'
      <4>1. PICK f \in Nat : f = p[2]
        BY <3>2, AskedPairs, Zenon
      <4>2. Own(i, f)
        BY <3>2, <4>1, Zenon DEF PagingInv, Owned
      <4>3. i = Len(spaces) /\ i + 1 = n /\ i # n
        <5>1. \A m \in 1 .. 2 : \A k \in 1 .. (m + 1) - 1 : k > 1 => k = m /\ k # m + 1
          OBVIOUS
        <5> QED
          BY <2>2, <2>7, <2>8, <3>2, <5>1, Zenon
      <4>4. f < next => f # next
        BY <2>6
      <4>5. Own(i, f)'
        <5>1. CASE f = ring
          BY <2>1, <5>1, Zenon DEF Own
        <5>2. CASE f # ring
          <6>1. f \notin DOMAIN tables /\ spaces[i] < f /\ f < next
            BY <2>5, <4>2, <4>3, <5>2, Zenon DEF Own
          <6>2. f \notin DOMAIN tables' /\ spaces'[i] < f /\ f < spaces'[i + 1] /\ i # Len(spaces')
            BY <2>6, <2>8, <3>2, <4>3, <4>4, <6>1, Zenon
          <6> QED
            BY <6>2, Zenon DEF Own
        <5> QED
          BY <5>1, <5>2, Zenon
      <4> QED
        BY <4>1, <4>5, Zenon
    <3>3. ASSUME NEW p \in asked[1]
          PROVE  ~(p[1] < Half)
      BY <2>3, <2>12, AskedPairs, Layout
    <3>4. \A k \in DOMAIN queue' : FALSE
      BY <1>1, <2>1
    <3> QED
      BY <2>8, <3>1, <3>2, <3>3, <3>4, Zenon DEF Owned, Own
  <2>15. Direct'
    BY <1>1, <2>1, <2>2, <2>3, <2>8, Zenon DEF PagingInv, Direct, Usable, WholePages
  <2> QED
    BY <2>5, <2>10, <2>11, <2>13, <2>14, <2>15, Zenon DEF PagingInv
<1> QED
  BY <1>2, <1>3, Zenon

\* The queue q is in the upper half and has the direct map of entry k.
Covers(q, k) ==
  /\ q \in Seq([virt : Nat, phys : Nat, len : Nat \ {0}])
  /\ \A j \in DOMAIN q : Within(q[j], 1)
  /\ Usable(k) => \A f \in WholePages(k) : \E j \in DOMAIN q :
       /\ f \in q[j].phys .. q[j].phys + q[j].len - 1
       /\ q[j].virt = machine.hhdm + q[j].phys

\* What build maps of a memory-map entry lies in the upper half, and the
\* whole pages of usable memory are in it, at their place in the direct map.
LEMMA RangesOfEntry ==
  ASSUME machine \in Machines, NEW k, k \in DOMAIN machine.memmap,
         NEW q, q = EntryRanges(machine.memmap[k])
  PROVE  Covers(q, k)
<1>1. PICK e : e = machine.memmap[k] /\ e \in [kind : STRING, base : Nat, length : Nat]
  BY MapEntry, Zenon
<1>2. PICK start \in Nat, end \in Nat : start = FirstPage(e) /\ end = EndPage(e)
  BY <1>1, MapEntry, Zenon
<1>3. PICK hhdm \in Nat : hhdm = machine.hhdm /\ hhdm >= Half /\ hhdm + end <= Top
  BY <1>1, <1>2, MachineAssumption, Zenon
<1>4. PICK virt \in Nat, phys \in Nat :
        /\ virt = machine.kernel.virt /\ phys = machine.kernel.phys /\ virt >= Half
        /\ e.kind = "executable" => virt + end <= Top + phys
  <2>1. /\ machine.kernel \in [virt : Nat, phys : Nat, start : Nat, len : Nat \ {0}]
        /\ machine.kernel.virt >= Half
        /\ e.kind = "executable" => machine.kernel.virt + end <= Top + machine.kernel.phys
    BY <1>1, <1>2, MachineAssumption, Zenon
  <2>2. machine.kernel.virt \in Nat /\ machine.kernel.phys \in Nat
    BY <2>1, Zenon
  <2> QED
    BY <2>1, <2>2, Zenon
<1>5. Half \in Nat /\ Top \in Nat
  BY Layout, PagingAssumption DEF Top
<1>6. CASE end <= start
  <2>1. q = <<>>
    BY <1>1, <1>2, <1>6, Zenon DEF EntryRanges
  <2>2. WholePages(k) = {}
    BY <1>1, <1>2, <1>6 DEF WholePages
  <2> QED
    BY <2>1, <2>2 DEF Covers
<1>7. CASE ~(end <= start)
  <2>1. PICK R, r1, r2 : /\ R = [virt : Nat, phys : Nat, len : Nat \ {0}]
                         /\ r1 = Span(virt + (start - phys), start, end - start)
                         /\ r2 = Span(hhdm + start, start, end - start)
    BY Zenon
  <2>2. PICK A, B : /\ q = A \o B
                    /\ A = IF e.kind = "executable" /\ start >= phys THEN <<r1>> ELSE <<>>
                    /\ B = IF e.kind \in {"usable", "reclaimable", "executable", "framebuffer"}
                           THEN <<r2>> ELSE <<>>
    BY <1>1, <1>2, <1>3, <1>4, <1>7, <2>1, Zenon DEF EntryRanges
  <2>3. r2 \in R /\ Within(r2, 1) /\ r2.virt = hhdm + r2.phys /\ r2.phys = start /\ r2.len = end - start
    BY <1>3, <1>5, <1>7, <2>1 DEF Span, Within
  <2>4. e.kind = "executable" /\ start >= phys => r1 \in R /\ Within(r1, 1)
    BY <1>4, <1>5, <1>7, <2>1 DEF Span, Within
  <2>5. (A = <<>> \/ (A = <<r1>> /\ r1 \in R /\ Within(r1, 1))) /\ (B = <<>> \/ B = <<r2>>)
    BY <2>2, <2>4, Zenon
  <2>6. q \in Seq(R) /\ \A j \in DOMAIN q : q[j] = r2 \/ (q[j] = r1 /\ Within(r1, 1))
    BY <2>2, <2>3, <2>5
  <2>7. \A j \in DOMAIN q : Within(q[j], 1)
    BY <2>3, <2>6, Zenon
  <2>8. Usable(k) => q = <<r2>>
    <3>1. Usable(k) => e.kind = "usable"
      BY <1>1, Zenon DEF Usable
    <3>2. "usable" # "executable"
      BY Zenon
    <3>3. <<>> \o <<r2>> = <<r2>>
      OBVIOUS
    <3> QED
      BY <2>2, <3>1, <3>2, <3>3, Zenon
  <2>9. ASSUME Usable(k), NEW f \in WholePages(k)
        PROVE  \E j \in DOMAIN q : /\ f \in q[j].phys .. q[j].phys + q[j].len - 1
                                   /\ q[j].virt = machine.hhdm + q[j].phys
    <3>1. f \in start .. end - 1
      BY <1>1, <1>2, <2>9, Zenon DEF WholePages
    <3>2. end - 1 = start + (end - start) - 1
      OBVIOUS
    <3>3. f \in r2.phys .. r2.phys + r2.len - 1
      BY <2>3, <3>1, <3>2, Zenon
    <3>4. 1 \in DOMAIN q /\ q[1] = r2
      BY <2>8, <2>9
    <3> QED
      BY <1>3, <2>3, <3>3, <3>4, Zenon
  <2> QED
    BY <2>1, <2>6, <2>7, <2>9, Zenon DEF Covers
<1> QED
  BY <1>6, <1>7, Zenon

\* The loop of build keeps the invariant: what an entry needs is queued.
LEMMA BuildingEntry ==
  ASSUME PagingInv, build_entry
  PROVE  PagingInv'
<1>1. /\ pc = "entries" /\ Fine /\ queue = <<>> /\ item <= Len(machine.memmap)
      /\ queue' = EntryRanges(machine.memmap[item]) /\ item' = item + 1
      /\ UNCHANGED <<machine, images, pc, error, bump, tables, spaces, ring, asked>>
  BY Zenon DEF build_entry, Running, Fine
<1>2. machine \in Machines /\ item \in Nat \ {0}
  BY Zenon DEF PagingInv, Control
<1>3. item \in DOMAIN machine.memmap
  <2>1. PICK S : machine.memmap \in Seq(S)
    BY <1>2, MachineAssumption, Zenon
  <2>2. ASSUME NEW mm \in Seq(S), item <= Len(mm)
        PROVE  item \in DOMAIN mm
    BY <1>2, <2>2
  <2> QED
    BY <1>1, <2>1, <2>2, Zenon
<1>4. /\ queue' \in Seq([virt : Nat, phys : Nat, len : Nat \ {0}])
      /\ \A j \in DOMAIN queue' : Within(queue'[j], 1)
      /\ Usable(item) => \A f \in WholePages(item) : \E j \in DOMAIN queue' :
           /\ f \in queue'[j].phys .. queue'[j].phys + queue'[j].len - 1
           /\ queue'[j].virt = machine.hhdm + queue'[j].phys
  <2>1. PICK q : q = EntryRanges(machine.memmap[item]) /\ queue' = q
    BY <1>1, Zenon
  <2>2. Covers(q, item)
    BY <1>2, <1>3, <2>1, RangesOfEntry, Zenon
  <2> QED
    BY <2>1, <2>2, Zenon DEF Covers
<1>5. Len(spaces) = 1 /\ DOMAIN spaces = {1}
  BY <1>1, OnlyKernel, Zenon
<1>6. Control'
  <2>1. item' \in Nat \ {0}
    <3>1. item' = item + 1
      BY <1>1, Zenon
    <3> QED
      BY <1>2, <3>1
  <2> QED
    BY <1>1, <1>4, <1>5, <2>1, Zenon DEF PagingInv, Control, ErrorOK
<1>7. Trees' /\ Mapping' /\ Shared' /\ High' /\ InMemory'
  BY <1>1, Zenon DEF PagingInv, Trees, Fine, Mapping, Mapped, Shared, High, InMemory, Usable, WholePages
<1>8. Overlapping'
  BY <1>1, Zenon DEF Fine, Overlapping
<1>9. Owned'
  <2>1. ring \notin DOMAIN tables /\ ring \in {0} \cup Frames(bump.start, bump.cursor)
    BY Zenon DEF PagingInv, Owned
  <2> QED
    BY <1>1, <1>5, <2>1 DEF Owned
<1>10. Direct'
  <2>1. ASSUME NEW k \in DOMAIN machine.memmap, Usable(k), k < item + 1, NEW f \in WholePages(k)
        PROVE  <<machine.hhdm + f, f>> \in asked[1] \/ Queued(f)'
    <3>1. CASE k = item
      BY <1>1, <1>4, <2>1, <3>1, Zenon DEF Queued
    <3>2. CASE k # item
      <4>1. k < item /\ Len(spaces) > 0
        BY <1>2, <1>5, <2>1, <3>2, MapEntry
      <4>2. ~Queued(f)
        BY <1>1 DEF Queued
      <4> QED
        BY <1>1, <2>1, <4>1, <4>2, Zenon DEF PagingInv, Direct
    <3> QED
      BY <3>1, <3>2, Zenon
  <2> QED
    BY <1>1, <2>1, Zenon DEF Direct, Usable, WholePages
<1> QED
  BY <1>6, <1>7, <1>8, <1>9, <1>10, Zenon DEF PagingInv

-----------------------------------------------------------------------------
\* One round of map_range.

\* The range at the head of the queue, and how much of it a round maps.
Round(r, n, size) ==
  /\ r = Head(queue) /\ n = Len(spaces) /\ size = IF IsLarge(r) THEN HUGE ELSE 1
  /\ r \in [virt : Nat, phys : Nat, len : Nat \ {0}] /\ Within(r, n)
  /\ n \in DOMAIN spaces /\ size \in 1 .. r.len
  /\ \A i \in 0 .. size - 1 : r.virt + i \in Pages

\* The upper half of the address space begins below its end.
LEMMA Halves == Half \in Nat /\ Top \in Nat /\ Half <= Top
<1>1. PICK h \in Nat : h = Radix \div 2 /\ Radix = 2 * h
  <2>1. Radix \div 2 \in Nat /\ Radix = 2 * (Radix \div 2)
    BY PagingAssumption
  <2> QED
    BY <2>1, Zenon
<1>2. PICK c \in Nat : c = Radix * Radix * Radix
  BY PagingAssumption, SMT
<1>3. Half = h * c /\ Top = c * Radix
  <2>1. Half = h * Radix * Radix * Radix
    BY <1>1, Zenon DEF Half
  <2>2. h * Radix * Radix * Radix = h * (Radix * Radix * Radix)
    BY <1>1, PagingAssumption, SMT
  <2> QED
    BY <1>2, <2>1, <2>2, Zenon DEF Top
<1>4. h * c \in Nat /\ c * Radix = 2 * (h * c)
  BY <1>1, SMT
<1> QED
  BY <1>3, <1>4

\* The range at the head of the queue is in the last space's half, and a
\* round stays within it.
LEMMA HeadRange ==
  ASSUME PagingInv, queue # <<>>, NEW r, r = Head(queue), NEW n, n = Len(spaces),
         NEW size, size = IF IsLarge(r) THEN HUGE ELSE 1
  PROVE  Round(r, n, size) /\ pc # "memmap" /\ (pc # "entries" => n # 1)
<1>1. PICK R : R = [virt : Nat, phys : Nat, len : Nat \ {0}] /\ queue \in Seq(R)
  BY Zenon DEF PagingInv, Control
<1>2. r \in R /\ 1 \in DOMAIN queue /\ queue[1] = r
  <2>1. ASSUME NEW q \in Seq(R), q # <<>>
        PROVE  Head(q) \in R /\ 1 \in DOMAIN q /\ q[1] = Head(q)
    BY <2>1
  <2> QED
    BY <1>1, <2>1, Zenon
<1>3. Within(r, n)
  BY <1>2, Zenon DEF PagingInv, Control
<1>4. pc = "entries" \/ ~(Len(spaces) <= 1)
  BY Zenon DEF PagingInv, Control
<1>5. /\ pc # "memmap" /\ (pc # "entries" => n # 1) /\ n \in Nat \ {0}
  <2>1. /\ spaces \in Seq(Nat) /\ (pc = "entries" => Len(spaces) = 1)
        /\ (pc = "memmap" => Len(spaces) = 0)
    BY Zenon DEF PagingInv, Control
  <2> QED
    BY <1>4, <2>1
<1>6. n \in DOMAIN spaces
  <2>1. spaces \in Seq(Nat)
    BY Zenon DEF PagingInv, Control
  <2> QED
    BY <1>5, <2>1
<1>7. PICK a \in Nat, l \in Nat \ {0} : a = r.virt /\ l = r.len
  BY <1>1, <1>2, Zenon
<1>8. size \in 1 .. l
  BY <1>7, PagingAssumption, SMT DEF IsLarge, HUGE
<1>9. a + l <= Top /\ Top \in Nat
  <2>1. Half \in Nat /\ Top \in Nat /\ Half <= Top
    BY Halves, Zenon
  <2>2. n = 1 => a + l <= Top
    BY <1>3, <1>7, Zenon DEF Within
  <2>3. n # 1 => a + l <= Half
    BY <1>3, <1>7, Zenon DEF Within
  <2> QED
    BY <2>1, <2>2, <2>3
<1>10. \A i \in 0 .. size - 1 : a + i \in Pages
  BY <1>8, <1>9 DEF Pages
<1> QED
  BY <1>1, <1>2, <1>3, <1>5, <1>6, <1>7, <1>8, <1>10, Zenon DEF Round

\* What a round changes when it maps its part of the range: in the last space
\* that part is mapped, and nothing else anywhere.
Advanced(ts, sp, n, va, frame, size, ts2) ==
  /\ \A j \in DOMAIN sp, vb \in Pages :
       Walk(ts2, sp[j], vb) = IF j = n /\ vb \in va .. va + size - 1
                              THEN frame + (vb - va) ELSE Walk(ts, sp[j], vb)
  /\ \A vb \in va .. va + size - 1 : Walk(ts, sp[n], vb) \in {-1, frame + (vb - va)}

\* And when it fails: no translation, and what it met if it was refused.
Rejected(ts, sp, n, va, size, ts2) ==
  /\ \A j \in DOMAIN sp, vb \in Pages : Walk(ts2, sp[j], vb) = Walk(ts, sp[j], vb)
  /\ error' \in {"memory", "collision", "conflict"}
  /\ error' # "memory" => \E vb \in va .. va + size - 1 : Walk(ts, sp[n], vb) # -1

\* The pages a round maps, with their frames.
NewPairs(r, size) == {<<r.virt + i, r.phys + i>> : i \in 0 .. size - 1}

Outcome(r, n, size) ==
  \/ /\ Fine' /\ Advanced(tables, spaces, n, r.virt, r.phys, size, tables')
     /\ queue' = (IF r.len - size = 0 THEN <<>> ELSE <<Span(r.virt + size, r.phys + size, r.len - size)>>)
                 \o Tail(queue)
     /\ asked' = [asked EXCEPT ![Len(asked)] = @ \cup NewPairs(r, size)]
  \/ /\ ~Fine' /\ Rejected(tables, spaces, n, r.virt, size, tables')
     /\ UNCHANGED <<queue, asked>>

\* The tables a round makes are pages handed out in it.
NewTables ==
  /\ DOMAIN tables \subseteq DOMAIN tables'
  /\ \A f \in DOMAIN tables' \ DOMAIN tables : f \in Nat /\ f >= bump.cursor \div PAGE

\* map_4k and map_2m, as map_range calls them, keep the tables in shape.
LEMMA MapOne ==
  ASSUME PagingInv, Fine, pc # "memmap", NEW r, NEW n, NEW size, Round(r, n, size),
         NEW m, m = IF IsLarge(r) THEN map_2m(Mapper(tables, bump, spaces[n]), r.virt, r.phys)
                    ELSE map_4k(Mapper(tables, bump, spaces[n]), r.virt, r.phys)
  PROVE  \E l2, k2 : /\ Kept(tables, bump, spaces, m, l2, k2)
                     /\ Maps(tables, spaces, n, r.virt, r.phys, size, m, l2)
<1>1. PICK level, key : Sound(tables, bump, spaces, level, key) /\ Filled(tables, level)
  BY Zenon DEF PagingInv, Trees
<1>2. PICK va \in Nat, frame \in Nat : va = r.virt /\ frame = r.phys
  BY Zenon DEF Round
<1>3. n \in DOMAIN spaces /\ n = Len(spaces) /\ Within(r, n) /\ size = IF IsLarge(r) THEN HUGE ELSE 1
  BY Zenon DEF Round
<1>4. va \in Pages
  <2>1. 0 \in 0 .. size - 1 /\ va + 0 = va
    BY <1>2 DEF Round
  <2> QED
    BY <1>2, <2>1, Zenon DEF Round
<1>5. (n = 1 => Half <= va) /\ (n # 1 => va < Half)
  <2>1. n = 1 => Half <= va
    BY <1>2, <1>3, Zenon DEF Within
  <2>2. n # 1 => va + r.len <= Half /\ r.len \in Nat \ {0}
    BY <1>2, <1>3, Zenon DEF Within, Round
  <2> QED
    BY <1>2, <2>1, <2>2, Layout
<1>6. va < Half <=> 2 * pml4_index(va) < Radix
  BY <1>4, TopDigit, Zenon
<1>7. pml4_index(va) \in Nat
  BY Digits DEF Index
<1>8. Place(spaces, n, va)
  <2>1. n = 1 => 2 * pml4_index(va) >= Radix
    BY <1>5, <1>6, <1>7, Layout, PagingAssumption
  <2>2. Alone(spaces, n, va)
    <3>1. CASE n = 1
      <4>1. spaces \in Seq(Nat)
        BY Zenon DEF PagingInv, Control
      <4>2. \A j \in DOMAIN spaces : j = n
        <5>1. ASSUME NEW sp \in Seq(Nat), Len(sp) = 1
              PROVE  \A j \in DOMAIN sp : j = 1
          BY <5>1
        <5> QED
          BY <1>3, <3>1, <4>1, <5>1, Zenon
      <4> QED
        BY <4>2, Zenon DEF Alone
    <3>2. CASE n # 1
      BY <1>5, <1>6, <3>2, Zenon DEF Alone
    <3> QED
      BY <3>1, <3>2, Zenon
  <2> QED
    BY <1>3, <1>4, <2>1, <2>2, Zenon DEF Place
<1>9. CASE IsLarge(r)
  <2>1. va % HUGE = 0 /\ frame % HUGE = 0 /\ size = HUGE
    BY <1>2, <1>3, <1>9, Zenon DEF IsLarge
  <2>2. m = map_2m(Mapper(tables, bump, spaces[n]), va, frame)
    BY <1>2, <1>9, Zenon
  <2>3. \E l2, k2 : /\ Kept(tables, bump, spaces, m, l2, k2)
                    /\ Maps(tables, spaces, n, va, frame, HUGE, m, l2)
    BY <1>1, <1>8, <2>1, <2>2, MapLarge, Zenon
  <2> QED
    BY <1>2, <2>1, <2>3, Zenon
<1>10. CASE ~IsLarge(r)
  <2>1. m = map_4k(Mapper(tables, bump, spaces[n]), va, frame)
    BY <1>2, <1>10, Zenon
  <2>2. \E l2, k2 : /\ Kept(tables, bump, spaces, m, l2, k2)
                    /\ Maps(tables, spaces, n, va, frame, 1, m, l2)
    BY <1>1, <1>8, <2>1, MapSmall, Zenon
  <2> QED
    BY <1>2, <1>3, <1>10, <2>2, Zenon
<1> QED
  BY <1>9, <1>10, Zenon

\* The state after a round of map_range.
LEMMA MapOutcome ==
  ASSUME PagingInv, map_range, NEW r, r = Head(queue), NEW n, n = Len(spaces),
         NEW size, size = IF IsLarge(r) THEN HUGE ELSE 1
  PROVE  /\ Round(r, n, size) /\ Outcome(r, n, size) /\ NewTables /\ Later(bump, bump') /\ Trees'
         /\ pc # "memmap" /\ (pc # "entries" => n # 1)
         /\ UNCHANGED <<machine, images, pc, spaces, item, ring>>
<1>1. PICK m : m = IF IsLarge(r) THEN map_2m(Mapper(tables, bump, spaces[n]), r.virt, r.phys)
                   ELSE map_4k(Mapper(tables, bump, spaces[n]), r.virt, r.phys)
  BY Zenon
<1>2. PICK rest : rest = Span(r.virt + size, r.phys + size, r.len - size)
  BY Zenon
<1>3. /\ Fine /\ queue # <<>> /\ tables' = m.tables /\ bump' = m.bump /\ error' = m.error
      /\ IF m.error # "" THEN UNCHANGED <<queue, asked>>
         ELSE /\ queue' = (IF rest.len = 0 THEN <<>> ELSE <<rest>>) \o Tail(queue)
              /\ asked' = [asked EXCEPT ![Len(asked)] =
                             @ \cup {<<r.virt + i, r.phys + i>> : i \in 0 .. size - 1}]
      /\ UNCHANGED <<machine, images, pc, spaces, item, ring>>
  <2> DEFINE head == Head(queue)
             step == IF IsLarge(head) THEN HUGE ELSE 1
             start == [tables |-> tables, bump |-> bump, at |-> spaces[Len(spaces)], error |-> ""]
             after == IF IsLarge(head) THEN map_2m(start, head.virt, head.phys)
                      ELSE map_4k(start, head.virt, head.phys)
             tail == Span(head.virt + step, head.phys + step, head.len - step)
  <2>1. /\ error = "" /\ queue # <<>>
        /\ tables' = after.tables /\ bump' = after.bump /\ error' = after.error
        /\ IF after.error # "" THEN UNCHANGED <<queue, asked>>
           ELSE /\ queue' = (IF tail.len = 0 THEN <<>> ELSE <<tail>>) \o Tail(queue)
                /\ asked' = [asked EXCEPT ![Len(asked)] =
                               @ \cup {<<head.virt + i, head.phys + i>> : i \in 0 .. step - 1}]
        /\ UNCHANGED <<machine, images, pc, spaces, item, ring>>
    BY Zenon DEF map_range
  <2>2. head = r /\ step = size
    BY Zenon
  <2>3. start = Mapper(tables, bump, spaces[n])
    BY Zenon DEF Mapper
  <2> HIDE DEF head, step, start
  <2>4. after = m
    BY <1>1, <2>2, <2>3, Zenon
  <2>5. tail = rest
    BY <1>2, <2>2, Zenon
  <2> HIDE DEF after, tail
  <2>6. after.error = "" => queue' = (IF rest.len = 0 THEN <<>> ELSE <<rest>>) \o Tail(queue)
    BY <2>1, <2>5, Zenon
  <2>7. after.error = "" => asked' = [asked EXCEPT ![Len(asked)] =
                              @ \cup {<<r.virt + i, r.phys + i>> : i \in 0 .. size - 1}]
    <3>1. {<<head.virt + i, head.phys + i>> : i \in 0 .. step - 1}
          = {<<r.virt + i, r.phys + i>> : i \in 0 .. size - 1}
      BY <2>2, Zenon
    <3> QED
      BY <2>1, <3>1, Zenon
  <2>8. after.error # "" => UNCHANGED <<queue, asked>>
    BY <2>1, Zenon
  <2>9. /\ error = "" /\ queue # <<>>
        /\ tables' = after.tables /\ bump' = after.bump /\ error' = after.error
        /\ UNCHANGED <<machine, images, pc, spaces, item, ring>>
    BY <2>1, Zenon
  <2> QED
    BY <2>4, <2>6, <2>7, <2>8, <2>9, Zenon DEF Fine
<1>4. Round(r, n, size) /\ pc # "memmap" /\ (pc # "entries" => n # 1)
  BY <1>3, HeadRange, Zenon
<1>5. PICK l2, k2 : /\ Kept(tables, bump, spaces, m, l2, k2)
                    /\ Maps(tables, spaces, n, r.virt, r.phys, size, m, l2)
  BY <1>1, <1>3, <1>4, MapOne, Zenon
<1>6. Sound(tables', bump', spaces', l2, k2)
  BY <1>3, <1>5, Zenon DEF Kept
<1>7. BumpOK(bump) /\ bump.cursor \div PAGE \in Nat
  BY <1>4, Below, Zenon
<1>8. Later(bump, bump')
  <2>1. BumpOK(bump') /\ bump'.start = bump.start /\ bump'.end = bump.end /\ bump.cursor <= bump'.cursor
    BY <1>3, <1>5, <1>6, Zenon DEF Kept, Sound
  <2>2. PICK y \in Nat, z \in Nat : y = bump.cursor /\ z = bump'.cursor /\ y <= z
    BY <1>7, <2>1, Zenon DEF BumpOK
  <2>3. z \div PAGE \in Nat /\ y \div PAGE <= z \div PAGE
    <3>1. y <= z
      BY <2>2, Zenon
    <3> QED
      BY <3>1, PagingAssumption, SMT
  <2> QED
    BY <1>7, <2>1, <2>2, <2>3, Zenon DEF Later
<1>9. NewTables
  <2>1. /\ DOMAIN tables \subseteq DOMAIN tables'
        /\ \A f \in DOMAIN tables' \ DOMAIN tables : f >= bump.cursor \div PAGE
    BY <1>3, <1>5, Zenon DEF Kept
  <2>2. DOMAIN tables' \subseteq Frames(bump'.start, bump'.cursor)
    BY <1>6, Zenon DEF Sound
  <2>3. Frames(bump'.start, bump'.cursor) \subseteq Nat
    <3>1. PICK x \in Nat : x = bump'.start \div PAGE
      <4>1. PICK y \in Nat : y = bump'.start
        BY <1>8, Zenon DEF Later, BumpOK
      <4>2. y \div PAGE \in Nat
        BY PagingAssumption, SMT
      <4> QED
        BY <4>1, <4>2, Zenon
    <3>2. PICK z \in Nat : z = bump'.cursor \div PAGE
      BY <1>8, Zenon DEF Later
    <3>3. x .. z - 1 \subseteq Nat
      OBVIOUS
    <3> QED
      BY <3>1, <3>2, <3>3, Zenon DEF Frames
  <2> QED
    BY <2>1, <2>2, <2>3, Zenon DEF NewTables
<1>10. Trees' /\ Outcome(r, n, size)
  <2>1. rest.len = r.len - size
    BY <1>2, Zenon DEF Span
  <2>2. CASE m.error = ""
    <3>1. Fine' /\ Filled(tables', l2)
      <4>1. m.error \notin {"memory", "collision", "conflict"}
        BY <2>2, Zenon
      <4> QED
        BY <1>3, <1>5, <2>2, <4>1, Zenon DEF Fine, Maps
    <3>2. Advanced(tables, spaces, n, r.virt, r.phys, size, tables')
      <4>1. m.error \notin {"memory", "collision", "conflict"}
        BY <2>2, Zenon
      <4> QED
        BY <1>3, <1>5, <2>2, <4>1, Zenon DEF Maps, Advanced
    <3>3. Trees'
      BY <1>3, <1>4, <1>6, <3>1, Zenon DEF Trees
    <3> QED
      BY <1>2, <1>3, <2>1, <2>2, <3>1, <3>2, <3>3, Zenon DEF Outcome, NewPairs
  <2>3. CASE m.error # ""
    <3>1. ~Fine'
      BY <1>3, <2>3, Zenon DEF Fine
    <3>2. Rejected(tables, spaces, n, r.virt, size, tables')
      BY <1>3, <1>5, <2>3, Zenon DEF Maps, Rejected
    <3>3. Trees'
      BY <1>3, <1>4, <1>6, <3>1, Zenon DEF Trees
    <3> QED
      BY <1>3, <2>3, <3>1, <3>2, <3>3, Zenon DEF Outcome
  <2> QED
    BY <2>2, <2>3, Zenon
<1> QED
  BY <1>3, <1>4, <1>8, <1>9, <1>10, Zenon

\* The pairs map size pages from va on to the frames from frame on.
Straight(pairs, va, frame, size) ==
  /\ va \in Nat /\ frame \in Nat /\ size \in Nat \ {0} /\ pairs \in SUBSET (Pages \X Nat)
  /\ \A p \in pairs : p[1] \in va .. va + size - 1 /\ p[2] = frame + (p[1] - va)
  /\ \A vb \in va .. va + size - 1 : <<vb, frame + (vb - va)>> \in pairs

\* A round's pairs: each page of its part of the range, with its frame.
LEMMA Pairs ==
  ASSUME NEW r, NEW n, NEW size, Round(r, n, size), NEW va, va = r.virt, NEW frame, frame = r.phys
  PROVE  Straight(NewPairs(r, size), va, frame, size)
<1>1. va \in Nat /\ frame \in Nat /\ size \in Nat \ {0}
  BY DEF Round
<1>2. \A i \in 0 .. size - 1 : va + i \in Pages
  BY Zenon DEF Round
<1>3. NewPairs(r, size) = {<<va + i, frame + i>> : i \in 0 .. size - 1}
  BY Zenon DEF NewPairs
<1>4. NewPairs(r, size) \in SUBSET (Pages \X Nat)
  BY <1>1, <1>2, <1>3
<1>5. ASSUME NEW p \in NewPairs(r, size)
      PROVE  p[1] \in va .. va + size - 1 /\ p[2] = frame + (p[1] - va)
  <2>1. PICK i \in 0 .. size - 1 : p = <<va + i, frame + i>>
    BY <1>3, <1>5, Zenon
  <2>2. p[1] = va + i /\ p[2] = frame + i
    BY <2>1, Zenon
  <2>3. va + i \in va .. va + size - 1 /\ frame + i = frame + ((va + i) - va)
    BY <1>1
  <2> QED
    BY <2>2, <2>3, Zenon
<1>6. ASSUME NEW vb \in va .. va + size - 1
      PROVE  <<vb, frame + (vb - va)>> \in NewPairs(r, size)
  <2>1. vb - va \in 0 .. size - 1 /\ vb = va + (vb - va)
    BY <1>1, <1>6
  <2> QED
    BY <1>3, <2>1, Zenon
<1> QED
  BY <1>1, <1>4, <1>5, <1>6, Zenon DEF Straight

\* asked after a round that maps.
MoreAsked(r, n, size) ==
  /\ asked' \in Seq(SUBSET (Pages \X Nat)) /\ Len(asked') = Len(asked)
  /\ asked'[n] = asked[n] \cup NewPairs(r, size)
  /\ \A j \in DOMAIN spaces : j # n => asked'[j] = asked[j]

\* A round adds its pairs to those of the last space.
LEMMA AskedMore ==
  ASSUME PagingInv, NEW r, NEW n, NEW size, Round(r, n, size),
         asked' = [asked EXCEPT ![Len(asked)] = @ \cup NewPairs(r, size)]
  PROVE  MoreAsked(r, n, size)
<1>1. PICK S : /\ S = SUBSET (Pages \X Nat) /\ asked \in Seq(S) /\ Len(asked) = Len(spaces)
               /\ spaces \in Seq(Nat)
  BY Zenon DEF PagingInv, Control
<1>2. n = Len(asked) /\ n \in DOMAIN spaces
  BY <1>1, Zenon DEF Round
<1>3. DOMAIN spaces = DOMAIN asked
  BY <1>1
<1>4. asked[n] \cup NewPairs(r, size) \in S
  <2>1. NewPairs(r, size) \in S
    BY <1>1, Pairs, Zenon DEF Straight
  <2>2. asked[n] \in S
    BY <1>1, <1>2, <1>3
  <2> QED
    BY <1>1, <2>1, <2>2, Zenon
<1>5. ASSUME NEW q \in Seq(S), NEW x \in S, NEW i \in DOMAIN q, NEW w, w = [q EXCEPT ![i] = x]
      PROVE  w \in Seq(S) /\ Len(w) = Len(q) /\ w[i] = x /\ \A j \in DOMAIN q : j # i => w[j] = q[j]
  BY <1>5
<1>6. asked' = [asked EXCEPT ![n] = asked[n] \cup NewPairs(r, size)]
  BY <1>2, Zenon
<1>7. /\ asked' \in Seq(S) /\ Len(asked') = Len(asked)
      /\ asked'[n] = asked[n] \cup NewPairs(r, size)
      /\ \A j \in DOMAIN asked : j # n => asked'[j] = asked[j]
  BY <1>1, <1>2, <1>4
<1> QED
  BY <1>1, <1>3, <1>7, Zenon DEF MoreAsked

\* After a round that maps, the last space maps its pairs and the round's.
LEMMA MappedMore ==
  ASSUME NEW ts, NEW sp, NEW n \in DOMAIN sp, NEW va, NEW frame, NEW size,
         NEW ts2, Advanced(ts, sp, n, va, frame, size, ts2),
         NEW old \in SUBSET (Pages \X Nat), Mapped(ts, sp[n], old),
         NEW new, Straight(new, va, frame, size)
  PROVE  Mapped(ts2, sp[n], old \cup new)
<1>1. \A p \in old \cup new : p[1] \in Pages /\ p[2] \in Nat
  BY Zenon DEF Straight
<1>2. \A vb \in Pages : Walk(ts2, sp[n], vb) = IF vb \in va .. va + size - 1
                                               THEN frame + (vb - va) ELSE Walk(ts, sp[n], vb)
  BY Zenon DEF Advanced
<1>3. ASSUME NEW p \in old
      PROVE  Walk(ts2, sp[n], p[1]) = p[2]
  <2>1. Walk(ts, sp[n], p[1]) = p[2] /\ p[2] # -1
    <3>1. p[2] \in Nat
      BY <1>1, <1>3, Zenon
    <3>2. p[2] # -1
      BY <3>1
    <3> QED
      BY <1>3, <3>2, Zenon DEF Mapped
  <2>2. CASE p[1] \in va .. va + size - 1
    <3>1. Walk(ts, sp[n], p[1]) \in {-1, frame + (p[1] - va)}
      BY <2>2, Zenon DEF Advanced
    <3> QED
      BY <1>1, <1>2, <1>3, <2>1, <2>2, <3>1, Zenon
  <2>3. CASE p[1] \notin va .. va + size - 1
    BY <1>1, <1>2, <1>3, <2>1, <2>3, Zenon
  <2> QED
    BY <2>2, <2>3, Zenon
<1>4. ASSUME NEW p \in new
      PROVE  Walk(ts2, sp[n], p[1]) = p[2]
  BY <1>1, <1>2, <1>4, Zenon DEF Straight
<1>5. ASSUME NEW vb \in Pages, Walk(ts2, sp[n], vb) # -1
      PROVE  <<vb, Walk(ts2, sp[n], vb)>> \in old \cup new
  <2>1. CASE vb \in va .. va + size - 1
    BY <1>2, <1>5, <2>1, Zenon DEF Straight
  <2>2. CASE vb \notin va .. va + size - 1
    BY <1>2, <1>5, <2>2, Zenon DEF Mapped
  <2> QED
    BY <2>1, <2>2, Zenon
<1> QED
  BY <1>3, <1>4, <1>5, Zenon DEF Mapped

\* A round keeps Mapping: it maps what is asked for, or nothing.
LEMMA MapMapping ==
  ASSUME PagingInv, NEW r, NEW n, NEW size, Round(r, n, size), Outcome(r, n, size),
         UNCHANGED spaces
  PROVE  Mapping'
<1>1. n \in DOMAIN spaces
  BY Zenon DEF Round
<1>2. \A j \in DOMAIN spaces : Mapped(tables, spaces[j], asked[j]) /\ asked[j] \in SUBSET (Pages \X Nat)
  BY AskedPairs, Zenon DEF PagingInv, Mapping
<1>3. CASE /\ Advanced(tables, spaces, n, r.virt, r.phys, size, tables')
           /\ asked' = [asked EXCEPT ![Len(asked)] = @ \cup NewPairs(r, size)]
  <2>1. PICK va, frame : va = r.virt /\ frame = r.phys
    BY Zenon
  <2>2. Straight(NewPairs(r, size), va, frame, size)
    BY <2>1, Pairs, Zenon
  <2>3. Advanced(tables, spaces, n, va, frame, size, tables')
    BY <1>3, <2>1, Zenon
  <2>4. Mapped(tables', spaces[n], asked[n] \cup NewPairs(r, size))
    BY <1>1, <1>2, <2>2, <2>3, MappedMore, Zenon
  <2>5. /\ asked'[n] = asked[n] \cup NewPairs(r, size)
        /\ \A j \in DOMAIN spaces : j # n => asked'[j] = asked[j]
    <3>1. MoreAsked(r, n, size)
      BY <1>3, AskedMore, Zenon
    <3> QED
      BY <3>1, Zenon DEF MoreAsked
  <2>6. ASSUME NEW j \in DOMAIN spaces, j # n
        PROVE  Mapped(tables', spaces[j], asked[j])
    <3>1. \A vb \in Pages : Walk(tables', spaces[j], vb) = Walk(tables, spaces[j], vb)
      BY <2>3, <2>6, Zenon DEF Advanced
    <3> QED
      BY <1>2, <2>6, <3>1, MappedSame, Zenon
  <2> QED
    BY <2>4, <2>5, <2>6, Zenon DEF Mapping
<1>4. CASE Rejected(tables, spaces, n, r.virt, size, tables') /\ UNCHANGED asked
  <2>1. ASSUME NEW j \in DOMAIN spaces
        PROVE  Mapped(tables', spaces[j], asked[j])
    <3>1. \A vb \in Pages : Walk(tables', spaces[j], vb) = Walk(tables, spaces[j], vb)
      BY <1>4, <2>1, Zenon DEF Rejected
    <3> QED
      BY <1>2, <2>1, <3>1, MappedSame, Zenon
  <2> QED
    BY <1>4, <2>1, Zenon DEF Mapping
<1> QED
  BY <1>3, <1>4, Zenon DEF Outcome

\* The queue after a round that maps: the rest of the range, if there is one,
\* and the other ranges.
Rest(r, size) == Span(r.virt + size, r.phys + size, r.len - size)
Shorter(r, size) ==
  /\ queue' \in Seq([virt : Nat, phys : Nat, len : Nat \ {0}])
  /\ \A k \in DOMAIN queue' : \/ queue'[k] = Rest(r, size) /\ r.len # size
                              \/ \E j \in DOMAIN queue : queue'[k] = queue[j]
  /\ \A j \in DOMAIN queue : queue[j] = r \/ \E k \in DOMAIN queue' : queue'[k] = queue[j]
  /\ r.len # size => \E k \in DOMAIN queue' : queue'[k] = Rest(r, size)

\* A round takes its part off the range at the head of the queue.
LEMMA QueueShorter ==
  ASSUME PagingInv, queue # <<>>, NEW r, NEW n, NEW size, Round(r, n, size),
         queue' = (IF r.len - size = 0 THEN <<>> ELSE <<Span(r.virt + size, r.phys + size, r.len - size)>>)
                  \o Tail(queue)
  PROVE  Shorter(r, size)
<1>1. PICK R : R = [virt : Nat, phys : Nat, len : Nat \ {0}] /\ queue \in Seq(R)
  BY Zenon DEF PagingInv, Control
<1>2. PICK a \in Nat, b \in Nat, c \in Nat \ {0} : a = r.virt /\ b = r.phys /\ c = r.len
  BY Zenon DEF Round
<1>3. size \in 1 .. c /\ r = Head(queue)
  BY <1>2, Zenon DEF Round
<1>4. PICK x : x = Rest(r, size)
  BY Zenon
<1>5. c # size => x \in R
  <2>1. x = [virt |-> a + size, phys |-> b + size, len |-> c - size]
    BY <1>2, <1>4, Zenon DEF Rest, Span
  <2>2. c # size => c - size \in Nat \ {0} /\ a + size \in Nat /\ b + size \in Nat
    BY <1>3
  <2> QED
    BY <1>1, <2>1, <2>2, Zenon
<1>6. (c - size = 0) <=> (c = size)
  BY <1>3
<1>7. queue' = (IF c = size THEN <<>> ELSE <<x>>) \o Tail(queue)
  BY <1>2, <1>4, <1>6, Zenon DEF Rest
<1>8. PICK t \in Seq(R) :
        /\ t = Tail(queue) /\ queue[1] = r
        /\ \A k \in DOMAIN t : k + 1 \in DOMAIN queue /\ t[k] = queue[k + 1]
        /\ \A j \in DOMAIN queue : j # 1 => j - 1 \in DOMAIN t /\ t[j - 1] = queue[j]
  <2>1. /\ Tail(queue) \in Seq(R) /\ queue[1] = Head(queue)
        /\ \A k \in DOMAIN Tail(queue) : k + 1 \in DOMAIN queue /\ Tail(queue)[k] = queue[k + 1]
        /\ \A j \in DOMAIN queue : j # 1 => j - 1 \in DOMAIN Tail(queue) /\ Tail(queue)[j - 1] = queue[j]
    <3>1. queue \in Seq(R) /\ queue # <<>>
      BY <1>1, Zenon
    <3> QED
      BY <3>1, TailAt
  <2> QED
    BY <1>3, <2>1, Zenon
<1>9. ASSUME NEW j \in DOMAIN queue, queue[j] # r
      PROVE  j - 1 \in DOMAIN t /\ t[j - 1] = queue[j]
  BY <1>8, <1>9, Zenon
<1>10. CASE c = size
  <2>1. queue' = t
    <3>1. <<>> \o t = t
      OBVIOUS
    <3> QED
      BY <1>7, <1>8, <1>10, <3>1, Zenon
  <2>2. queue' \in Seq([virt : Nat, phys : Nat, len : Nat \ {0}])
    BY <1>1, <2>1, Zenon
  <2>3. \A k \in DOMAIN queue' : \E j \in DOMAIN queue : queue'[k] = queue[j]
    BY <1>8, <2>1, Zenon
  <2>4. \A j \in DOMAIN queue : queue[j] = r \/ \E k \in DOMAIN queue' : queue'[k] = queue[j]
    BY <1>9, <2>1, Zenon
  <2>5. r.len = size
    BY <1>2, <1>10, Zenon
  <2> QED
    BY <2>2, <2>3, <2>4, <2>5, Zenon DEF Shorter
<1>11. CASE c # size
  <2>1. PICK w : w = <<x>> \o t
    BY Zenon
  <2>2. queue' = w /\ x = Rest(r, size) /\ r.len # size
    BY <1>2, <1>4, <1>7, <1>8, <1>11, <2>1, Zenon
  <2>3. /\ w \in Seq(R) /\ 1 \in DOMAIN w /\ w[1] = x
        /\ \A k \in DOMAIN t : k + 1 \in DOMAIN w /\ w[k + 1] = t[k]
        /\ \A k \in DOMAIN w : k # 1 => k - 1 \in DOMAIN t /\ w[k] = t[k - 1]
    <3>1. t \in Seq(R) /\ x \in R
      BY <1>5, <1>11, Zenon
    <3> QED
      BY <2>1, <3>1, ConsAt
  <2>4. ASSUME NEW k \in DOMAIN w, w[k] # x
        PROVE  \E j \in DOMAIN queue : w[k] = queue[j]
    <3>1. PICK i \in DOMAIN t : w[k] = t[i]
      BY <2>3, <2>4, Zenon
    <3> QED
      BY <1>8, <3>1, Zenon
  <2>5. ASSUME NEW j \in DOMAIN queue, queue[j] # r
        PROVE  \E k \in DOMAIN w : w[k] = queue[j]
    <3>1. PICK k \in DOMAIN t : t[k] = queue[j]
      BY <1>9, <2>5, Zenon
    <3> QED
      BY <2>3, <3>1, Zenon
  <2>6. queue' \in Seq([virt : Nat, phys : Nat, len : Nat \ {0}])
    BY <1>1, <2>2, <2>3, Zenon
  <2>7. \A k \in DOMAIN queue' : \/ queue'[k] = Rest(r, size) /\ r.len # size
                                 \/ \E j \in DOMAIN queue : queue'[k] = queue[j]
    BY <2>2, <2>4, Zenon
  <2>8. \A j \in DOMAIN queue : queue[j] = r \/ \E k \in DOMAIN queue' : queue'[k] = queue[j]
    BY <2>2, <2>5, Zenon
  <2>9. \E k \in DOMAIN queue' : queue'[k] = Rest(r, size)
    BY <2>2, <2>3, Zenon
  <2> QED
    BY <2>6, <2>7, <2>8, <2>9, Zenon DEF Shorter
<1> QED
  BY <1>10, <1>11, Zenon

\* The rest of a range lies where the range does.
LEMMA RestWithin ==
  ASSUME NEW r, NEW n, NEW size, Round(r, n, size), r.len # size, NEW x, x = Rest(r, size)
  PROVE  Within(x, n) /\ x.virt = r.virt + size /\ x.phys = r.phys + size /\ x.len = r.len - size
<1>1. PICK a \in Nat, b \in Nat, c \in Nat \ {0} : a = r.virt /\ b = r.phys /\ c = r.len
  BY Zenon DEF Round
<1>2. size \in 1 .. c /\ c # size
  BY <1>1, Zenon DEF Round
<1>3. x = [virt |-> a + size, phys |-> b + size, len |-> c - size]
  BY <1>1, Zenon DEF Rest, Span
<1>4. (n = 1 => Half <= a /\ a + c <= Top) /\ (n # 1 => a + c <= Half)
  BY <1>1, Zenon DEF Round, Within
<1>5. /\ a + size \in Nat /\ b + size \in Nat /\ c - size \in Nat \ {0}
      /\ (a + size) + (c - size) = a + c
  BY <1>2
<1>6. n = 1 => Half <= a + size
  BY <1>2, <1>4, Layout
<1>7. x.virt = a + size /\ x.phys = b + size /\ x.len = c - size
  BY <1>3
<1>8. x \in [virt : Nat, phys : Nat, len : Nat \ {0}]
  BY <1>3, <1>5
<1> QED
  BY <1>1, <1>4, <1>5, <1>6, <1>7, <1>8, Zenon DEF Within

\* A round keeps Control.
LEMMA MapControl ==
  ASSUME PagingInv, NEW r, NEW n, NEW size, Round(r, n, size), Outcome(r, n, size),
         queue # <<>>, pc # "entries" => n # 1,
         UNCHANGED <<machine, images, pc, spaces, item, ring>>
  PROVE  Control'
<1>1. n = Len(spaces) /\ n \in DOMAIN spaces /\ spaces \in Seq(Nat)
  BY Zenon DEF Round, PagingInv, Control
<1>2. n # 1 => ~(Len(spaces) <= 1)
  BY <1>1
<1>3. ErrorOK'
  BY Zenon DEF Outcome, Rejected, Fine, ErrorOK
<1>4. asked' \in Seq(SUBSET (Pages \X Nat)) /\ Len(asked') = Len(spaces')
  <2>1. CASE asked' = [asked EXCEPT ![Len(asked)] = @ \cup NewPairs(r, size)]
    <3>1. MoreAsked(r, n, size)
      BY <2>1, AskedMore, Zenon
    <3> QED
      BY <3>1, Zenon DEF MoreAsked, PagingInv, Control
  <2>2. CASE asked' = asked
    BY <2>2, Zenon DEF PagingInv, Control
  <2> QED
    BY <2>1, <2>2, Zenon DEF Outcome
<1>5. /\ queue' \in Seq([virt : Nat, phys : Nat, len : Nat \ {0}])
      /\ \A k \in DOMAIN queue' : Within(queue'[k], Len(spaces'))
  <2>1. CASE Shorter(r, size)
    <3>1. r.len # size => Within(Rest(r, size), Len(spaces'))
      BY <1>1, RestWithin, Zenon
    <3>2. \A j \in DOMAIN queue : Within(queue[j], Len(spaces'))
      BY Zenon DEF PagingInv, Control
    <3> QED
      BY <2>1, <3>1, <3>2, Zenon DEF Shorter
  <2>2. CASE queue' = queue
    BY <2>2, Zenon DEF PagingInv, Control
  <2> QED
    BY <2>1, <2>2, QueueShorter, Zenon DEF Outcome
<1> QED
  BY <1>1, <1>2, <1>3, <1>4, <1>5, Zenon DEF PagingInv, Control

\* A round keeps the kernel's mappings in the upper half and in every space.
LEMMA MapShared ==
  ASSUME PagingInv, NEW r, NEW n, NEW size, Round(r, n, size), Outcome(r, n, size),
         UNCHANGED spaces
  PROVE  Shared' /\ High'
<1>1. n = Len(spaces) /\ n \in DOMAIN spaces /\ spaces \in Seq(Nat) /\ Within(r, n)
  BY Zenon DEF Round, PagingInv, Control
<1>2. 1 \in DOMAIN spaces /\ Len(spaces) > 0 /\ (n = 1 => \A i \in DOMAIN spaces : i = 1)
  BY <1>1
<1>3. CASE UNCHANGED asked
  BY <1>3, Zenon DEF PagingInv, Shared, High
<1>4. CASE asked' = [asked EXCEPT ![Len(asked)] = @ \cup NewPairs(r, size)]
  <2>1. /\ asked'[n] = asked[n] \cup NewPairs(r, size)
        /\ \A j \in DOMAIN spaces : j # n => asked'[j] = asked[j]
    <3>1. MoreAsked(r, n, size)
      BY <1>4, AskedMore, Zenon
    <3> QED
      BY <3>1, Zenon DEF MoreAsked
  <2>2. Shared'
    <3>1. \A i \in DOMAIN spaces : asked[1] \subseteq asked[i]
      BY Zenon DEF PagingInv, Shared
    <3>2. CASE n = 1
      BY <1>2, <3>2, Zenon DEF Shared
    <3>3. CASE n # 1
      BY <1>2, <2>1, <3>1, <3>3, Zenon DEF Shared
    <3> QED
      BY <3>2, <3>3, Zenon
  <2>3. High'
    <3>1. \A p \in asked[1] : p[1] >= Half
      BY <1>2, Zenon DEF PagingInv, High
    <3>2. CASE n = 1
      <4>1. PICK va \in Nat : va = r.virt /\ Half <= va
        BY <1>1, <3>2, Zenon DEF Within
      <4>2. Straight(NewPairs(r, size), va, r.phys, size)
        BY <4>1, Pairs, Zenon
      <4>3. ASSUME NEW p \in NewPairs(r, size)
            PROVE  p[1] >= Half
        <5>1. p[1] \in va .. va + size - 1 /\ size \in Nat
          BY <4>2, <4>3, Zenon DEF Straight
        <5> QED
          BY <4>1, <5>1, Layout
      <4> QED
        BY <2>1, <3>1, <3>2, <4>3, Zenon DEF High
    <3>3. CASE n # 1
      BY <1>2, <2>1, <3>1, <3>3, Zenon DEF High
    <3> QED
      BY <3>2, <3>3, Zenon
  <2> QED
    BY <2>2, <2>3, Zenon
<1> QED
  BY <1>3, <1>4, Zenon DEF Outcome

\* A page of a space is not taken for a table later.
LEMMA OwnKept ==
  ASSUME PagingInv, pc # "memmap", Later(bump, bump'), NewTables, UNCHANGED <<spaces, ring>>,
         NEW i \in DOMAIN spaces, NEW f \in Nat, Own(i, f)
  PROVE  Own(i, f)'
<1>1. CASE f = ring
  BY <1>1, Zenon DEF Own
<1>2. CASE f # ring
  <2>1. PICK y \in Nat, z \in Nat : /\ y = bump.cursor \div PAGE /\ z = bump'.cursor \div PAGE
                                    /\ y <= z
    BY Zenon DEF Later
  <2>2. /\ f \notin DOMAIN tables /\ spaces[i] < f
        /\ f < IF i = Len(spaces) THEN y ELSE spaces[i + 1]
    BY <1>2, <2>1, Zenon DEF Own
  <2>3. f < y
    <3>1. CASE i = Len(spaces)
      BY <2>2, <3>1, Zenon
    <3>2. CASE i # Len(spaces)
      <4>1. i + 1 \in DOMAIN spaces
        <5>1. spaces \in Seq(Nat)
          BY Zenon DEF PagingInv, Control
        <5> QED
          BY <3>2, <5>1
      <4>2. spaces[i + 1] \in Nat /\ spaces[i + 1] < y
        BY <2>1, <4>1, Below, Zenon
      <4>3. f < spaces[i + 1]
        BY <2>2, <3>2, Zenon
      <4> QED
        BY <4>2, <4>3
    <3> QED
      BY <3>1, <3>2, Zenon
  <2>4. f \notin DOMAIN tables'
    <3>1. \A g \in DOMAIN tables' \ DOMAIN tables : g \in Nat /\ g >= y
      BY <2>1, Zenon DEF NewTables
    <3>2. ASSUME NEW g \in Nat, g >= y
          PROVE  g # f
      BY <2>3, <3>2
    <3> QED
      BY <2>2, <3>1, <3>2, Zenon
  <2>5. f < z
    BY <2>1, <2>3
  <2> QED
    BY <2>1, <2>2, <2>4, <2>5, Zenon DEF Own
<1> QED
  BY <1>1, <1>2, Zenon

\* The frames of a range are numbers.
LEMMA QueueFrames ==
  ASSUME PagingInv, NEW j \in DOMAIN queue,
         NEW f \in queue[j].phys .. queue[j].phys + queue[j].len - 1
  PROVE  f \in Nat
<1>1. PICK R : R = [virt : Nat, phys : Nat, len : Nat \ {0}] /\ queue \in Seq(R)
  BY Zenon DEF PagingInv, Control
<1>2. PICK x \in R : x = queue[j]
  <2>1. ASSUME NEW q \in Seq(R), NEW i \in DOMAIN q
        PROVE  q[i] \in R
    OBVIOUS
  <2> QED
    BY <1>1, <2>1, Zenon
<1>3. PICK a \in Nat, b \in Nat : a = x.phys /\ b = x.len
  BY <1>1, Zenon
<1>4. f \in a .. a + b - 1
  BY <1>2, <1>3, Zenon
<1> QED
  BY <1>4

\* A round keeps what the courtlets own apart.
LEMMA MapOwned ==
  ASSUME PagingInv, Trees', pc # "memmap", pc' # "memmap", Later(bump, bump'), NewTables,
         UNCHANGED <<spaces, ring>>, queue # <<>>,
         NEW r, NEW n, NEW size, Round(r, n, size), Outcome(r, n, size)
  PROVE  Owned'
<1>1. n = Len(spaces) /\ n \in DOMAIN spaces
  BY Zenon DEF Round
<1>2. ring' \notin DOMAIN tables' /\ ring' \in {0} \cup Frames(bump'.start, bump'.cursor)
  <2>1. ring \notin DOMAIN tables /\ ring \in {0} \cup Frames(bump.start, bump.cursor)
    BY Zenon DEF PagingInv, Owned
  <2>2. 0 \notin DOMAIN tables'
    BY Zenon DEF Trees, Sound, Shaped
  <2>3. \A f \in DOMAIN tables' \ DOMAIN tables : f \notin Frames(bump.start, bump.cursor)
    <3>1. PICK x \in Nat, y \in Nat : x = bump.start \div PAGE /\ y = bump.cursor \div PAGE
      BY Below, Zenon
    <3>2. \A f \in Nat : f >= y => f \notin x .. y - 1
      OBVIOUS
    <3> QED
      BY <3>1, <3>2, Zenon DEF NewTables, Frames
  <2> QED
    BY <2>1, <2>2, <2>3, FramesLater, Zenon
<1>3. PICK va \in Nat, frame \in Nat, len \in Nat \ {0} :
        va = r.virt /\ frame = r.phys /\ len = r.len
  BY Zenon DEF Round
<1>4. Straight(NewPairs(r, size), va, frame, size)
  BY <1>3, Pairs, Zenon
<1>5. size \in 1 .. len
  BY <1>3, Zenon DEF Round
<1>6. ASSUME n > 1, NEW k \in DOMAIN queue,
             NEW f \in Nat, f \in queue[k].phys .. queue[k].phys + queue[k].len - 1
      PROVE  Own(n, f)'
  <2>1. Own(n, f)
    BY <1>1, <1>6, Zenon DEF PagingInv, Owned
  <2> QED
    BY <1>1, <2>1, OwnKept, Zenon
<1>7. ASSUME n > 1, NEW f \in frame .. frame + len - 1
      PROVE  Own(n, f)'
  <2>1. 1 \in DOMAIN queue /\ queue[1] = r
    <3>1. queue \in Seq([virt : Nat, phys : Nat, len : Nat \ {0}]) /\ r = Head(queue)
      BY Zenon DEF PagingInv, Control, Round
    <3> QED
      BY <3>1
  <2>2. f \in Nat
    BY <1>7
  <2> QED
    BY <1>3, <1>6, <1>7, <2>1, <2>2, Zenon
<1>8. ASSUME NEW i \in DOMAIN spaces, i > 1, NEW p \in asked[i], p[1] < Half
      PROVE  Own(i, p[2])'
  <2>1. PICK f \in Nat : f = p[2]
    BY <1>8, AskedPairs, Zenon
  <2>2. Own(i, f)
    BY <1>8, <2>1, Zenon DEF PagingInv, Owned
  <2>3. Own(i, f)'
    BY <2>2, OwnKept, Zenon
  <2> QED
    BY <2>1, <2>3, Zenon
<1>9. CASE asked' = asked /\ queue' = queue
  <2>1. \A i \in DOMAIN spaces' : i > 1 => \A p \in asked'[i] : p[1] < Half => Own(i, p[2])'
    BY <1>8, <1>9, Zenon
  <2>2. ASSUME Len(spaces') > 1, NEW k \in DOMAIN queue',
               NEW f \in queue'[k].phys .. queue'[k].phys + queue'[k].len - 1
        PROVE  Own(Len(spaces), f)'
    <3>1. f \in Nat
      BY <1>9, <2>2, QueueFrames, Zenon
    <3> QED
      BY <1>1, <1>6, <1>9, <2>2, <3>1, Zenon
  <2> QED
    BY <1>2, <2>1, <2>2, Zenon DEF Owned
<1>10. CASE /\ asked' = [asked EXCEPT ![Len(asked)] = @ \cup NewPairs(r, size)]
            /\ Shorter(r, size)
  <2>1. /\ asked'[n] = asked[n] \cup NewPairs(r, size)
        /\ \A j \in DOMAIN spaces : j # n => asked'[j] = asked[j]
    <3>1. asked' = [asked EXCEPT ![Len(asked)] = @ \cup NewPairs(r, size)]
      BY <1>10, Zenon
    <3>2. MoreAsked(r, n, size)
      BY <3>1, AskedMore, Zenon
    <3> QED
      BY <3>2, Zenon DEF MoreAsked
  <2>2. ASSUME n > 1, NEW p \in NewPairs(r, size)
        PROVE  Own(n, p[2])'
    <3>1. p[1] \in va .. va + size - 1 /\ p[2] = frame + (p[1] - va)
      BY <1>4, <2>2, Zenon DEF Straight
    <3>2. ASSUME NEW x \in va .. va + size - 1
          PROVE  frame + (x - va) \in frame .. frame + len - 1
      BY <1>5, <3>2
    <3>3. PICK f : f = p[2] /\ f \in frame .. frame + len - 1
      BY <3>1, <3>2, Zenon
    <3>4. Own(n, f)'
      BY <1>7, <2>2, <3>3, Zenon
    <3> QED
      BY <3>3, <3>4, Zenon
  <2>3. \A i \in DOMAIN spaces' : i > 1 => \A p \in asked'[i] : p[1] < Half => Own(i, p[2])'
    BY <1>8, <2>1, <2>2, Zenon
  <2>4. ASSUME n > 1, NEW k \in DOMAIN queue',
               NEW f \in queue'[k].phys .. queue'[k].phys + queue'[k].len - 1
        PROVE  Own(n, f)'
    <3>1. CASE queue'[k] = Rest(r, size) /\ r.len # size
      <4>1. queue'[k].phys = frame + size /\ queue'[k].len = len - size
        <5>1. PICK x : x = Rest(r, size)
          BY Zenon
        <5>2. x.phys = r.phys + size /\ x.len = r.len - size
          BY <3>1, <5>1, RestWithin
        <5> QED
          BY <1>3, <3>1, <5>1, <5>2, Zenon
      <4>2. f \in (frame + size) .. (frame + size) + (len - size) - 1
        BY <2>4, <4>1, Zenon
      <4>3. f \in frame .. frame + len - 1
        BY <1>5, <4>2
      <4> QED
        BY <1>7, <2>4, <4>3, Zenon
    <3>2. CASE \E j \in DOMAIN queue : queue'[k] = queue[j]
      <4>1. PICK j \in DOMAIN queue : queue'[k] = queue[j]
        BY <3>2, Zenon
      <4>2. f \in Nat
        BY <2>4, <4>1, QueueFrames, Zenon
      <4>3. f \in queue[j].phys .. queue[j].phys + queue[j].len - 1
        BY <2>4, <4>1, Zenon
      <4> QED
        BY <1>6, <2>4, <4>2, <4>3, Zenon
    <3> QED
      BY <1>10, <2>4, <3>1, <3>2, Zenon DEF Shorter
  <2>5. Len(spaces') = n
    BY <1>1, Zenon
  <2> QED
    BY <1>1, <1>2, <2>3, <2>4, <2>5, Zenon DEF Owned
<1> QED
  BY <1>9, <1>10, QueueShorter, Zenon DEF Outcome

\* A round keeps usable memory in the direct map or in the queue.
LEMMA MapDirect ==
  ASSUME PagingInv, NEW r, NEW n, NEW size, Round(r, n, size), Outcome(r, n, size),
         queue # <<>>, pc # "entries" => n # 1, UNCHANGED <<machine, pc, spaces, item>>
  PROVE  Direct'
<1>1. n = Len(spaces) /\ n \in DOMAIN spaces /\ spaces \in Seq(Nat)
  BY Zenon DEF Round, PagingInv, Control
<1>2. 1 \in DOMAIN spaces /\ Len(spaces) > 0
  BY <1>1
<1>3. CASE asked' = asked /\ queue' = queue
  BY <1>3, Zenon DEF PagingInv, Direct, Usable, WholePages, Queued
<1>4. CASE /\ asked' = [asked EXCEPT ![Len(asked)] = @ \cup NewPairs(r, size)]
           /\ Shorter(r, size)
  <2>1. asked'[1] = IF n = 1 THEN asked[1] \cup NewPairs(r, size) ELSE asked[1]
    <3>1. asked' = [asked EXCEPT ![Len(asked)] = @ \cup NewPairs(r, size)]
      BY <1>4, Zenon
    <3>2. MoreAsked(r, n, size)
      BY <3>1, AskedMore, Zenon
    <3> QED
      BY <1>2, <3>2, Zenon DEF MoreAsked
  <2>2. asked[1] \subseteq asked'[1]
    BY <2>1, Zenon
  <2>3. ASSUME NEW k \in DOMAIN machine.memmap, Usable(k), pc = "entries" => k < item,
               NEW f \in WholePages(k), <<machine.hhdm + f, f>> \notin asked'[1]
        PROVE  pc = "entries" /\ Queued(f)'
    <3>1. pc = "entries" /\ Queued(f)
      BY <1>2, <2>2, <2>3, Zenon DEF PagingInv, Direct
    <3>2. n = 1
      BY <1>1, <3>1, Zenon DEF PagingInv, Control
    <3>3. PICK j \in DOMAIN queue : /\ f \in queue[j].phys .. queue[j].phys + queue[j].len - 1
                                    /\ queue[j].virt = machine.hhdm + queue[j].phys
      BY <3>1, Zenon DEF Queued
    <3>4. CASE \E i \in DOMAIN queue' : queue'[i] = queue[j]
      <4>1. PICK i \in DOMAIN queue' : queue'[i] = queue[j]
        BY <3>4, Zenon
      <4>2. /\ f \in queue'[i].phys .. queue'[i].phys + queue'[i].len - 1
            /\ queue'[i].virt = machine.hhdm + queue'[i].phys
        BY <3>3, <4>1, Zenon
      <4> QED
        BY <3>1, <4>2, Zenon DEF Queued
    <3>5. CASE queue[j] = r
      <4>1. PICK va \in Nat, frame \in Nat, len \in Nat \ {0} :
              va = r.virt /\ frame = r.phys /\ len = r.len
        BY Zenon DEF Round
      <4>2. size \in 1 .. len
        BY <4>1, Zenon DEF Round
      <4>3. f \in frame .. frame + len - 1 /\ va = machine.hhdm + frame
        BY <3>3, <3>5, <4>1, Zenon
      <4>4. PICK hhdm \in Nat : hhdm = machine.hhdm
        BY MachineAssumption, Zenon DEF PagingInv, Control
      <4>5. va = hhdm + frame
        BY <4>3, <4>4, Zenon
      <4>6. f \notin frame .. frame + size - 1
        <5>1. ASSUME f \in frame .. frame + size - 1
              PROVE  FALSE
          <6>1. PICK vb : vb = hhdm + f
            BY Zenon
          <6>2. vb \in va .. va + size - 1 /\ frame + (vb - va) = f
            BY <4>2, <4>5, <5>1, <6>1
          <6>3. <<vb, f>> \in NewPairs(r, size)
            <7>1. Straight(NewPairs(r, size), va, frame, size)
              BY <4>1, Pairs, Zenon
            <7>2. <<vb, frame + (vb - va)>> \in NewPairs(r, size)
              BY <6>2, <7>1, Zenon DEF Straight
            <7> QED
              BY <6>2, <7>2, Zenon
          <6> QED
            BY <2>1, <2>3, <3>2, <4>4, <6>1, <6>3, Zenon
        <5> QED
          BY <5>1, Zenon
      <4>7. len # size /\ f \in (frame + size) .. (frame + size) + (len - size) - 1
        BY <4>2, <4>3, <4>6
      <4>8. PICK x : x = Rest(r, size)
        BY Zenon
      <4>9. x.virt = va + size /\ x.phys = frame + size /\ x.len = len - size
        <5>1. r.len # size
          BY <4>1, <4>7, Zenon
        <5>2. x.virt = r.virt + size /\ x.phys = r.phys + size /\ x.len = r.len - size
          BY <4>8, <5>1, RestWithin
        <5> QED
          BY <4>1, <5>2, Zenon
      <4>10. va + size = hhdm + (frame + size)
        BY <4>2, <4>5
      <4>11. PICK i \in DOMAIN queue' : queue'[i] = x
        BY <1>4, <4>1, <4>7, <4>8, Zenon DEF Shorter
      <4>12. /\ f \in x.phys .. x.phys + x.len - 1
             /\ x.virt = machine.hhdm + x.phys
        BY <4>4, <4>7, <4>9, <4>10, Zenon
      <4> QED
        BY <3>1, <4>11, <4>12, Zenon DEF Queued
    <3> QED
      BY <1>4, <3>4, <3>5, Zenon DEF Shorter
  <2> QED
    BY <2>3, Zenon DEF Direct, Usable, WholePages
<1> QED
  BY <1>3, <1>4, QueueShorter, Zenon DEF Outcome

\* What map_range refuses overlaps what is mapped.
LEMMA MapCollisions ==
  ASSUME PagingInv, NEW r, NEW n, NEW size, Round(r, n, size), Outcome(r, n, size)
  PROVE  Overlapping'
<1>1. CASE Fine'
  BY <1>1, Zenon DEF Fine, Overlapping
<1>2. CASE /\ Rejected(tables, spaces, n, r.virt, size, tables') /\ UNCHANGED <<queue, asked>>
           /\ error' \in {"collision", "conflict"}
  <2>1. PICK vb \in r.virt .. r.virt + size - 1 : Walk(tables, spaces[n], vb) # -1
    <3>1. error' # "memory"
      BY <1>2, Zenon
    <3> QED
      BY <1>2, <3>1, Zenon DEF Rejected
  <2>2. vb \in Pages
    <3>1. PICK va \in Nat : va = r.virt
      BY Zenon DEF Round
    <3>2. size \in Nat
      BY DEF Round
    <3>3. vb - va \in 0 .. size - 1 /\ va + (vb - va) = vb
      BY <2>1, <3>1, <3>2
    <3> QED
      BY <3>1, <3>3, Zenon DEF Round
  <2>3. n \in DOMAIN spaces /\ n = Len(asked) /\ r = Head(queue)
    BY Zenon DEF Round, PagingInv, Control
  <2>4. Mapped(tables, spaces[n], asked[n])
    BY <2>3, Zenon DEF PagingInv, Mapping
  <2>5. PICK p \in asked[n] : p = <<vb, Walk(tables, spaces[n], vb)>>
    BY <2>1, <2>2, <2>4, Zenon DEF Mapped
  <2>6. p[1] = vb
    BY <2>5, Zenon
  <2>7. \E q \in asked[Len(asked)] : q[1] \in r.virt .. r.virt + size - 1
    BY <2>1, <2>3, <2>5, <2>6, Zenon
  <2>8. PICK k : k = (IF IsLarge(r) THEN HUGE ELSE 1) /\ k = size
    BY Zenon DEF Round
  <2>9. \E q \in asked[Len(asked)] : q[1] \in r.virt .. r.virt + (IF IsLarge(r) THEN HUGE ELSE 1) - 1
    BY <2>7, <2>8, Zenon
  <2> QED
    BY <1>2, <2>3, <2>9, Zenon DEF Overlapping
<1>3. CASE error' \notin {"collision", "conflict"}
  BY <1>3, Zenon DEF Overlapping
<1> QED
  BY <1>1, <1>2, <1>3, Zenon DEF Outcome

\* map_range keeps the invariant.
LEMMA MappingRange ==
  ASSUME PagingInv, map_range
  PROVE  PagingInv'
<1>1. PICK r : r = Head(queue)
  BY Zenon
<1>2. PICK n, size : n = Len(spaces) /\ size = IF IsLarge(r) THEN HUGE ELSE 1
  BY Zenon
<1>3. /\ Round(r, n, size) /\ Outcome(r, n, size) /\ NewTables /\ Later(bump, bump') /\ Trees'
      /\ pc # "memmap" /\ (pc # "entries" => n # 1)
      /\ UNCHANGED <<machine, images, pc, spaces, item, ring>>
  BY <1>1, <1>2, MapOutcome, Zenon
<1>4. queue # <<>>
  BY Zenon DEF map_range
<1>5. Control'
  BY <1>3, <1>4, MapControl, Zenon
<1>6. Mapping'
  BY <1>3, MapMapping, Zenon
<1>7. Shared' /\ High'
  BY <1>3, MapShared, Zenon
<1>8. Owned'
  BY <1>3, <1>4, MapOwned, Zenon
<1>9. InMemory'
  BY <1>3, Zenon DEF PagingInv, InMemory, Usable, WholePages, Later
<1>10. Direct'
  BY <1>3, <1>4, MapDirect, Zenon
<1>11. Overlapping'
  BY <1>3, MapCollisions, Zenon
<1> QED
  BY <1>3, <1>5, <1>6, <1>7, <1>8, <1>9, <1>10, <1>11, Zenon DEF PagingInv

-----------------------------------------------------------------------------
\* The invariant holds.

\* It holds when the kernel starts.
LEMMA InitInv == Init => PagingInv
<1> SUFFICES ASSUME Init PROVE PagingInv
  BY Zenon
<1>1. Fine /\ ErrorOK /\ Overlapping
  BY Zenon DEF Init, Fine, ErrorOK, Overlapping
<1>2. /\ machine \in Machines /\ images \in Images /\ pc = "memmap" /\ item = 1 /\ ring = 0
      /\ spaces = <<>> /\ queue = <<>> /\ asked = <<>> /\ bump = [start |-> 0, cursor |-> 0, end |-> 0]
      /\ tables = [f \in {} |-> EmptyTable]
  BY Zenon DEF Init
<1>3. Control
  BY <1>1, <1>2 DEF Control
<1>4. Trees
  BY <1>2, Zenon DEF Trees
<1>5. Mapping /\ Shared /\ High /\ InMemory /\ Direct
  BY <1>2 DEF Mapping, Shared, High, InMemory, Direct
<1>6. Owned
  BY <1>2 DEF Owned
<1> QED
  BY <1>1, <1>3, <1>4, <1>5, <1>6, Zenon DEF PagingInv

\* Every step keeps it.
LEMMA NextInv == PagingInv /\ [Next]_vars => PagingInv'
<1> SUFFICES ASSUME PagingInv, [Next]_vars PROVE PagingInv'
  BY Zenon
<1>1. CASE UNCHANGED vars
  <2>1. Control'
    BY <1>1, Zenon DEF vars, PagingInv, Control, ErrorOK
  <2>2. Trees' /\ Mapping' /\ Shared' /\ High'
    BY <1>1, Zenon DEF vars, PagingInv, Trees, Fine, Mapping, Shared, High
  <2>3. Owned' /\ InMemory' /\ Direct' /\ Overlapping'
    BY <1>1, Zenon DEF vars, PagingInv, Owned, Own, InMemory, Direct, Usable, WholePages, Queued,
                       Overlapping
  <2> QED
    BY <2>1, <2>2, <2>3, Zenon DEF PagingInv
<1>2. CASE Next
  BY <1>1, <1>2, FirstStep, Building, BuildingEntry, MappingRange, Activating, MakingRing, Cloning,
     Loading, Spawning, Zenon DEF Next, Halted
<1> QED
  BY <1>1, <1>2, Zenon

\* In every reachable state of the bring-up the tables form trees, each space
\* translates what was asked for, and every page has one owner.
THEOREM Bringup == Spec => []PagingInv
<1> QED
  BY InitInv, NextInv, PTL DEF Spec

\* There are at most the kernel's space and those of two courtlets.
LEMMA SpaceCount ==
  ASSUME PagingInv
  PROVE  Len(spaces) \in 0 .. 3
<1>1. \/ Len(spaces) = 0 \/ Len(spaces) = 1 \/ Len(spaces) = 3
      \/ Len(spaces) \in 1 .. 2 \/ Len(spaces) \in 2 .. 3
  BY Zenon DEF PagingInv, Control
<1>2. \A k : k = 0 \/ k = 1 \/ k = 3 \/ k \in 1 .. 2 \/ k \in 2 .. 3 => k \in 0 .. 3
  OBVIOUS
<1> QED
  BY <1>1, <1>2, Zenon

\* TypeOK holds: mm.rs stays in its region and off page zero, and page tables
\* and the ring are pages it handed out.
THEOREM Types == Spec => []TypeOK
<1>1. PagingInv => TypeOK
  <2> SUFFICES ASSUME PagingInv PROVE TypeOK
    BY Zenon
  <2>1. /\ machine \in Machines /\ images \in Images
        /\ pc \in {"memmap", "build", "entries", "ring", "clone", "load", "demo"}
        /\ error \in {"", "region", "memory", "collision", "conflict", "half", "entry"}
        /\ Len(asked) = Len(spaces)
    BY Zenon DEF PagingInv, Control, ErrorOK
  <2>2. Len(spaces) \in 0 .. 3
    BY SpaceCount, Zenon
  <2>3. ring \in {0} \cup Frames(bump.start, bump.cursor)
    BY Zenon DEF PagingInv, Owned
  <2>4. CASE pc # "memmap"
    <3>1. BumpOK(bump)
      BY <2>4, Below, Zenon
    <3>2. /\ bump.start <= bump.cursor /\ bump.cursor <= bump.end /\ bump.start >= PAGE
      BY <3>1, PagingAssumption, Zenon DEF BumpOK
    <3>3. /\ DOMAIN tables \subseteq Frames(bump.start, bump.cursor)
          /\ \A i \in DOMAIN spaces : spaces[i] \in DOMAIN tables
      BY <2>4, Below, Zenon
    <3> QED
      BY <2>1, <2>2, <2>3, <3>2, <3>3, Zenon DEF TypeOK
  <2>5. CASE pc = "memmap"
    <3>1. /\ tables = [f \in {} |-> EmptyTable] /\ bump = [start |-> 0, cursor |-> 0, end |-> 0]
          /\ spaces \in Seq(Nat) /\ Len(spaces) = 0
      BY <2>5, Zenon DEF PagingInv, Trees, Control
    <3>2. bump.start <= bump.cursor /\ bump.cursor <= bump.end /\ DOMAIN tables = {} /\ DOMAIN spaces = {}
      BY <3>1
    <3> QED
      BY <2>1, <2>2, <2>3, <2>5, <3>2, Zenon DEF TypeOK
  <2> QED
    BY <2>4, <2>5, Zenon
<1> QED
  BY <1>1, Bringup, PTL

\* MappedAsAsked holds: in every space the unit translates exactly what
\* map_4k and map_2m were asked to map there.
THEOREM Mapped_as_asked == Spec => []MappedAsAsked
<1>1. PagingInv => MappedAsAsked
  <2> SUFFICES ASSUME PagingInv, NEW i \in DOMAIN spaces, NEW va \in Pages
               PROVE  Translate(spaces[i], va) =
                        IF \E p \in asked[i] : p[1] = va
                        THEN (CHOOSE p \in asked[i] : p[1] = va)[2] ELSE -1
    BY Zenon DEF MappedAsAsked
  <2>1. Mapped(tables, spaces[i], asked[i])
    BY Zenon DEF PagingInv, Mapping
  <2>2. CASE \E p \in asked[i] : p[1] = va
    <3>1. PICK q : q = CHOOSE p \in asked[i] : p[1] = va
      BY Zenon
    <3>2. q \in asked[i] /\ q[1] = va
      BY <2>2, <3>1, Zenon
    <3>3. Walk(tables, spaces[i], va) = q[2]
      BY <2>1, <3>2, Zenon DEF Mapped
    <3> QED
      BY <2>2, <3>1, <3>3, Zenon DEF Translate
  <2>3. CASE ~\E p \in asked[i] : p[1] = va
    <3>1. ASSUME NEW w, <<va, w>> \in asked[i]
          PROVE  FALSE
      <4>1. <<va, w>>[1] = va
        BY Zenon
      <4> QED
        BY <2>3, <3>1, <4>1, Zenon
    <3>2. Walk(tables, spaces[i], va) = -1
      BY <2>1, <3>1, Zenon DEF Mapped
    <3> QED
      BY <2>3, <3>2, Zenon DEF Translate
  <2> QED
    BY <2>2, <2>3, Zenon
<1> QED
  BY <1>1, Bringup, PTL

\* AllocatedReachable holds: on the kernel's tables and on each courtlet's,
\* what mm.rs handed out is found through the direct map.
THEOREM Reachable == Spec => []AllocatedReachable
<1>1. PagingInv => AllocatedReachable
  <2> SUFFICES ASSUME PagingInv, pc \in {"ring", "clone", "load", "demo"},
                      NEW i \in DOMAIN spaces, NEW f \in Frames(bump.start, bump.cursor)
               PROVE  Translate(spaces[i], machine.hhdm + f) = f
    BY Zenon DEF AllocatedReachable
  <2>1. pc # "memmap" /\ pc # "entries"
    BY Zenon
  <2>2. f \in Frames(bump.start, bump.end)
    <3>1. PICK x \in Nat, y \in Nat, z \in Nat :
            x = bump.start /\ y = bump.cursor /\ z = bump.end /\ y <= z
      BY <2>1, Below, Zenon DEF BumpOK
    <3>2. x \div PAGE \in Nat /\ y \div PAGE \in Nat /\ z \div PAGE \in Nat /\ y \div PAGE <= z \div PAGE
      BY <3>1, PagingAssumption, SMT
    <3>3. Frames(x, y) \subseteq Frames(x, z)
      BY <3>2 DEF Frames
    <3> QED
      BY <3>1, <3>3, Zenon
  <2>3. PICK k \in DOMAIN machine.memmap : Usable(k) /\ f \in WholePages(k)
    BY <2>1, <2>2, Zenon DEF PagingInv, InMemory
  <2>4. Len(spaces) > 0
    <3>1. spaces \in Seq(Nat)
      BY Zenon DEF PagingInv, Control
    <3> QED
      BY <3>1
  <2>5. <<machine.hhdm + f, f>> \in asked[1]
    BY <2>1, <2>3, <2>4, Zenon DEF PagingInv, Direct
  <2>6. <<machine.hhdm + f, f>> \in asked[i]
    BY <2>5, Zenon DEF PagingInv, Shared
  <2>7. \A p \in asked[i] : Walk(tables, spaces[i], p[1]) = p[2]
    BY Zenon DEF PagingInv, Mapping, Mapped
  <2>8. <<machine.hhdm + f, f>>[1] = machine.hhdm + f /\ <<machine.hhdm + f, f>>[2] = f
    BY Zenon
  <2> QED
    BY <2>6, <2>7, <2>8, Zenon DEF Translate
<1> QED
  BY <1>1, Bringup, PTL

\* What a courtlet finds in its lower half is its own.
LEMMA LowOwn ==
  ASSUME PagingInv, NEW i \in 2 .. Len(spaces), NEW f \in LowFrames(spaces[i])
  PROVE  i \in DOMAIN spaces /\ f \in Nat /\ Own(i, f)
<1>1. PICK va \in 0 .. Half - 1 : f = Walk(tables, spaces[i], va) /\ f # -1
  BY Zenon DEF LowFrames, Translate
<1>2. va \in Pages /\ va < Half
  BY Halves DEF Pages
<1>3. spaces \in Seq(Nat) /\ asked \in Seq(SUBSET (Pages \X Nat)) /\ Len(asked) = Len(spaces)
  BY Zenon DEF PagingInv, Control
<1>4. i \in DOMAIN spaces /\ i > 1
  BY <1>3
<1>5. <<va, f>> \in asked[i]
  BY <1>1, <1>2, <1>4, Zenon DEF PagingInv, Mapping, Mapped
<1>6. asked[i] \in SUBSET (Pages \X Nat)
  BY <1>3, <1>4
<1>7. f \in Nat /\ <<va, f>>[1] = va /\ <<va, f>>[2] = f
  BY <1>5, <1>6, Zenon
<1>8. Own(i, f)
  BY <1>2, <1>4, <1>5, <1>7, Zenon DEF PagingInv, Owned
<1> QED
  BY <1>4, <1>7, <1>8, Zenon

\* CourtletsShareOnlyRing holds: two courtlets share the ring in their lower
\* halves and nothing else, and neither finds a page table there.
THEOREM OnlyRing == Spec => []CourtletsShareOnlyRing
<1>1. PagingInv => CourtletsShareOnlyRing
  <2> SUFFICES ASSUME PagingInv, NEW i \in 2 .. Len(spaces), NEW f \in LowFrames(spaces[i])
               PROVE  /\ f \notin DOMAIN tables
                      /\ \A j \in 2 .. Len(spaces) : i # j /\ f \in LowFrames(spaces[j]) => f = ring
    BY Zenon DEF CourtletsShareOnlyRing
  <2>1. i \in DOMAIN spaces /\ f \in Nat /\ Own(i, f)
    BY LowOwn, Zenon
  <2>2. f \notin DOMAIN tables
    BY <2>1, Zenon DEF PagingInv, Owned, Own
  <2>3. ASSUME NEW j \in 2 .. Len(spaces), i # j, f \in LowFrames(spaces[j]), f # ring
        PROVE  FALSE
    <3>1. j \in DOMAIN spaces /\ Own(j, f)
      BY <2>3, LowOwn, Zenon
    <3>2. spaces \in Seq(Nat)
      BY Zenon DEF PagingInv, Control
    <3>3. Len(spaces) \in 0 .. 3
      BY SpaceCount, Zenon
    <3>4. PICK a \in 2 .. 2, b \in 3 .. 3 : Own(a, f) /\ Own(b, f) /\ Len(spaces) = 3
      BY <2>1, <2>3, <3>1, <3>2, <3>3
    <3>5. /\ spaces[a] < f /\ f < (IF a = Len(spaces) THEN bump.cursor \div PAGE ELSE spaces[a + 1])
          /\ spaces[b] < f
      BY <2>3, <3>4, Zenon DEF Own
    <3>6. a # 3 /\ a + 1 = b /\ b \in DOMAIN spaces
      BY <3>2, <3>4
    <3>7. spaces[b] \in Nat
      BY <3>2, <3>6
    <3>8. f < spaces[b]
      BY <3>4, <3>5, <3>6, Zenon
    <3> QED
      BY <2>1, <3>5, <3>7, <3>8
  <2> QED
    BY <2>2, <2>3, Zenon
<1> QED
  BY <1>1, Bringup, PTL

-----------------------------------------------------------------------------
\* What is in a courtlet's way.

\* The segments mapped in full, and the pages the queue is about.
Before == {k \in DOMAIN Image.segments : pc = "load" => k < item - 1}
Passed == UNION {SegmentVAs(Image.segments[k]) : k \in Before}
Area ==
  IF pc # "load" THEN LayoutVAs
  ELSE IF item - 1 \in DOMAIN Image.segments THEN SegmentVAs(Image.segments[item - 1]) ELSE {}

\* The lower half of the last courtlet has earlier segments and what the queue
\* has passed; the queue stays in its area and in order.
Placed ==
  Len(spaces) > 1 =>
    /\ \A p \in asked[Len(spaces)] : p[1] < Half =>
         p[1] \in Passed \/ (p[1] \in Area /\ \A k \in DOMAIN queue : p[1] < queue[k].virt)
    /\ \A k \in DOMAIN queue : RangeVAs(queue[k]) \subseteq Area
    /\ Ordered(queue)

\* A refusal in a courtlet's space is the image's fault.
Clash == error \in {"collision", "conflict"}
Blamed == Clash /\ Len(spaces) > 1 => ImageOverlaps

\* A round in a courtlet's space.
LowRound(r, n, size) ==
  /\ Round(r, n, size) /\ Outcome(r, n, size) /\ queue # <<>> /\ n > 1
  /\ UNCHANGED <<machine, images, pc, spaces, item, ring>>

\* A round keeps Placed: it goes on where the queue is.
LEMMA MapPlaced ==
  ASSUME PagingInv, Placed, NEW r, NEW n, NEW size, LowRound(r, n, size)
  PROVE  Placed'
<1>0. Round(r, n, size) /\ Outcome(r, n, size) /\ queue # <<>> /\ n > 1 /\ UNCHANGED <<images, pc, spaces, item>>
  BY Zenon DEF LowRound
<1>1. PICK A, B : A = Area /\ B = Passed /\ A = Area' /\ B = Passed'
  <2>1. Image' = Image /\ pc' = pc /\ item' = item
    BY <1>0, Zenon DEF Image
  <2>2. Area' = Area
    BY <2>1, Zenon DEF Area
  <2>3. Passed' = Passed
    BY <2>1, Zenon DEF Passed, Before
  <2> QED
    BY <2>2, <2>3, Zenon
<1>2. /\ \A p \in asked[n] : p[1] < Half => p[1] \in B \/ (p[1] \in A /\ \A k \in DOMAIN queue : p[1] < queue[k].virt)
      /\ \A k \in DOMAIN queue : RangeVAs(queue[k]) \subseteq A
      /\ Ordered(queue) /\ n = Len(spaces)
  BY <1>0, <1>1, Zenon DEF Placed, Round
<1>3. CASE UNCHANGED <<queue, asked>>
  BY <1>0, <1>1, <1>2, <1>3, Zenon DEF Placed
<1>4. CASE /\ queue' = (IF r.len - size = 0 THEN <<>> ELSE <<Span(r.virt + size, r.phys + size, r.len - size)>>)
                       \o Tail(queue)
           /\ asked' = [asked EXCEPT ![Len(asked)] = @ \cup NewPairs(r, size)]
  <2>1. PICK w : w = queue'
    BY Zenon
  <2>2. queue \in Seq([virt : Nat, phys : Nat, len : Nat \ {0}]) /\ r = Head(queue) /\ size \in 1 .. r.len
    BY <1>0, Zenon DEF PagingInv, Control, Round
  <2>3. Cut(queue, r, size, w, A)
    BY <1>0, <1>2, <1>4, <2>1, <2>2, Zenon DEF Cut
  <2>4. /\ Ordered(w)
        /\ \A k \in DOMAIN w : w[k].virt \in Nat /\ r.virt + size <= w[k].virt /\ RangeVAs(w[k]) \subseteq A
    BY <2>3, RestOrdered, Zenon
  <2>5. 1 \in DOMAIN queue /\ queue[1] = r
    BY <1>0, <2>2, TailAt, Zenon
  <2>6. PICK a \in Nat, c \in Nat \ {0} : a = r.virt /\ c = r.len
    BY <1>0, Zenon DEF Round
  <2>7. asked'[n] = asked[n] \cup NewPairs(r, size)
    BY <1>0, <1>4, AskedMore, Zenon DEF MoreAsked
  <2>8. size \in 1 .. c /\ RangeVAs(r) = a .. a + c - 1
    BY <2>2, <2>6, Zenon DEF RangeVAs
  <2>9. ASSUME NEW p \in NewPairs(r, size)
        PROVE  p[1] \in A /\ \A k \in DOMAIN w : p[1] < w[k].virt
    <3>1. PICK i \in 0 .. size - 1 : p[1] = a + i
      <4>1. PICK i \in 0 .. size - 1 : p = <<r.virt + i, r.phys + i>>
        BY <2>9, Zenon DEF NewPairs
      <4>2. p[1] = r.virt + i
        BY <4>1, Zenon
      <4> QED
        BY <2>6, <4>2, Zenon
    <3>2. a + i \in a .. a + c - 1 /\ \A y \in Nat : a + size <= y => a + i < y
      BY <2>8
    <3>3. RangeVAs(r) \subseteq A
      BY <1>2, <2>5, Zenon
    <3> QED
      BY <2>4, <2>6, <2>8, <3>1, <3>2, <3>3, Zenon
  <2>10. ASSUME NEW p \in asked[n], p[1] < Half, p[1] \notin B
         PROVE  p[1] \in A /\ \A k \in DOMAIN w : p[1] < w[k].virt
    <3>1. PICK x \in Nat : x = p[1]
      BY <1>0, <2>10, AskedPairs, Zenon DEF Round, Pages
    <3>2. x \in A /\ x < a
      BY <1>2, <2>5, <2>6, <2>10, <3>1, Zenon
    <3>3. \A y \in Nat : a + size <= y => x < y
      BY <2>8, <3>2
    <3> QED
      BY <2>4, <2>6, <3>1, <3>2, <3>3, Zenon
  <2> QED
    BY <1>0, <1>1, <1>2, <2>1, <2>4, <2>7, <2>9, <2>10, Zenon DEF Placed
<1> QED
  BY <1>0, <1>3, <1>4, Zenon DEF Outcome

\* Where a round is refused, an earlier segment or the layout is in the way of
\* the image, or of itself.
LEMMA Blaming ==
  ASSUME PagingInv, Placed, NEW r, NEW n, NEW size, LowRound(r, n, size), Clash'
  PROVE  ImageOverlaps'
<1>0. Round(r, n, size) /\ Outcome(r, n, size) /\ queue # <<>> /\ n > 1 /\ UNCHANGED <<images, pc, spaces, item>>
  BY Zenon DEF LowRound
<1>1. UNCHANGED <<queue, asked>> /\ Overlapping'
  <2>1. ~Fine'
    BY Zenon DEF Fine, Clash
  <2> QED
    BY <1>0, <2>1, MapCollisions, Zenon DEF Outcome
<1>2. r = Head(queue) /\ n = Len(spaces) /\ n = Len(asked) /\ size = IF IsLarge(r) THEN HUGE ELSE 1
  BY <1>0, Zenon DEF Round, PagingInv, Control
<1>3. PICK p \in asked[n] : p[1] \in r.virt .. r.virt + size - 1
  BY <1>1, <1>2, Zenon DEF Overlapping, Clash
<1>4. PICK a \in Nat, c \in Nat \ {0} : a = r.virt /\ c = r.len
  BY <1>0, Zenon DEF Round
<1>5. size \in 1 .. c /\ a + c <= Half
  <2>1. n # 1
    BY <1>0
  <2> QED
    BY <1>0, <1>4, <2>1, Zenon DEF Round, Within
<1>6. PICK x : x = p[1]
  BY Zenon
<1>7. x \in Nat /\ a <= x /\ x <= a + size - 1
  <2>1. x \in a .. a + size - 1
    BY <1>3, <1>4, <1>6, Zenon
  <2> QED
    BY <1>5, <2>1
<1>8. x \in a .. a + c - 1 /\ x < Half /\ ~(x < a)
  BY <1>5, <1>7, Layout
<1>9. 1 \in DOMAIN queue /\ queue[1] = r
  <2>1. queue \in Seq([virt : Nat, phys : Nat, len : Nat \ {0}])
    BY Zenon DEF PagingInv, Control
  <2> QED
    BY <1>0, <1>2, <2>1, TailAt, Zenon
<1>10. x \in Area
  <2>1. RangeVAs(r) \subseteq Area
    BY <1>0, <1>2, <1>9, Zenon DEF Placed
  <2> QED
    BY <1>4, <1>8, <2>1, Zenon DEF RangeVAs
<1>11. PICK k \in DOMAIN Image.segments :
         x \in SegmentVAs(Image.segments[k]) /\ (pc = "load" => k < item - 1)
  <2>1. x \in Passed
    BY <1>0, <1>2, <1>3, <1>4, <1>6, <1>8, <1>9, Zenon DEF Placed
  <2> QED
    BY <2>1, Zenon DEF Passed, Before
<1>12. ImageOverlaps
  <2>1. CASE pc = "load"
    <3>1. item - 1 \in DOMAIN Image.segments /\ x \in SegmentVAs(Image.segments[item - 1])
      BY <1>10, <2>1, Zenon DEF Area
    <3>2. k # item - 1
      <4>1. item - 1 \in Int
        <5>1. item \in Nat
          BY Zenon DEF PagingInv, Control
        <5> QED
          BY <5>1
      <4> QED
        BY <1>11, <2>1, <4>1
    <3> QED
      BY <1>11, <3>1, <3>2, Zenon DEF ImageOverlaps
  <2>2. CASE pc # "load"
    BY <1>10, <1>11, <2>2, Zenon DEF Area, ImageOverlaps
  <2> QED
    BY <2>1, <2>2, Zenon
<1> QED
  BY <1>0, <1>12, Zenon DEF ImageOverlaps, Image

\* Segments already loaded begin in the lower half, and so do the entries of
\* the courtlets already spawned.
InHalf ==
  Len(spaces) > 1 => \A k \in DOMAIN Image.segments :
    (pc = "load" => k < item) => Image.segments[k].vaddr \div PAGE < Half
Spawned(i) == i + 1 < Len(spaces) \/ (i + 1 = Len(spaces) /\ pc # "load")
Entered == \A i \in 1 .. 2 : Spawned(i) => images[i].entry \div PAGE < Half

Placement == Placed /\ Blamed /\ InHalf /\ Entered

\* The image of the last courtlet, as ImageAssumption has it.
LEMMA ImageShape ==
  ASSUME images \in Images, Len(spaces) \in 2 .. 3
  PROVE  /\ Image.segments \in Seq([vaddr : Nat, memsz : Nat \ {0}]) /\ Image.entry \in Nat
         /\ \A k \in DOMAIN Image.segments :
              /\ Image.segments[k] \in [vaddr : Nat, memsz : Nat \ {0}]
              /\ Image.segments[k].vaddr \div PAGE < Half =>
                   Image.segments[k].vaddr \div PAGE + SegmentPages(Image.segments[k]) <= Half
<1>1. PICK n \in 1 .. 2 : Image = images[n]
  <2>1. Len(spaces) - 1 \in 1 .. 2
    OBVIOUS
  <2> QED
    BY <2>1, Zenon DEF Image
<1>2. PICK segments, S : /\ segments = Image.segments /\ segments \in Seq(S)
                         /\ S = [vaddr : Nat, memsz : Nat \ {0}]
  BY <1>1, ImageAssumption, Zenon
<1>3. \A k \in DOMAIN segments : segments[k] \in S
  <2>1. ASSUME NEW q \in Seq(S)
        PROVE  \A k \in DOMAIN q : q[k] \in S
    BY <2>1
  <2> QED
    BY <1>2, <2>1, Zenon
<1>4. /\ Image.entry \in Nat
      /\ \A k \in DOMAIN Image.segments :
           Image.segments[k].vaddr \div PAGE < Half =>
             Image.segments[k].vaddr \div PAGE + SegmentPages(Image.segments[k]) <= Half
  BY <1>1, ImageAssumption, Zenon
<1> QED
  BY <1>2, <1>3, <1>4, Zenon

\* image::load keeps Placed: the segment before is mapped, and the queue is
\* about the next one.
LEMMA LoadPlaced ==
  ASSUME PagingInv, Placed, InHalf, load, Fine'
  PROVE  Placed' /\ InHalf'
<1>1. pc = "load" /\ queue = <<>> /\ item <= Len(Image.segments)
  BY Zenon DEF load, Running
<1>2. PICK s, pages : s = Image.segments[item] /\ pages = SegmentPages(s)
  BY Zenon
<1>3. PICK first : first = s.vaddr \div PAGE
  BY Zenon
<1>4. PICK r : /\ r = Span(first, FirstFrame(bump), pages) /\ queue' = <<r>> /\ item' = item + 1
               /\ ~(first >= Half) /\ UNCHANGED <<images, pc, spaces, asked>>
  BY <1>2, <1>3, Zenon DEF load, Fail, Fine
<1>5. images \in Images /\ Len(spaces) \in 2 .. 3 /\ item \in Nat \ {0}
  BY <1>1, Zenon DEF PagingInv, Control
<1>6. Image' = Image /\ Len(spaces) > 1
  <2>1. \A k \in 2 .. 3 : k > 1
    OBVIOUS
  <2> QED
    BY <1>4, <1>5, <2>1, Zenon DEF Image
<1>7. DOMAIN Image.segments \subseteq Nat \ {0} /\ item \in DOMAIN Image.segments
  <2>1. PICK q, S : q = Image.segments /\ q \in Seq(S)
    BY <1>5, ImageShape, Zenon
  <2>2. DOMAIN q \subseteq Nat \ {0} /\ item \in DOMAIN q
    BY <1>1, <1>5, <2>1
  <2> QED
    BY <2>1, <2>2, Zenon
<1>8. /\ item' - 1 = item /\ item - 1 < item
      /\ \A k \in Nat : (k < item - 1 => k < item) /\ (k < item + 1 /\ k # item => k < item)
  BY <1>4, <1>5
<1>9. first \in Nat /\ first < Half
  <2>1. first \in Nat
    BY <1>1, <1>2, <1>3, <1>5, Segment, Zenon
  <2> QED
    BY <1>4, <2>1, Layout
<1>10. InHalf'
  BY <1>2, <1>3, <1>4, <1>6, <1>7, <1>8, <1>9, Zenon DEF InHalf
<1>11. Area' = SegmentVAs(s)
  BY <1>1, <1>2, <1>4, <1>6, <1>7, <1>8, Zenon DEF Area
<1>12. Passed \subseteq Passed' /\ Area \subseteq Passed'
  <2>1. Before' = {k \in DOMAIN Image.segments : k < item}
    BY <1>1, <1>4, <1>6, <1>8, Zenon DEF Before
  <2>2. Before \subseteq Before' /\ (item - 1 \in DOMAIN Image.segments => item - 1 \in Before')
    BY <1>1, <1>7, <1>8, <2>1, Zenon DEF Before
  <2>3. Passed' = UNION {SegmentVAs(Image.segments[k]) : k \in Before'}
    BY <1>6, Zenon DEF Passed
  <2>4. Passed \subseteq Passed'
    BY <2>2, <2>3, Zenon DEF Passed
  <2>5. Area \subseteq Passed'
    BY <1>1, <2>2, <2>3, Zenon DEF Area
  <2> QED
    BY <2>4, <2>5, Zenon
<1>13. RangeVAs(r) = SegmentVAs(s)
  <2>1. r.virt = first /\ r.len = pages
    BY <1>4, Zenon DEF Span
  <2> QED
    BY <1>2, <1>3, <2>1, Zenon DEF RangeVAs, SegmentVAs
<1>14. \A k \in DOMAIN queue' : k = 1 /\ queue'[k] = r
  BY <1>4
<1>15. Ordered(queue')
  <2>1. ~(1 < 1)
    OBVIOUS
  <2> QED
    BY <1>14, <2>1, Zenon DEF Ordered
<1>16. \A k \in DOMAIN queue' : RangeVAs(queue'[k]) \subseteq Area'
  BY <1>11, <1>13, <1>14, Zenon
<1>17. \A p \in asked'[Len(spaces')] : p[1] < Half => p[1] \in Passed'
  BY <1>4, <1>6, <1>12, Zenon DEF Placed
<1> QED
  BY <1>10, <1>15, <1>16, <1>17, Zenon DEF Placed

\* The layout of a courtlet is in ascending order.
LEMMA LayoutOrder ==
  /\ BOOT_VA + 1 <= RING_VA /\ RING_VA + 1 <= STACK_VA /\ BOOT_VA + 1 <= STACK_VA
  /\ BOOT_VA .. BOOT_VA + 1 - 1 \subseteq LayoutVAs /\ RING_VA .. RING_VA + 1 - 1 \subseteq LayoutVAs
  /\ STACK_VA .. STACK_VA + STACK_PAGES - 1 \subseteq LayoutVAs
<1>1. PICK h \in Nat : h = Radix \div 2 /\ h >= 1 /\ Radix = 2 * h
  <2>1. Radix \div 2 \in Nat /\ Radix = 2 * (Radix \div 2) /\ Radix \div 2 >= 1
    BY PagingAssumption
  <2> QED
    BY <2>1, Zenon
<1>2. PICK b \in Nat, g \in Nat, t \in Nat : b = BOOT_VA /\ g = RING_VA /\ t = STACK_VA
  BY Layout, Zenon
<1>3. b + 1 <= g /\ g + 1 <= t /\ b + 1 <= t
  BY <1>1, <1>2, PagingAssumption, SMT DEF BOOT_VA, RING_VA, STACK_VA
<1>4. b .. b + 1 - 1 = {b} /\ g .. g + 1 - 1 = {g}
  BY <1>2
<1> QED
  BY <1>2, <1>3, <1>4, Zenon DEF LayoutVAs

\* spawn keeps Placed: the image is mapped, and the queue is about the layout;
\* and the entry is in a page of the image.
LEMMA SpawnPlaced ==
  ASSUME PagingInv, Placement, spawn, Fine'
  PROVE  Placed' /\ InHalf' /\ Entered'
<1>1. /\ pc = "load" /\ queue = <<>> /\ item > Len(Image.segments) /\ EntryIsLoaded
      /\ UNCHANGED <<images, spaces, item, asked>>
  BY Zenon DEF spawn, Running, Fail, Fine
<1>2. PICK r1, r2, r3 :
        /\ r1 = Span(BOOT_VA, FirstFrame(bump), 1) /\ r2 = Span(RING_VA, ring, 1)
        /\ r3 = Span(STACK_VA, FirstFrame(alloc_pages(bump, 1)), STACK_PAGES)
        /\ queue' = <<r1, r2, r3>> /\ pc' = IF Len(spaces) = 3 THEN "demo" ELSE "clone"
  BY Zenon DEF spawn, Fail, Fine
<1>3. images \in Images /\ Len(spaces) \in 2 .. 3 /\ item \in Nat \ {0}
  BY <1>1, Zenon DEF PagingInv, Control
<1>4. Image' = Image /\ Len(spaces) > 1 /\ pc' # "load"
  <2>1. \A k \in 2 .. 3 : k > 1
    OBVIOUS
  <2> QED
    BY <1>1, <1>2, <1>3, <2>1, Zenon DEF Image
<1>5. \A k \in DOMAIN Image.segments : k < item /\ Image.segments[k].vaddr \div PAGE < Half
  <2>1. PICK q, S : q = Image.segments /\ q \in Seq(S)
    BY <1>3, ImageShape, Zenon
  <2>2. \A k \in DOMAIN q : k < item
    BY <1>1, <1>3, <2>1
  <2> QED
    BY <1>4, <2>1, <2>2, Zenon DEF Placement, InHalf
<1>6. InHalf'
  BY <1>4, <1>5, Zenon DEF InHalf
<1>7. Area' = LayoutVAs
  BY <1>4, Zenon DEF Area
<1>8. Passed \subseteq Passed' /\ Area \subseteq Passed'
  <2>1. Before' = DOMAIN Image.segments
    BY <1>4, Zenon DEF Before
  <2>2. Passed' = UNION {SegmentVAs(Image.segments[k]) : k \in DOMAIN Image.segments}
    BY <1>4, <2>1, Zenon DEF Passed
  <2>3. Passed \subseteq Passed'
    BY <2>2, Zenon DEF Passed, Before
  <2>4. Area \subseteq Passed'
    BY <1>1, <2>2, Zenon DEF Area
  <2> QED
    BY <2>3, <2>4, Zenon
<1>9. /\ r1.virt = BOOT_VA /\ r1.len = 1 /\ r2.virt = RING_VA /\ r2.len = 1
      /\ r3.virt = STACK_VA /\ r3.len = STACK_PAGES
  BY <1>2, Zenon DEF Span
<1>10. /\ DOMAIN queue' = 1 .. 3 /\ queue'[1] = r1 /\ queue'[2] = r2 /\ queue'[3] = r3
  BY <1>2
<1>11. \A k \in 1 .. 3 : k \in {1, 2, 3} /\ \A j \in 1 .. 3 : j < k => <<j, k>> \in {<<1, 2>>, <<1, 3>>, <<2, 3>>}
  OBVIOUS
<1>12. Ordered(queue')
  <2>1. /\ r1.virt + r1.len <= r2.virt /\ r1.virt + r1.len <= r3.virt /\ r2.virt + r2.len <= r3.virt
    BY <1>9, LayoutOrder, Zenon
  <2> QED
    BY <1>10, <1>11, <2>1, Zenon DEF Ordered
<1>13. \A k \in DOMAIN queue' : RangeVAs(queue'[k]) \subseteq Area'
  <2>1. RangeVAs(r1) \subseteq LayoutVAs /\ RangeVAs(r2) \subseteq LayoutVAs /\ RangeVAs(r3) \subseteq LayoutVAs
    BY <1>9, LayoutOrder, Zenon DEF RangeVAs
  <2> QED
    BY <1>7, <1>10, <1>11, <2>1, Zenon
<1>14. \A p \in asked'[Len(spaces')] : p[1] < Half => p[1] \in Passed'
  BY <1>1, <1>4, <1>8, Zenon DEF Placement, Placed
<1>15. Image.entry \div PAGE < Half
  <2>1. PICK k \in DOMAIN Image.segments :
          Image.entry < Image.segments[k].vaddr + Image.segments[k].memsz
    BY <1>1, Zenon DEF EntryIsLoaded
  <2>2. PICK s : /\ s = Image.segments[k] /\ s \in [vaddr : Nat, memsz : Nat \ {0}] /\ Image.entry \in Nat
                 /\ s.vaddr \div PAGE < Half => s.vaddr \div PAGE + SegmentPages(s) <= Half
    BY <1>3, ImageShape, Zenon
  <2>3. PICK e : e = Image.entry \div PAGE
    BY Zenon
  <2>4. PICK t : t = s.vaddr \div PAGE + SegmentPages(s)
    BY Zenon
  <2>5. e < t /\ t <= Half
    BY <1>5, <2>1, <2>2, <2>3, <2>4, EntryPage, Zenon
  <2>6. e \in Int /\ t \in Int
    BY <2>2, <2>3, <2>4, PagingAssumption DEF SegmentPages
  <2>7. e < Half
    BY <2>5, <2>6, Layout
  <2> QED
    BY <2>3, <2>7, Zenon
<1>16. Entered'
  <2>1. ASSUME NEW i \in 1 .. 2, Spawned(i)'
        PROVE  Spawned(i) \/ i = Len(spaces) - 1
    <3>1. i + 1 = Len(spaces) => i = Len(spaces) - 1
      BY <1>3, <2>1
    <3> QED
      BY <1>1, <2>1, <3>1, Zenon DEF Spawned
  <2> QED
    BY <1>1, <1>15, <2>1, Zenon DEF Placement, Entered, Image
<1> QED
  BY <1>6, <1>12, <1>13, <1>14, <1>16, Zenon DEF Placed

\* clone_kernel keeps Placement: nothing is in the lower half of a new space.
LEMMA ClonePlaced ==
  ASSUME PagingInv, Placement, clone_kernel, Fine'
  PROVE  Placed' /\ InHalf' /\ Entered'
<1>1. /\ pc = "clone" /\ queue = <<>> /\ NewSpace(Clone(tables[spaces[1]]), asked[1]) /\ item' = 1
      /\ pc' = "load" /\ UNCHANGED <<images, queue>>
  BY Zenon DEF clone_kernel, Running, Fail, Fine
<1>2. PICK m \in 1 .. 2 : m = Len(spaces)
  BY <1>1, Zenon DEF PagingInv, Control
<1>3. Len(asked) = m /\ Len(spaces') = m + 1 /\ asked'[m + 1] = asked[1]
  <2>1. PICK S : asked \in Seq(S) /\ Len(asked) = m
    BY <1>2, Zenon DEF PagingInv, Control
  <2>2. asked' = Append(asked, asked[1]) /\ spaces' = Append(spaces, FirstFrame(bump))
    BY <1>1, Zenon DEF NewSpace
  <2>3. spaces \in Seq(Nat)
    BY Zenon DEF PagingInv, Control
  <2> QED
    BY <1>2, <2>1, <2>2, <2>3
<1>4. \A p \in asked[1] : ~(p[1] < Half)
  <2>1. m > 0 /\ 1 \in 1 .. m
    BY <1>2
  <2>2. \A p \in asked[1] : p[1] >= Half
    BY <1>2, <2>1, Zenon DEF PagingInv, High
  <2>3. 1 \in DOMAIN spaces
    <3>1. spaces \in Seq(Nat)
      BY Zenon DEF PagingInv, Control
    <3> QED
      BY <1>2, <3>1
  <2>4. \A p \in asked[1] : p[1] \in Nat
    BY <2>3, AskedPairs, Zenon DEF Pages
  <2> QED
    BY <2>2, <2>4, Layout
<1>5. Placed'
  <2>1. \A k \in DOMAIN queue' : FALSE
    BY <1>1
  <2> QED
    BY <1>3, <1>4, <2>1, Zenon DEF Placed, Ordered
<1>6. InHalf'
  <2>1. images' \in Images /\ Len(spaces') \in 2 .. 3
    <3>1. \A k \in 1 .. 2 : k + 1 \in 2 .. 3
      OBVIOUS
    <3>2. images' \in Images
      BY <1>1, Zenon DEF PagingInv, Control
    <3> QED
      BY <1>2, <1>3, <3>1, <3>2, Zenon
  <2>2. PICK q, S : q = Image'.segments /\ q \in Seq(S)
    <3>1. PICK i \in 1 .. 2 : Image' = images'[i]
      <4>1. Len(spaces') - 1 \in 1 .. 2
        BY <2>1
      <4> QED
        BY <4>1, Zenon DEF Image
    <3> QED
      BY <2>1, <3>1, ImageAssumption, Zenon
  <2>3. \A k \in DOMAIN q : ~(k < 1)
    BY <2>2
  <2> QED
    BY <1>1, <2>2, <2>3, Zenon DEF InHalf
<1>7. ASSUME NEW i \in 1 .. 2, Spawned(i)'
      PROVE  Spawned(i)
  <2>1. i + 1 < m + 1 /\ (i + 1 < m + 1 => i + 1 < m \/ i + 1 = m)
    <3>1. i + 1 < Len(spaces')
      BY <1>1, <1>7, Zenon DEF Spawned
    <3> QED
      BY <1>2, <1>3, <3>1
  <2>2. pc # "load"
    BY <1>1, Zenon
  <2> QED
    BY <1>2, <2>1, <2>2, Zenon DEF Spawned
<1>8. Entered'
  BY <1>1, <1>7, Zenon DEF Placement, Entered
<1> QED
  BY <1>5, <1>6, <1>8, Zenon

\* Every step keeps Placement.
LEMMA PlacementNext ==
  ASSUME PagingInv, PagingInv', Placement, [Next]_vars
  PROVE  Placement'
<1>1. CASE ~(Len(spaces') > 1)
  <2>1. \A i \in 1 .. 2 : ~(i + 1 < Len(spaces')) /\ ~(i + 1 = Len(spaces'))
    <3>1. Len(spaces') \in Nat
      <4>1. spaces' \in Seq(Nat)
        BY Zenon DEF PagingInv, Control
      <4> QED
        BY <4>1
    <3> QED
      BY <1>1, <3>1
  <2> QED
    BY <1>1, <2>1, Zenon DEF Placement, Placed, Blamed, InHalf, Entered, Spawned
<1>2. CASE UNCHANGED <<images, pc, spaces, queue, item, asked>> /\ (~Clash' \/ error' = error)
  <2>1. Image' = Image
    BY <1>2, Zenon DEF Image
  <2>2. Placed'
    BY <1>2, <2>1, Zenon DEF Placement, Placed, Area, Passed, Before
  <2>3. Blamed'
    BY <1>2, <2>1, Zenon DEF Placement, Blamed, Clash, ImageOverlaps
  <2>4. InHalf' /\ Entered'
    BY <1>2, <2>1, Zenon DEF Placement, InHalf, Entered, Spawned
  <2> QED
    BY <2>2, <2>3, <2>4, Zenon DEF Placement
<1>3. CASE Fine' /\ (load \/ spawn \/ clone_kernel)
  <2>1. Blamed'
    BY <1>3, Zenon DEF Fine, Blamed, Clash
  <2>2. CASE load
    <3>1. Placed' /\ InHalf'
      BY <1>3, <2>2, LoadPlaced, Zenon DEF Placement
    <3>2. UNCHANGED <<images, pc, spaces>>
      BY <2>2, Zenon DEF load, Fail
    <3> QED
      BY <2>1, <3>1, <3>2, Zenon DEF Placement, Entered, Spawned
  <2>3. CASE spawn \/ clone_kernel
    BY <1>3, <2>1, <2>3, SpawnPlaced, ClonePlaced, Zenon DEF Placement
  <2> QED
    BY <1>3, <2>2, <2>3, Zenon
<1>4. CASE map_range /\ Len(spaces') > 1
  <2>1. PICK r, n, size : LowRound(r, n, size)
    <3>1. PICK r : r = Head(queue)
      BY Zenon
    <3>2. PICK n, size : n = Len(spaces) /\ size = IF IsLarge(r) THEN HUGE ELSE 1
      BY Zenon
    <3>3. /\ Round(r, n, size) /\ Outcome(r, n, size)
          /\ UNCHANGED <<machine, images, pc, spaces, item, ring>>
      BY <1>4, <3>1, <3>2, MapOutcome, Zenon
    <3>4. queue # <<>>
      BY <1>4, Zenon DEF map_range
    <3> QED
      BY <1>4, <3>2, <3>3, <3>4, Zenon DEF LowRound
  <2>2. Placed'
    BY <2>1, MapPlaced, Zenon DEF Placement
  <2>3. Blamed'
    BY <2>1, Blaming, Zenon DEF Placement, Blamed
  <2>4. InHalf' /\ Entered'
    <3>1. UNCHANGED <<images, pc, spaces, item>>
      BY <2>1, Zenon DEF LowRound
    <3> QED
      BY <3>1, Zenon DEF Placement, InHalf, Entered, Spawned, Image
  <2> QED
    BY <2>2, <2>3, <2>4, Zenon DEF Placement
<1>5. CASE from_memmap \/ build \/ build_entry \/ activate \/ run_demo
  <2>1. CASE ~Fine'
    <3>1. UNCHANGED <<images, pc, spaces, queue, item, asked>> /\ ~Clash'
      BY <1>5, <2>1, Zenon DEF from_memmap, build, build_entry, activate, run_demo, Running, Fail,
                               Fine, Clash
    <3> QED
      BY <1>2, <3>1, Zenon
  <2>2. CASE Fine'
    <3>1. pc' \in {"build", "entries", "ring"} \/ (run_demo /\ UNCHANGED spaces /\ pc = "ring")
      BY <1>5, <2>2, Zenon DEF from_memmap, build, build_entry, activate, run_demo, Fail, Fine
    <3>2. Len(spaces') = 0 \/ Len(spaces') = 1
      BY <3>1, Zenon DEF PagingInv, Control
    <3>3. \A k : k = 0 \/ k = 1 => ~(k > 1)
      OBVIOUS
    <3> QED
      BY <1>1, <3>2, <3>3, Zenon
  <2> QED
    BY <2>1, <2>2, Zenon
<1>6. CASE (load \/ spawn \/ clone_kernel) /\ ~Fine'
  <2>1. UNCHANGED <<images, pc, spaces, queue, item, asked>> /\ ~Clash'
    BY <1>6, Zenon DEF load, spawn, clone_kernel, Running, Fail, Fine, Clash
  <2> QED
    BY <1>2, <2>1, Zenon
<1>7. CASE UNCHANGED vars
  BY <1>2, <1>7, Zenon DEF vars
<1> QED
  BY <1>1, <1>3, <1>4, <1>5, <1>6, <1>7, Zenon DEF Next, Halted

\* It holds when the kernel starts.
LEMMA PlacementInit == Init => Placement
<1> SUFFICES ASSUME Init PROVE Placement
  BY Zenon
<1>1. Len(spaces) = 0
  BY DEF Init
<1>2. ~(Len(spaces) > 1) /\ \A i \in 1 .. 2 : ~(i + 1 < Len(spaces)) /\ ~(i + 1 = Len(spaces))
  BY <1>1
<1> QED
  BY <1>2, Zenon DEF Placement, Placed, Blamed, InHalf, Entered, Spawned

\* CollisionsAreOverlaps holds: a map that fails found its page mapped, and in a
\* courtlet it is the image that overlaps itself or the layout.
THEOREM Overlaps == Spec => []CollisionsAreOverlaps
<1>1. PagingInv /\ Placement => CollisionsAreOverlaps
  BY Zenon DEF PagingInv, Overlapping, Placement, Blamed, Clash, CollisionsAreOverlaps
<1>2. PagingInv /\ PagingInv' /\ Placement /\ [Next]_vars => Placement'
  BY PlacementNext, Zenon
<1> QED
  BY <1>1, <1>2, PlacementInit, Bringup, PTL DEF Spec
=============================================================================

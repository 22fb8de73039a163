------------------------------- MODULE Paging -------------------------------
(***************************************************************************)
(* Memory bring-up of the bare-metal Root Court: the bump allocator        *)
(* (mm.rs), its own page tables (paging.rs), the kernel stacks (stack.rs)  *)
(* and the address spaces of the two courtlets (courtlet.rs spawn and      *)
(* image.rs load), in the order kmain and run_demo go through them.        *)
(*                                                                         *)
(* Addresses of the memory map and of image segments are in bytes, and a   *)
(* page has PAGE bytes.  Virtual and physical addresses of the tables are  *)
(* page numbers.  A table has Radix entries where the code has 512, so a   *)
(* large page has Radix pages.  All of it runs on one CPU: a step is one   *)
(* round of map_range's loop, or the code between two calls of it.         *)
(*                                                                         *)
(* Five-level paging is left out: the kernel asks Limine for four levels   *)
(* at least and at most.                                                   *)
(***************************************************************************)
EXTENDS Integers, Sequences

CONSTANTS
  Radix,        \* entries of a table
  PAGE,         \* bytes of a page
  MIN_REGION,   \* bytes the allocator wants at least
  Machines,     \* what the boot loader hands over
  Images,       \* pairs of court images
  KSTACK_PAGES, \* pages of a CPU's stack (STACK_PAGES of stack.rs)
  STACK_PAGES   \* pages of a courtlet's stack

ASSUME PagingAssumption ==
  /\ Radix \in Nat \ {0} /\ Radix % 2 = 0
  /\ PAGE \in Nat \ {0}
  /\ MIN_REGION \in Nat /\ MIN_REGION >= PAGE
  /\ KSTACK_PAGES \in Nat /\ STACK_PAGES \in 1 .. Radix

VARIABLES
  machine,  \* [memmap, hhdm, kernel: [virt, phys, start, len], ncpu]
  images,   \* <<app image, net image>>: [segments, entry]
  pc, error,
  bump,     \* [start, cursor, end] in bytes
  tables,   \* page-table frame -> its entries
  spaces,   \* PML4 frames: the kernel's, the app's, the net's
  queue,    \* ranges map_range has still to map in the last space
  item,     \* index of the next memory-map entry or program header
  ring,     \* frame of the shared ring, 0 before it is allocated
  asked     \* for each space, the <<page, frame>> pairs mapped so far

vars == <<machine, images, pc, error, bump, tables, spaces, queue, item, ring, asked>>

HUGE == Radix
Half == (Radix \div 2) * Radix * Radix * Radix
Top == Radix * Radix * Radix * Radix
Pages == 0 .. Top - 1

\* Layout of a courtlet (court-abi): one megabyte is half a large page.
IMAGE_VA == Radix \div 2
BOOT_VA == Radix
RING_VA == Radix + Radix \div 2
STACK_VA == 2 * Radix

-----------------------------------------------------------------------------
\* mm.rs.
align_up(value) == ((value + PAGE - 1) \div PAGE) * PAGE
align_down(value) == (value \div PAGE) * PAGE

\* The first of the longest usable entries, if there is one.
Best(memmap) ==
  {i \in DOMAIN memmap :
     /\ memmap[i].kind = "usable"
     /\ \A j \in DOMAIN memmap : memmap[j].kind = "usable" =>
          \/ memmap[j].length < memmap[i].length
          \/ memmap[j].length = memmap[i].length /\ j >= i}

\* Mutant: the region may start at page zero.
RegionAtZero(entry) == [start |-> align_up(entry.base), end |-> entry.base + entry.length]

Region(entry) ==
  [start |-> IF align_up(entry.base) < PAGE THEN PAGE ELSE align_up(entry.base),
   end |-> entry.base + entry.length]

\* Mutant: the cursor moves by one page whatever was asked.
alloc_pagesOne(b, pages) == [b EXCEPT !.cursor = align_up(@) + PAGE]

\* The allocator after alloc_pages, for a request that fits.
alloc_pages(b, pages) == [b EXCEPT !.cursor = align_up(@) + pages * PAGE]

\* The whole pages of a memory-map entry, and the pages a segment touches.
FirstPage(entry) == align_up(entry.base) \div PAGE
EndPage(entry) == align_down(entry.base + entry.length) \div PAGE
SegmentPages(s) == ((s.vaddr % PAGE) + s.memsz + PAGE - 1) \div PAGE

\* The boot loader puts the kernel and the direct map of all memory into the
\* upper half, at whole pages.  The image of the kernel is not empty and begins
\* start pages above the base virt that the loader reports, so the two checks
\* at the head of build and the one of map_range for alignment pass.
ASSUME MachineAssumption ==
  \A m \in Machines :
    /\ m.memmap \in Seq([kind : STRING, base : Nat, length : Nat])
    /\ m.hhdm \in Nat /\ m.hhdm >= Half
    /\ m.kernel \in [virt : Nat, phys : Nat, start : Nat, len : Nat \ {0}]
    /\ m.kernel.virt >= Half /\ m.kernel.virt + m.kernel.start + m.kernel.len <= Top
    /\ m.ncpu \in Nat
    /\ \A i \in DOMAIN m.memmap :
         /\ m.hhdm + EndPage(m.memmap[i]) <= Top
         /\ m.memmap[i].kind = "executable" =>
              m.kernel.virt + EndPage(m.memmap[i]) <= Top + m.kernel.phys

\* A segment that begins in the lower half ends there.
ASSUME ImageAssumption ==
  \A pair \in Images : \A i \in 1 .. 2 :
    /\ pair[i].segments \in Seq([vaddr : Nat, memsz : Nat \ {0}])
    /\ pair[i].entry \in Nat
    /\ \A k \in DOMAIN pair[i].segments :
         LET s == pair[i].segments[k]
         IN  s.vaddr \div PAGE < Half => s.vaddr \div PAGE + SegmentPages(s) <= Half

Fits(b, pages) == align_up(b.cursor) + pages * PAGE <= b.end
FirstFrame(b) == align_up(b.cursor) \div PAGE

-----------------------------------------------------------------------------
\* paging.rs: a mapper is [tables, bump, at, error], at the table it is at.
Absent == [frame |-> 0, present |-> FALSE, huge |-> FALSE]
Entry(frame, huge) == [frame |-> frame, present |-> TRUE, huge |-> huge]
EmptyTable == [i \in 0 .. Radix - 1 |-> Absent]
WithTable(ts, frame, table) ==
  [f \in DOMAIN ts \cup {frame} |-> IF f = frame THEN table ELSE ts[f]]

pml4_index(va) == (va \div (Radix * Radix * Radix)) % Radix
pdpt_index(va) == (va \div (Radix * Radix)) % Radix
pd_index(va) == (va \div Radix) % Radix
pt_index(va) == va % Radix

ensure_table(m, index) ==
  LET current == m.tables[m.at][index]
      next == FirstFrame(m.bump)
  IN  IF m.error # "" THEN m
      ELSE IF current.present /\ current.huge THEN [m EXCEPT !.error = "collision"]
      ELSE IF current.present THEN [m EXCEPT !.at = current.frame]
      ELSE IF ~Fits(m.bump, 1) THEN [m EXCEPT !.error = "memory"]
      ELSE [tables |-> WithTable([m.tables EXCEPT ![m.at][index] = Entry(next, FALSE)],
                                 next, EmptyTable),
            bump |-> alloc_pages(m.bump, 1), at |-> next, error |-> ""]

\* Write an entry; an equal one that is there already is fine.
WriteEntry(m, index, entry) ==
  LET current == m.tables[m.at][index]
  IN  IF m.error # "" THEN m
      ELSE IF ~current.present THEN [m EXCEPT !.tables[m.at][index] = entry]
      ELSE IF current.huge # entry.huge THEN [m EXCEPT !.error = "collision"]
      ELSE IF current.frame # entry.frame THEN [m EXCEPT !.error = "conflict"]
      ELSE m

ToPd(m, va) == ensure_table(ensure_table(m, pml4_index(va)), pdpt_index(va))

map_4k(m, va, frame) ==
  WriteEntry(ensure_table(ToPd(m, va), pd_index(va)), pt_index(va), Entry(frame, FALSE))

\* Mutant: a page table is made below the entry before it is written.
map_2mDeep(m, va, frame) ==
  LET pd == ToPd(m, va)
      deep == ensure_table(pd, pd_index(va))
  IN  WriteEntry([deep EXCEPT !.at = pd.at], pd_index(va), Entry(frame, TRUE))

map_2m(m, va, frame) == WriteEntry(ToPd(m, va), pd_index(va), Entry(frame, TRUE))

\* Mutant: the physical address need not be aligned to a large page.
IsLargeUnaligned(r) == r.len >= HUGE /\ r.virt % HUGE = 0

IsLarge(r) == r.len >= HUGE /\ r.virt % HUGE = 0 /\ r.phys % HUGE = 0

Span(virt, phys, len) == [virt |-> virt, phys |-> phys, len |-> len]

\* What build maps of an entry of the memory map: its whole pages, at the
\* kernel's addresses and in the direct map.
EntryRanges(entry) ==
  LET start == FirstPage(entry)
      end == EndPage(entry)
      kernel == machine.kernel
  IN  IF end <= start THEN <<>>
      ELSE (IF entry.kind = "executable" /\ start >= kernel.phys
            THEN <<Span(kernel.virt + (start - kernel.phys), start, end - start)>>
            ELSE <<>>)
           \o (IF entry.kind \in {"usable", "reclaimable", "executable", "framebuffer"}
               THEN <<Span(machine.hhdm + start, start, end - start)>>
               ELSE <<>>)

\* Mutant: only the last PML4 entry is cloned, as the module's comment has it.
CloneLast(kernel) == [EmptyTable EXCEPT ![Radix - 1] = kernel[Radix - 1]]

\* clone_kernel copies every PML4 entry.
Clone(kernel) == [i \in 0 .. Radix - 1 |-> kernel[i]]

-----------------------------------------------------------------------------
Init ==
  /\ machine \in Machines
  /\ images \in Images
  /\ pc = "memmap"
  /\ error = ""
  /\ bump = [start |-> 0, cursor |-> 0, end |-> 0]
  /\ tables = [f \in {} |-> EmptyTable]
  /\ spaces = <<>>
  /\ queue = <<>>
  /\ item = 1
  /\ ring = 0
  /\ asked = <<>>

Running == error = "" /\ queue = <<>>
Fail(why) ==
  /\ error' = why
  /\ UNCHANGED <<machine, images, pc, bump, tables, spaces, queue, item, ring, asked>>

\* kmain: from_memmap, then the scratch page.
from_memmap ==
  LET best == Best(machine.memmap)
      region == Region(machine.memmap[CHOOSE i \in best : TRUE])
  IN  /\ Running /\ pc = "memmap"
      /\ IF best = {} \/ region.end - region.start < MIN_REGION
         THEN Fail("region")
         ELSE /\ bump' = alloc_pages([start |-> region.start, cursor |-> region.start,
                                      end |-> region.end], 1)
              /\ pc' = "build"
              /\ UNCHANGED <<machine, images, error, tables, spaces, queue, item, ring, asked>>

\* A new top table goes to the spaces, with what is mapped through it.
NewSpace(table, pairs) ==
  /\ tables' = WithTable(tables, FirstFrame(bump), table)
  /\ bump' = alloc_pages(bump, 1)
  /\ spaces' = Append(spaces, FirstFrame(bump))
  /\ asked' = Append(asked, pairs)

build ==
  LET kernel == machine.kernel
  IN
  /\ Running /\ pc = "build"
  /\ IF ~Fits(bump, 1) THEN Fail("memory")
     ELSE /\ NewSpace(EmptyTable, {})
          /\ queue' = <<Span(kernel.virt + kernel.start, kernel.phys + kernel.start, kernel.len)>>
          /\ pc' = "entries"
          /\ UNCHANGED <<machine, images, error, item, ring>>

\* The loop of build over the memory map.
build_entry ==
  /\ Running /\ pc = "entries" /\ item <= Len(machine.memmap)
  /\ queue' = EntryRanges(machine.memmap[item])
  /\ item' = item + 1
  /\ UNCHANGED <<machine, images, pc, error, bump, tables, spaces, ring, asked>>

\* One round of map_range's loop.
map_range ==
  LET r == Head(queue)
      large == IsLarge(r)
      n == IF large THEN HUGE ELSE 1
      m == [tables |-> tables, bump |-> bump, at |-> spaces[Len(spaces)], error |-> ""]
      after == IF large THEN map_2m(m, r.virt, r.phys) ELSE map_4k(m, r.virt, r.phys)
      rest == Span(r.virt + n, r.phys + n, r.len - n)
  IN  /\ error = "" /\ queue # <<>>
      /\ tables' = after.tables
      /\ bump' = after.bump
      /\ error' = after.error
      /\ IF after.error # "" THEN UNCHANGED <<queue, asked>>
         ELSE /\ queue' = (IF rest.len = 0 THEN <<>> ELSE <<rest>>) \o Tail(queue)
              /\ asked' = [asked EXCEPT ![Len(asked)] =
                             @ \cup {<<r.virt + i, r.phys + i>> : i \in 0 .. n - 1}]
      /\ UNCHANGED <<machine, images, pc, spaces, item, ring>>

\* activate, then stack::alloc_all: the kernel runs on tables and a stack of
\* its own from here on.
activate ==
  /\ Running /\ pc = "entries" /\ item > Len(machine.memmap)
  /\ IF ~Fits(bump, machine.ncpu * KSTACK_PAGES) THEN Fail("memory")
     ELSE /\ bump' = alloc_pages(bump, machine.ncpu * KSTACK_PAGES)
          /\ pc' = "ring"
          /\ UNCHANGED <<machine, images, error, tables, spaces, queue, item, ring, asked>>

\* run_demo up to the ring's page; then the app's space is made.
run_demo ==
  /\ Running /\ pc = "ring"
  /\ IF ~Fits(bump, 1) THEN Fail("memory")
     ELSE /\ bump' = alloc_pages(bump, 1)
          /\ ring' = FirstFrame(bump)
          /\ pc' = "clone"
          /\ UNCHANGED <<machine, images, error, tables, spaces, queue, item, asked>>

\* spawn: clone_kernel.
clone_kernel ==
  /\ Running /\ pc = "clone"
  /\ IF ~Fits(bump, 1) THEN Fail("memory")
     ELSE /\ NewSpace(Clone(tables[spaces[1]]), asked[1])
          /\ item' = 1
          /\ pc' = "load"
          /\ UNCHANGED <<machine, images, error, queue, ring>>

Image == images[Len(spaces) - 1]

\* image::load: one program header of type PT_LOAD with a size.
load ==
  LET s == Image.segments[item]
      pages == SegmentPages(s)
  IN  /\ Running /\ pc = "load" /\ item <= Len(Image.segments)
      /\ IF s.vaddr \div PAGE >= Half THEN Fail("half")
         ELSE IF ~Fits(bump, pages) THEN Fail("memory")
         ELSE /\ bump' = alloc_pages(bump, pages)
              /\ queue' = <<Span(s.vaddr \div PAGE, FirstFrame(bump), pages)>>
              /\ item' = item + 1
              /\ UNCHANGED <<machine, images, pc, error, tables, spaces, ring, asked>>

EntryIsLoaded ==
  \E i \in DOMAIN Image.segments :
    LET s == Image.segments[i]
    IN  Image.entry >= s.vaddr /\ Image.entry < s.vaddr + s.memsz

\* The rest of spawn: boot page, stack, and three maps.
spawn ==
  LET boot == FirstFrame(bump)
      stack == FirstFrame(alloc_pages(bump, 1))
  IN  /\ Running /\ pc = "load" /\ item > Len(Image.segments)
      /\ IF ~EntryIsLoaded THEN Fail("entry")
         ELSE IF ~Fits(bump, 1 + STACK_PAGES) THEN Fail("memory")
         ELSE /\ bump' = alloc_pages(alloc_pages(bump, 1), STACK_PAGES)
              /\ queue' = <<Span(BOOT_VA, boot, 1), Span(RING_VA, ring, 1),
                            Span(STACK_VA, stack, STACK_PAGES)>>
              /\ pc' = IF Len(spaces) = 3 THEN "demo" ELSE "clone"
              /\ UNCHANGED <<machine, images, error, tables, spaces, item, ring, asked>>

\* The courtlets are entered, or the machine was stopped by an error.
Halted == (error # "" \/ (pc = "demo" /\ queue = <<>>)) /\ UNCHANGED vars

Next ==
  \/ from_memmap \/ build \/ build_entry \/ map_range \/ activate \/ run_demo \/ clone_kernel
  \/ load \/ spawn \/ Halted

Spec == Init /\ [][Next]_vars

-----------------------------------------------------------------------------
\* The walk of the memory management unit; -1 where nothing is mapped.
Follow(ts, table, index) ==
  IF table # 0 /\ ts[table][index].present /\ ~ts[table][index].huge
  THEN ts[table][index].frame ELSE 0

Walk(ts, pml4, va) ==
  LET pd == Follow(ts, Follow(ts, pml4, pml4_index(va)), pdpt_index(va))
      pt == Follow(ts, pd, pd_index(va))
  IN  IF pd # 0 /\ ts[pd][pd_index(va)].huge
      THEN (ts[pd][pd_index(va)].frame \div HUGE) * HUGE + (va % HUGE)
      ELSE IF pt # 0 /\ ts[pt][pt_index(va)].present
      THEN ts[pt][pt_index(va)].frame
      ELSE -1

Translate(pml4, va) == Walk(tables, pml4, va)

Frames(first, end) == first \div PAGE .. end \div PAGE - 1

\* Every variable is of its type: the allocator stays within its region and
\* off page zero, and tables, top tables and the ring are pages it handed out.
TypeOK ==
  /\ machine \in Machines /\ images \in Images
  /\ pc \in {"memmap", "build", "entries", "ring", "clone", "load", "demo"}
  /\ error \in {"", "region", "memory", "collision", "conflict", "half", "entry"}
  /\ bump.start <= bump.cursor /\ bump.cursor <= bump.end
  /\ pc # "memmap" => bump.start >= PAGE
  /\ DOMAIN tables \subseteq Frames(bump.start, bump.cursor)
  /\ Len(spaces) \in 0 .. 3 /\ Len(asked) = Len(spaces)
  /\ \A i \in DOMAIN spaces : spaces[i] \in DOMAIN tables
  /\ ring \in {0} \cup Frames(bump.start, bump.cursor)

\* Once the kernel runs on its own tables, every page the allocator handed
\* out (tables, stacks, boot pages, the ring) is found in the direct map at
\* its address, in the kernel's space and in each courtlet's: alloc_table and
\* entry write through it, and the CPUs run on stacks in it.
AllocatedReachable ==
  pc \in {"ring", "clone", "load", "demo"} =>
    \A i \in DOMAIN spaces, f \in Frames(bump.start, bump.cursor) :
      Translate(spaces[i], machine.hhdm + f) = f

\* In every space the unit translates exactly what was mapped there, the
\* kernel's mappings included and whatever large and small pages they were
\* made of: no map undoes or adds another, in its own or in another space.
MappedAsAsked ==
  \A i \in DOMAIN spaces : \A va \in Pages :
    Translate(spaces[i], va) =
      IF \E p \in asked[i] : p[1] = va THEN (CHOOSE p \in asked[i] : p[1] = va)[2] ELSE -1

LowFrames(s) == {Translate(s, va) : va \in 0 .. Half - 1} \ {-1}

\* The lower halves of two courtlets share the ring and nothing else, and no
\* page table is mapped in one.
CourtletsShareOnlyRing ==
  \A i \in 2 .. Len(spaces) :
    /\ LowFrames(spaces[i]) \cap DOMAIN tables = {}
    /\ \A j \in 2 .. Len(spaces) : i # j =>
         LowFrames(spaces[i]) \cap LowFrames(spaces[j]) \subseteq {ring}

\* The pages of a segment, and those spawn maps besides the image.
SegmentVAs(s) == s.vaddr \div PAGE .. s.vaddr \div PAGE + SegmentPages(s) - 1
LayoutVAs == {BOOT_VA, RING_VA} \cup (STACK_VA .. STACK_VA + STACK_PAGES - 1)

\* A segment of the image shares a page with another one or with the layout.
ImageOverlaps ==
  \E k \in DOMAIN Image.segments : \E va \in SegmentVAs(Image.segments[k]) :
    \/ va \in LayoutVAs
    \/ \E j \in DOMAIN Image.segments \ {k} : va \in SegmentVAs(Image.segments[j])

\* map_range refuses a page only when it overlaps what is mapped: ranges that
\* are disjoint never collide, even if they meet within one large page.  In
\* the space of a courtlet it is the image that overlaps itself or its layout:
\* nothing of the kernel, whatever the machine, is in an image's way.
CollisionsAreOverlaps ==
  LET r == Head(queue)
      n == IF IsLarge(r) THEN HUGE ELSE 1
  IN  error \in {"collision", "conflict"} =>
        /\ \E p \in asked[Len(asked)] : p[1] \in r.virt .. r.virt + n - 1
        /\ Len(spaces) > 1 => ImageOverlaps
=============================================================================

--------------------------- MODULE SmallMachines ---------------------------
(***************************************************************************)
(* Small machines and court images: tables of four entries, so that a      *)
(* large page has four pages and the upper half begins at page 128; pages  *)
(* of two bytes, so that memory can begin and end inside a page.           *)
(***************************************************************************)
Piece(kind, base, length) == [kind |-> kind, base |-> base, length |-> length]

\* Low memory, the kernel at page 8, and the memory above it.  The entry of
\* the kernel may be longer than its image, as modules follow it.
Machine(kernel_len, executable_len, base, length, ncpu) ==
  [memmap |-> <<Piece("usable", 0, 5), Piece("reserved", 6, 10),
                Piece("executable", 16, executable_len),
                Piece("reclaimable", 32, 4), Piece("usable", base, length)>>,
   hhdm |-> 128, kernel |-> [virt |-> 240, phys |-> 8, start |-> 0, len |-> kernel_len], ncpu |-> ncpu]

\* All usable memory at the bottom, and a kernel large enough for a large page
\* whose virtual and physical addresses are not aligned alike, and whose image
\* begins one page above its base.
LowMachine(length) ==
  [memmap |-> <<Piece("usable", 0, length), Piece("executable", 112, 12),
                Piece("framebuffer", 124, 2)>>,
   hhdm |-> 128, kernel |-> [virt |-> 242, phys |-> 56, start |-> 1, len |-> 5], ncpu |-> 1]

Segment(vaddr, memsz) == [vaddr |-> vaddr, memsz |-> memsz]
ImageOf(segments, entry) == [segments |-> segments, entry |-> entry]

Plain == ImageOf(<<Segment(4, 3)>>, 4)

\* One segment; two; one that reaches the boot page; two in one page; an entry
\* outside; too high.
SomeImages ==
  {<<Plain, other>> : other \in
     {Plain, ImageOf(<<Segment(4, 2), Segment(7, 1)>>, 7),
      ImageOf(<<Segment(4, 3), Segment(9, 2)>>, 10),
      ImageOf(<<Segment(4, 1), Segment(5, 1)>>, 4),
      ImageOf(<<Segment(4, 3)>>, 7), ImageOf(<<Segment(256, 1)>>, 256)}}
=============================================================================

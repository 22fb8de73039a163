------------------------------ MODULE RingFile ------------------------------
(***************************************************************************)
(* The file behind a shared ring: SharedRing::create and SharedRing::open  *)
(* of crates/court-hosted-linux/src/shm_ring.rs, and where the slots lie   *)
(* in the mapping.  What happens in the ring is SharedRing's.              *)
(*                                                                         *)
(* A run directory outlives the root that made it, so one file is created  *)
(* several times, each time in place: by the next ck-root, or by the same  *)
(* one for a second corridor of that file name.  A root may end between    *)
(* any two steps.  A court that a root has told of the file opens it on    *)
(* its own, also while the next root is creating it again.  The header is  *)
(* stored and loaded by plain accesses: each field is an access of its     *)
(* own, the stores of init and the two loads of the layout in any order.   *)
(* The indices of the header are zero in a fresh file and stay out.        *)
(***************************************************************************)
EXTENDS Integers

CONSTANTS
  HeaderLen,    \* size_of::<RingHeader>(); 32 in the code
  LenSize,      \* LEN_SIZE; 4 in the code
  MaxUsize,     \* usize::MAX
  Layouts,      \* what manifests ask for
  Courts,       \* the processes that open the file
  MaxCreations  \* bound: how often the file is created

\* Manifest::validate asks for a nonzero capacity and slot_size.
Layout == [capacity : Nat \ {0}, slot_size : Nat \ {0}]

ASSUME FileAssumption ==
  /\ HeaderLen \in Nat \ {0} /\ LenSize \in Nat \ {0} /\ MaxUsize \in Nat
  /\ Layouts \subseteq Layout
  /\ MaxCreations \in Nat

Overflow == -1

slot_stride(slot_size) == LenSize + slot_size

\* Mutant: the length computed without the checks.
total_lenWrapping(capacity, slot_size) ==
  (HeaderLen + capacity * slot_stride(slot_size)) % (MaxUsize + 1)

\* checked_mul and checked_add: a length, or the error.
total_len(capacity, slot_size) ==
  LET len == HeaderLen + capacity * slot_stride(slot_size)
  IN  IF len <= MaxUsize THEN len ELSE Overflow

\* Where a slot begins, from the start of the mapping, in usize arithmetic.
slot_ptr(slot, slot_size) ==
  (HeaderLen + slot * slot_stride(slot_size)) % (MaxUsize + 1)

Fields == {"magic", "version", "capacity", "slot_size"}

VARIABLES
  len,        \* the length of the file
  header,     \* [Fields -> Nat]; RING_MAGIC and RING_VERSION are 1
  root,       \* the root inside create
  told,       \* some court was sent a WireRingInfo
  courts,     \* the courts inside open, or beyond
  creations,  \* auxiliary: how often the file was truncated
  wanted,     \* auxiliary: the layout of the last creation
  complete    \* auxiliary: and whether that creation came to its end

file == <<len, header>>
history == <<creations, wanted, complete>>
file_vars == <<file, root, told, courts, history>>

Blank == [f \in Fields |-> 0]

Written(layout) ==
  [f \in Fields |-> CASE f = "capacity"  -> layout.capacity
                      [] f = "slot_size" -> layout.slot_size
                      [] OTHER           -> 1]

\* pc: out of open, or what open does next, or how it ended.  loaded: the
\* layout as far as validate has loaded it.  since: the creation that open
\* found, complete or not.
Court ==
  [pc : {"out", "magic", "version", "layout", "in", "refused", "killed"},
   len : Nat, loaded : [{"capacity", "slot_size"} -> Nat \cup {-1}],
   since : 0 .. MaxCreations, found : BOOLEAN]

FileTypeOK ==
  /\ len \in Nat /\ header \in [Fields -> Nat]
  /\ root \in [pc : {"none", "set_len", "init", "done"}, missing : SUBSET Fields]
  /\ told \in BOOLEAN
  /\ courts \in [Courts -> Court]
  /\ creations \in 0 .. MaxCreations /\ complete \in BOOLEAN
  /\ wanted \in Layout

NotLoaded == [f \in {"capacity", "slot_size"} |-> -1]

\* No file yet.
FileInit ==
  /\ len = 0 /\ header = Blank
  /\ root = [pc |-> "none", missing |-> {}]
  /\ told = FALSE
  /\ courts = [c \in Courts |-> [pc |-> "out", len |-> 0, loaded |-> NotLoaded,
                                 since |-> 0, found |-> FALSE]]
  /\ creations = 0 /\ wanted \in Layouts /\ complete = FALSE

-----------------------------------------------------------------------------
\* create up to the open, which truncates.  A layout too large to compute
\* ends the root before it touches the file.
create(layout) ==
  /\ root.pc \in {"none", "done"}
  /\ creations < MaxCreations
  /\ IF total_len(layout.capacity, layout.slot_size) = Overflow
     THEN /\ root' = [pc |-> "none", missing |-> {}]
          /\ UNCHANGED <<file, history>>
     ELSE /\ len' = 0 /\ header' = Blank
          /\ root' = [pc |-> "set_len", missing |-> Fields]
          /\ creations' = creations + 1 /\ wanted' = layout /\ complete' = FALSE
  /\ UNCHANGED <<told, courts>>

\* Mutant: the length fields of the slots forgotten.
set_lenBare ==
  /\ root.pc = "set_len"
  /\ len' = HeaderLen + wanted.capacity * wanted.slot_size
  /\ root' = [root EXCEPT !.pc = "init"]
  /\ UNCHANGED <<header, told, courts, history>>

set_len ==
  /\ root.pc = "set_len"
  /\ len' = total_len(wanted.capacity, wanted.slot_size)
  /\ root' = [root EXCEPT !.pc = "init"]
  /\ UNCHANGED <<header, told, courts, history>>

\* One store of init; after the last one create returns.
init(field) ==
  /\ root.pc = "init" /\ field \in root.missing
  /\ header' = [header EXCEPT ![field] = Written(wanted)[field]]
  /\ root' = [pc |-> IF root.missing = {field} THEN "done" ELSE "init",
              missing |-> root.missing \ {field}]
  /\ complete' = (root.missing = {field})
  /\ UNCHANGED <<len, told, courts, creations, wanted>>

\* OpenResult, sent when build_state is through.
Tell ==
  /\ root.pc = "done" /\ ~told
  /\ told' = TRUE
  /\ UNCHANGED <<file, root, courts, history>>

\* The root returns, with or without an error, or is killed.
RootEnds ==
  /\ root.pc # "none"
  /\ root' = [pc |-> "none", missing |-> {}]
  /\ UNCHANGED <<file, told, courts, history>>

-----------------------------------------------------------------------------
At(c, pc) == courts' = [courts EXCEPT ![c].pc = pc]

\* map asks for room for the header; mmap itself does not fail.
map(length) == IF length < HeaderLen THEN "refused" ELSE "magic"

\* open up to the mapping, whose length is that of the file now.
open(c) ==
  /\ told /\ courts[c].pc = "out"
  /\ courts' = [courts EXCEPT ![c] =
                  [@ EXCEPT !.pc = map(len), !.len = len, !.since = creations, !.found = complete]]
  /\ UNCHANGED <<file, root, told, history>>

\* validate, one load after the other.  A load from a file that has been
\* truncated under the mapping is a SIGBUS.
LoadMark(c, field, next) ==
  /\ courts[c].pc = field
  /\ At(c, IF len = 0 THEN "killed" ELSE IF header[field] # 1 THEN "refused" ELSE next)
  /\ UNCHANGED <<file, root, told, history>>

LoadLayout(c, field) ==
  /\ courts[c].pc = "layout" /\ courts[c].loaded[field] = -1
  /\ courts' = [courts EXCEPT ![c] =
                  IF len = 0 THEN [@ EXCEPT !.pc = "killed"]
                  ELSE [@ EXCEPT !.loaded[field] = header[field]]]
  /\ UNCHANGED <<file, root, told, history>>

\* Mutant: any length that holds the header will do.
ValidateAny(c) ==
  /\ courts[c].pc = "layout" /\ \A f \in DOMAIN NotLoaded : courts[c].loaded[f] # -1
  /\ At(c, "in")
  /\ UNCHANGED <<file, root, told, history>>

Validate(c) ==
  LET loaded == courts[c].loaded
  IN  /\ courts[c].pc = "layout" /\ \A f \in DOMAIN NotLoaded : loaded[f] # -1
      /\ At(c, IF total_len(loaded["capacity"], loaded["slot_size"]) = courts[c].len
               THEN "in" ELSE "refused")
      /\ UNCHANGED <<file, root, told, history>>

FileNext ==
  \/ \E layout \in Layouts : create(layout)
  \/ set_len
  \/ \E field \in Fields : init(field)
  \/ Tell
  \/ RootEnds
  \/ \E c \in Courts :
       \/ open(c)
       \/ LoadMark(c, "magic", "version") \/ LoadMark(c, "version", "layout")
       \/ \E field \in DOMAIN NotLoaded : LoadLayout(c, field)
       \/ Validate(c)

FileSpec == FileInit /\ [][FileNext]_file_vars

-----------------------------------------------------------------------------
\* The file is the one that c opened: not truncated since.
SameFile(c) == creations = courts[c].since

\* The bytes of a slot, its length field included, as send and recv compute
\* them from the header they see.
SlotFits(slot, mapped) ==
  LET start == slot_ptr(slot, header["slot_size"])
  IN  HeaderLen <= start /\ start + slot_stride(header["slot_size"]) <= mapped

SlotsApart(s, t) ==
  slot_ptr(s, header["slot_size"]) + slot_stride(header["slot_size"])
    <= slot_ptr(t, header["slot_size"])

\* Every access of a court that open let in is to its own slot of the
\* mapping, for as long as the file is the one it opened, and even if it was
\* let in while init was still storing the header: there is a slot to take
\* an index modulo capacity to, the slots lie behind the header and inside
\* the mapping, and no two overlap.
MappingFits ==
  \A c \in Courts : courts[c].pc = "in" /\ SameFile(c) =>
    /\ header["capacity"] # 0
    /\ \A s \in 0 .. header["capacity"] - 1 : SlotFits(s, courts[c].len)
    /\ \A s, t \in 0 .. header["capacity"] - 1 : s < t => SlotsApart(s, t)

\* open turns a court away, or is killed in a load, only if it met a
\* creation: one that had not ended when it looked, or one that began since.
TurnedAwayOnlyInRace ==
  \A c \in Courts : courts[c].pc \in {"refused", "killed"} /\ courts[c].found => ~SameFile(c)
-----------------------------------------------------------------------------
FileLen == total_len(wanted.capacity, wanted.slot_size)

\* Where a creation is, and what the file holds of it.
Creating ==
  /\ creations > 0 => FileLen # Overflow
  /\ len \in {0, FileLen} /\ \A f \in Fields : header[f] \in {0, Written(wanted)[f]}
  /\ root.pc # "none" \/ complete \/ told => creations > 0
  /\ root.pc = "set_len" => len = 0 /\ header = Blank /\ root.missing = Fields
  /\ root.pc = "init" =>
       /\ len = FileLen
       /\ \A f \in Fields : header[f] = IF f \in root.missing THEN 0 ELSE Written(wanted)[f]
  /\ root.pc \in {"set_len", "init"} => ~complete
  /\ root.pc = "done" => complete
  /\ complete => len = FileLen /\ header = Written(wanted)

\* What a court in open has seen of the file, if it still is the same file:
\* its length, and of the layout the values that are there, or zeros if init
\* was under way.
Opening(c) ==
  /\ courts[c].since <= creations
  /\ SameFile(c) /\ courts[c].found => complete
  /\ SameFile(c) /\ courts[c].pc \in {"magic", "version", "layout", "in"} =>
       /\ creations > 0 /\ courts[c].len = len /\ len >= HeaderLen
       /\ \A f \in DOMAIN NotLoaded :
            /\ courts[c].loaded[f] \in {-1, 0, header[f]}
            /\ courts[c].found => courts[c].loaded[f] \in {-1, header[f]}
  /\ courts[c].pc = "out" => courts[c].loaded = NotLoaded
  /\ courts[c].pc = "in" =>
       /\ \A f \in DOMAIN NotLoaded : courts[c].loaded[f] # -1
       /\ total_len(courts[c].loaded["capacity"], courts[c].loaded["slot_size"]) = courts[c].len

\* Why validate is enough: create gives the file its length before init stores
\* the header, and a header half written gives another length.  So a court
\* that validate lets in has seen the layout that is, or will be, there.
FileInv ==
  FileTypeOK /\ Creating /\ (\A c \in Courts : Opening(c)) /\ TurnedAwayOnlyInRace
=============================================================================

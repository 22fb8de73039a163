--------------------------- MODULE RingFileProofs ---------------------------
(***************************************************************************)
(* Proofs about the file behind the ring, for every layout, any number of  *)
(* courts and of creations: whoever open lets in has the whole ring in its *)
(* mapping, although open and create share no lock.                        *)
(***************************************************************************)
EXTENDS RingFile, TLAPS

\* Products of naturals, which the rest treats as opaque.
LEMMA Products ==
  ASSUME NEW a \in Nat, NEW b \in Nat
  PROVE  /\ a * b \in Nat /\ (a + 1) * b = a * b + b
         /\ \A d \in Nat : a <= d => a * b <= d * b
         /\ a # 0 /\ b # 0 => a * b # 0
         /\ 0 * b = 0
<1>1. a * b \in Nat /\ (a + 1) * b = a * b + b
  OBVIOUS
<1>2. ASSUME NEW d \in Nat, a <= d PROVE a * b <= d * b
  <2>1. PICK e \in Nat : d = a + e
    BY <1>2
  <2>2. d * b = a * b + e * b /\ e * b \in Nat
    BY <2>1
  <2> QED
    BY <1>1, <2>2
<1>3. ASSUME a # 0, b # 0 PROVE a * b # 0
  BY <1>3
<1> QED
  BY <1>1, <1>2, <1>3

\* What total_len returns.
LEMMA TotalLen ==
  ASSUME NEW c \in Nat, NEW s \in Nat
  PROVE  /\ total_len(c, s) \in Nat \cup {Overflow}
         /\ total_len(c, s) # Overflow =>
              /\ total_len(c, s) = HeaderLen + c * slot_stride(s)
              /\ total_len(c, s) <= MaxUsize /\ total_len(c, s) >= HeaderLen
<1>1. slot_stride(s) \in Nat /\ HeaderLen \in Nat /\ MaxUsize \in Nat
  BY FileAssumption DEF slot_stride
<1>2. PICK p \in Nat : p = c * slot_stride(s)
  BY <1>1, Products, Zenon
<1> QED
  BY <1>1, <1>2 DEF total_len, Overflow

\* A header of which init has stored a part only gives another length.
LEMMA Torn ==
  ASSUME NEW c \in Nat \ {0}, NEW s \in Nat \ {0}, NEW d \in {0, c}, NEW t \in {0, s},
         total_len(c, s) # Overflow, total_len(d, t) = total_len(c, s)
  PROVE  d = c /\ t = s
<1>1. /\ LenSize \in Nat \ {0} /\ HeaderLen \in Nat
      /\ slot_stride(s) = LenSize + s /\ slot_stride(t) = LenSize + t
      /\ slot_stride(s) \in Nat /\ slot_stride(t) \in Nat /\ slot_stride(s) # 0
  BY FileAssumption DEF slot_stride
<1>2. HeaderLen + c * slot_stride(s) = HeaderLen + d * slot_stride(t)
  BY TotalLen
<1>3. c * slot_stride(s) = d * slot_stride(t) /\ c * slot_stride(s) # 0
  BY <1>1, <1>2, Products
<1>4. d = c
  BY <1>1, <1>3, Products, Zenon
<1>5. ASSUME t = 0 PROVE FALSE
  <2>1. c * (LenSize + s) = c * LenSize
    BY <1>1, <1>3, <1>4, <1>5
  <2>2. c * s # 0 /\ c * s \in Nat
    BY Products, Zenon
  <2>3. c * (LenSize + s) = c * LenSize + c * s
    BY <1>1
  <2> QED
    BY <1>1, <2>1, <2>2, <2>3, Products
<1> QED
  BY <1>4, <1>5, Zenon

\* The slots of a layout whose length was computed lie one after the other
\* between the header and the end of the file.
LEMMA SlotsInFile ==
  ASSUME NEW c \in Nat, NEW s \in Nat, total_len(c, s) # Overflow, NEW slot \in 0 .. c - 1
  PROVE  /\ slot_ptr(slot, s) = HeaderLen + slot * slot_stride(s)
         /\ HeaderLen <= slot_ptr(slot, s) /\ slot_ptr(slot, s) \in Nat
         /\ slot_ptr(slot, s) + slot_stride(s) <= total_len(c, s)
         /\ \A t \in 0 .. c - 1 : slot < t => slot_ptr(slot, s) + slot_stride(s)
                                              <= HeaderLen + t * slot_stride(s)
<1>1. /\ HeaderLen \in Nat /\ MaxUsize \in Nat /\ slot_stride(s) \in Nat /\ slot_stride(s) # 0
      /\ slot \in Nat /\ slot + 1 \in Nat /\ slot + 1 <= c
  BY FileAssumption DEF slot_stride
<1>2. PICK p \in Nat : p = slot * slot_stride(s)
  BY <1>1, Products, Zenon
<1>3. /\ (slot + 1) * slot_stride(s) = p + slot_stride(s)
      /\ p + slot_stride(s) <= c * slot_stride(s)
  BY <1>1, <1>2, Products
<1>4. c * slot_stride(s) \in Nat
  BY <1>1, Products, Zenon
<1>5. /\ total_len(c, s) = HeaderLen + c * slot_stride(s) /\ total_len(c, s) <= MaxUsize
  BY TotalLen, Zenon
<1>6. HeaderLen + p \in 0 .. MaxUsize /\ HeaderLen + p + slot_stride(s) <= total_len(c, s)
  BY <1>1, <1>3, <1>4, <1>5
<1>7. \A n \in 0 .. MaxUsize : n % (MaxUsize + 1) = n
  BY <1>1
<1>8. slot_ptr(slot, s) = HeaderLen + p
  BY <1>2, <1>6, <1>7, Zenon DEF slot_ptr
<1>9. ASSUME NEW t \in 0 .. c - 1, slot < t PROVE p + slot_stride(s) <= t * slot_stride(s)
  <2>1. t \in Nat /\ slot + 1 <= t
    BY <1>1, <1>9
  <2> QED
    BY <1>1, <1>3, <2>1, Products
<1>10. ASSUME NEW t \in 0 .. c - 1, slot < t
       PROVE  slot_ptr(slot, s) + slot_stride(s) <= HeaderLen + t * slot_stride(s)
  <2>1. t * slot_stride(s) \in Nat
    BY <1>1, Products
  <2> QED
    BY <1>1, <1>8, <1>9, <1>10, <2>1
<1> QED
  BY <1>1, <1>2, <1>6, <1>8, <1>10
\* Steps of a root leave what a court has done alone.  If they leave the
\* file alone too, or replace it, a court in open has nothing to notice.
LEMMA CourtsKept ==
  ASSUME FileInv, UNCHANGED courts,
         \/ UNCHANGED <<len, header, creations>> /\ (complete => complete')
         \/ creations \in Nat /\ creations' = creations + 1
  PROVE  (\A c \in Courts : Opening(c)') /\ TurnedAwayOnlyInRace'
<1>1. /\ FileTypeOK /\ TurnedAwayOnlyInRace /\ \A c \in Courts : Opening(c) /\ courts[c] \in Court
  BY Zenon DEF FileInv, FileTypeOK
<1>2. CASE UNCHANGED <<len, header, creations>> /\ (complete => complete')
  BY <1>1, <1>2, Zenon DEF Opening, TurnedAwayOnlyInRace, SameFile
<1>3. CASE creations \in Nat /\ creations' = creations + 1
  <2>1. \A c \in Courts : courts[c].since \in Nat /\ courts[c].since <= creations
    BY <1>1 DEF Court, Opening
  <2>2. \A c \in Courts : ~SameFile(c)' /\ courts'[c].since <= creations'
    BY <1>3, <2>1 DEF SameFile
  <2> QED
    BY <1>1, <2>2, Zenon DEF Opening, TurnedAwayOnlyInRace
<1> QED
  BY <1>2, <1>3, Zenon

\* create truncates the file.
LEMMA CreateInv == ASSUME FileInv, NEW layout \in Layouts, create(layout) PROVE FileInv'
<1>1. FileTypeOK /\ Creating
  BY Zenon DEF FileInv
<1>2. layout \in Layout /\ creations \in Nat /\ MaxCreations \in Nat
  BY <1>1, FileAssumption DEF FileTypeOK
<1>3. CASE total_len(layout.capacity, layout.slot_size) = Overflow
  <2>1. /\ root' = [pc |-> "none", missing |-> {}]
        /\ UNCHANGED <<len, header, creations, wanted, complete, told, courts>>
    BY <1>3, Zenon DEF create, file, history
  <2>2. FileTypeOK'
    BY <1>1, <2>1, Zenon DEF FileTypeOK
  <2>3. Creating'
    BY <1>1, <2>1, Zenon DEF Creating, FileLen
  <2> QED
    BY <2>1, <2>2, <2>3, CourtsKept, Zenon DEF FileInv
<1>4. CASE total_len(layout.capacity, layout.slot_size) # Overflow
  <2>1. /\ creations < MaxCreations /\ len' = 0 /\ header' = Blank
        /\ root' = [pc |-> "set_len", missing |-> Fields]
        /\ creations' = creations + 1 /\ wanted' = layout /\ complete' = FALSE
        /\ UNCHANGED <<told, courts>>
    BY <1>4, Zenon DEF create
  <2>2. creations' \in 0 .. MaxCreations /\ creations' > 0
    BY <1>2, <2>1
  <2>3. Blank \in [Fields -> Nat] /\ \A f \in Fields : Blank[f] = 0
    BY Zenon DEF Blank
  <2>4. FileTypeOK'
    <3>1. root' \in [pc : {"none", "set_len", "init", "done"}, missing : SUBSET Fields]
      BY <2>1, Zenon
    <3> QED
      BY <1>1, <1>2, <2>1, <2>2, <2>3, <3>1, Zenon DEF FileTypeOK
  <2>5. Creating'
    BY <1>4, <2>1, <2>2, <2>3, Zenon DEF Creating, FileLen
  <2> QED
    BY <1>2, <2>1, <2>4, <2>5, CourtsKept, Zenon DEF FileInv
<1> QED
  BY <1>3, <1>4, Zenon

\* No court is in open with a mapping of the file before set_len.
LEMMA SetLenInv == ASSUME FileInv, set_len PROVE FileInv'
<1>1. FileTypeOK /\ Creating /\ TurnedAwayOnlyInRace /\ \A c \in Courts : Opening(c)
  BY Zenon DEF FileInv
<1>2. /\ root.pc = "set_len" /\ len' = FileLen /\ root' = [root EXCEPT !.pc = "init"]
      /\ UNCHANGED <<header, told, courts, creations, wanted, complete>>
  BY Zenon DEF set_len, history, FileLen
<1>3. len = 0 /\ header = Blank /\ root.missing = Fields /\ creations > 0 /\ FileLen # Overflow /\ ~complete
  BY <1>1, <1>2, Zenon DEF Creating
<1>4. root' = [pc |-> "init", missing |-> Fields]
  BY <1>1, <1>2, <1>3, Zenon DEF FileTypeOK
<1>5. FileLen \in Nat
  BY <1>1, <1>3, TotalLen, Zenon DEF FileLen, FileTypeOK, Layout
<1>6. FileTypeOK'
  BY <1>1, <1>2, <1>4, <1>5, Zenon DEF FileTypeOK
<1>7. Creating'
  <2>1. FileLen' = FileLen
    BY <1>2, Zenon DEF FileLen
  <2>2. \A f \in Fields : header'[f] = 0
    BY <1>2, <1>3, Zenon DEF Blank
  <2> QED
    BY <1>2, <1>3, <1>4, <2>1, <2>2, Zenon DEF Creating
<1>8. \A c \in Courts : Opening(c)'
  <2>1. \A c \in Courts : ~(SameFile(c) /\ courts[c].pc \in {"magic", "version", "layout", "in"})
    BY <1>1, <1>3, FileAssumption DEF Opening
  <2> QED
    BY <1>1, <1>2, <2>1, Zenon DEF Opening, SameFile
<1>9. TurnedAwayOnlyInRace'
  BY <1>1, <1>2, Zenon DEF TurnedAwayOnlyInRace, SameFile
<1> QED
  BY <1>6, <1>7, <1>8, <1>9, Zenon DEF FileInv

\* A court that looks on sees fields go from zero to their value.
LEMMA InitFieldInv == ASSUME FileInv, NEW field \in Fields, init(field) PROVE FileInv'
<1>1. FileTypeOK /\ Creating /\ TurnedAwayOnlyInRace /\ \A c \in Courts : Opening(c)
  BY Zenon DEF FileInv
<1>2. /\ root.pc = "init" /\ field \in root.missing
      /\ header' = [header EXCEPT ![field] = Written(wanted)[field]]
      /\ root' = [pc |-> IF root.missing = {field} THEN "done" ELSE "init",
                  missing |-> root.missing \ {field}]
      /\ complete' = (root.missing = {field})
      /\ UNCHANGED <<len, told, courts, creations, wanted>>
  BY Zenon DEF init
<1>3. /\ creations > 0 /\ len = FileLen /\ ~complete /\ FileLen # Overflow
      /\ \A f \in Fields : header[f] = IF f \in root.missing THEN 0 ELSE Written(wanted)[f]
  BY <1>1, <1>2, Zenon DEF Creating
<1>4. Written(wanted) \in [Fields -> Nat]
  BY <1>1, Zenon DEF FileTypeOK, Layout, Written
<1>5. /\ header' \in [Fields -> Nat]
      /\ \A f \in Fields : header'[f] = IF f = field THEN Written(wanted)[f] ELSE header[f]
  BY <1>1, <1>2, <1>4, Zenon DEF FileTypeOK
<1>6. FileTypeOK'
  <2>1. root' \in [pc : {"none", "set_len", "init", "done"}, missing : SUBSET Fields]
    BY <1>1, <1>2, Zenon DEF FileTypeOK
  <2>2. complete' \in BOOLEAN
    BY <1>2, Zenon
  <2> QED
    BY <1>1, <1>2, <1>5, <2>1, <2>2, Zenon DEF FileTypeOK
<1>7. Creating'
  <2>1. FileLen' = FileLen /\ Written(wanted)' = Written(wanted)
    BY <1>2, Zenon DEF FileLen
  <2>2. \A f \in Fields : header'[f] = IF f \in root.missing \ {field} THEN 0 ELSE Written(wanted)[f]
    BY <1>2, <1>3, <1>5, Zenon
  <2>3. ASSUME root.missing = {field} PROVE header' = Written(wanted)
    BY <1>4, <1>5, <2>2, <2>3
  <2>4. root.missing = {field} => root'.pc = "done" /\ complete'
    BY <1>2, Zenon
  <2>5. root.missing # {field} => root'.pc = "init" /\ ~complete'
    BY <1>2, Zenon
  <2>6. root'.missing = root.missing \ {field}
    BY <1>2, Zenon
  <2>7. \A f \in Fields : header'[f] \in {0, Written(wanted)[f]}
    BY <2>2, Zenon
  <2> QED
    BY <1>2, <1>3, <2>1, <2>2, <2>3, <2>4, <2>5, <2>6, <2>7, Zenon DEF Creating
<1>8. ASSUME NEW c \in Courts PROVE Opening(c)'
  <2>1. Opening(c) /\ (SameFile(c) => ~courts[c].found) /\ (SameFile(c)' <=> SameFile(c))
    BY <1>1, <1>2, <1>3, Zenon DEF Opening, SameFile
  <2>2. \A f \in DOMAIN NotLoaded : courts[c].loaded[f] \in {-1, 0, header[f]}
                                   => courts[c].loaded[f] \in {-1, 0, header'[f]}
    BY <1>2, <1>3, <1>5, Zenon DEF NotLoaded, Fields
  <2> QED
    BY <1>2, <2>1, <2>2, Zenon DEF Opening
<1>9. TurnedAwayOnlyInRace'
  BY <1>1, <1>2, Zenon DEF TurnedAwayOnlyInRace, SameFile
<1> QED
  BY <1>6, <1>7, <1>8, <1>9, Zenon DEF FileInv

\* Tell and RootEnds touch neither the file nor the courts.
LEMMA RootInv == ASSUME FileInv, Tell \/ RootEnds PROVE FileInv'
<1>1. FileTypeOK /\ Creating
  BY Zenon DEF FileInv
<1>2. UNCHANGED <<len, header, courts, creations, wanted, complete>>
  BY Zenon DEF Tell, RootEnds, file, history
<1>3. CASE Tell
  <2>1. root.pc = "done" /\ told' = TRUE /\ root' = root
    BY <1>3, Zenon DEF Tell
  <2>2. FileTypeOK' /\ Creating'
    BY <1>1, <1>2, <2>1, Zenon DEF FileTypeOK, Creating, FileLen
  <2> QED
    BY <1>2, <2>2, CourtsKept, Zenon DEF FileInv
<1>4. CASE RootEnds
  <2>1. root' = [pc |-> "none", missing |-> {}] /\ told' = told
    BY <1>4, Zenon DEF RootEnds
  <2>2. FileTypeOK' /\ Creating'
    BY <1>1, <1>2, <2>1, Zenon DEF FileTypeOK, Creating, FileLen
  <2> QED
    BY <1>2, <2>2, CourtsKept, Zenon DEF FileInv
<1> QED
  BY <1>3, <1>4, Zenon
\* A step of one court, which leaves the file and the other courts alone.
LEMMA OneCourt ==
  ASSUME FileInv, NEW c \in Courts, NEW k \in Court, courts' = [courts EXCEPT ![c] = k],
         UNCHANGED <<len, header, root, told, creations, wanted, complete>>, Opening(c)',
         k.pc \in {"refused", "killed"} /\ k.found => k.since # creations
  PROVE  FileInv'
<1>1. FileTypeOK /\ Creating /\ TurnedAwayOnlyInRace /\ \A d \in Courts : Opening(d)
  BY Zenon DEF FileInv
<1>2. /\ courts' \in [Courts -> Court] /\ courts'[c] = k
      /\ \A d \in Courts : d # c => courts'[d] = courts[d]
  BY <1>1, Zenon DEF FileTypeOK
<1>3. FileTypeOK'
  BY <1>1, <1>2, Zenon DEF FileTypeOK
<1>4. Creating'
  BY <1>1, Zenon DEF Creating, FileLen
<1>5. ASSUME NEW d \in Courts, d # c PROVE Opening(d)'
  BY <1>1, <1>2, <1>5, Zenon DEF Opening, SameFile
<1>6. TurnedAwayOnlyInRace'
  BY <1>1, <1>2, Zenon DEF TurnedAwayOnlyInRace, SameFile
<1> QED
  BY <1>3, <1>4, <1>5, <1>6, Zenon DEF FileInv

\* What is known of a court inside open.
LEMMA CourtFacts ==
  ASSUME FileInv, NEW c \in Courts
  PROVE  /\ FileTypeOK /\ Creating /\ Opening(c) /\ courts[c] \in Court
         /\ creations \in 0 .. MaxCreations /\ creations \in Nat /\ len \in Nat
         /\ courts[c].since <= creations /\ HeaderLen > 0 /\ HeaderLen \in Nat
<1> QED
  BY FileAssumption DEF FileInv, FileTypeOK, Opening

\* open finds a file that is there, whole or not.
LEMMA OpenInv == ASSUME FileInv, NEW c \in Courts, open(c) PROVE FileInv'
<1>1. /\ FileTypeOK /\ Creating /\ Opening(c) /\ courts[c] \in Court
      /\ creations \in 0 .. MaxCreations /\ creations \in Nat /\ len \in Nat
      /\ HeaderLen > 0 /\ HeaderLen \in Nat
  BY CourtFacts, Zenon
<1>2. PICK k : k = [courts[c] EXCEPT !.pc = IF len < HeaderLen THEN "refused" ELSE "magic",
                                     !.len = len, !.since = creations, !.found = complete]
  BY Zenon
<1>3. /\ told /\ courts[c].pc = "out" /\ courts' = [courts EXCEPT ![c] = k]
      /\ UNCHANGED <<len, header, root, told, creations, wanted, complete>>
  BY <1>1, <1>2, Zenon DEF open, map, file, history, FileTypeOK
<1>4. /\ k.pc = (IF len < HeaderLen THEN "refused" ELSE "magic") /\ k.len = len
      /\ k.since = creations /\ k.found = complete /\ k.loaded = NotLoaded
  <2>1. courts[c].loaded = NotLoaded
    BY <1>1, <1>3, Zenon DEF Opening
  <2> QED
    BY <1>1, <1>2, <2>1, Zenon DEF Court
<1>5. k \in Court
  <2>1. complete \in BOOLEAN
    BY <1>1, Zenon DEF FileTypeOK
  <2>2. (IF len < HeaderLen THEN "refused" ELSE "magic") \in
          {"out", "magic", "version", "layout", "in", "refused", "killed"}
    BY Zenon
  <2> QED
    BY <1>1, <1>2, <2>1, <2>2, Zenon DEF Court
<1>6. courts'[c] = k
  BY <1>1, <1>3, Zenon DEF FileTypeOK
<1>7. complete => len >= HeaderLen
  <2>1. ASSUME complete PROVE len = FileLen /\ FileLen # Overflow
    BY <1>1, <2>1, Zenon DEF Creating
  <2> QED
    BY <1>1, <2>1, TotalLen DEF FileLen, FileTypeOK, Layout
<1>8. \A f \in DOMAIN NotLoaded : NotLoaded[f] = -1
  BY Zenon DEF NotLoaded
<1>9. Opening(c)'
  <2>1. creations > 0
    BY <1>1, <1>3, Zenon DEF Creating
  <2> QED
    BY <1>1, <1>3, <1>4, <1>8, <2>1 DEF Opening, SameFile
<1>10. ~(k.pc \in {"refused", "killed"} /\ k.found)
  <2>1. k.pc \in {"refused", "killed"} => len < HeaderLen
    BY <1>4, Zenon
  <2>2. len < HeaderLen => ~complete
    BY <1>1, <1>7
  <2> QED
    BY <1>4, <2>1, <2>2, Zenon
<1> QED
  BY <1>3, <1>5, <1>9, <1>10, OneCourt, Zenon

\* A court that found the creation complete, and still has that file, finds
\* its length and all of its header.
LEMMA FoundIsThere ==
  ASSUME FileInv, NEW c \in Courts, courts[c].found, SameFile(c)
  PROVE  len = FileLen /\ len >= HeaderLen /\ header = Written(wanted)
<1>1. FileTypeOK /\ Creating /\ Opening(c)
  BY CourtFacts, Zenon
<1>2. complete /\ len = FileLen /\ header = Written(wanted) /\ FileLen # Overflow
  BY <1>1, Zenon DEF Opening, Creating
<1> QED
  BY <1>1, <1>2, TotalLen, Zenon DEF FileLen, FileTypeOK, Layout

\* The loads of magic and version.
LEMMA LoadMarkInv ==
  ASSUME FileInv, NEW c \in Courts, NEW field \in {"magic", "version"},
         NEW next \in {"version", "layout"}, LoadMark(c, field, next)
  PROVE  FileInv'
<1>1. /\ FileTypeOK /\ Opening(c) /\ courts[c] \in Court /\ len \in Nat
      /\ HeaderLen > 0 /\ HeaderLen \in Nat
  BY CourtFacts, Zenon
<1>2. PICK pc, k : /\ pc = (IF len = 0 THEN "killed" ELSE IF header[field] # 1 THEN "refused" ELSE next)
                   /\ k = [courts[c] EXCEPT !.pc = pc]
  BY Zenon
<1>3. /\ courts[c].pc = field /\ courts' = [courts EXCEPT ![c] = k]
      /\ UNCHANGED <<len, header, root, told, creations, wanted, complete>>
  BY <1>1, <1>2, Zenon DEF LoadMark, At, file, history, FileTypeOK
<1>4. /\ k \in Court /\ k.pc = pc /\ k.len = courts[c].len /\ k.loaded = courts[c].loaded
      /\ k.since = courts[c].since /\ k.found = courts[c].found
  <2>1. pc \in {"out", "magic", "version", "layout", "in", "refused", "killed"}
    BY <1>2, Zenon
  <2> QED
    BY <1>1, <1>2, <2>1, Zenon DEF Court
<1>5. courts'[c] = k
  BY <1>1, <1>3, Zenon DEF FileTypeOK
<1>6. Opening(c)'
  <2>1. pc \in {"killed", "refused", "version", "layout"} /\ courts[c].pc \in {"magic", "version"}
    BY <1>2, <1>3, Zenon
  <2> QED
    BY <1>1, <1>3, <1>4, <2>1 DEF Opening, SameFile
<1>7. ASSUME k.pc \in {"refused", "killed"}, k.found PROVE k.since # creations
  <2> SUFFICES ASSUME courts[c].found, SameFile(c) PROVE FALSE
    BY <1>4, <1>7, Zenon DEF SameFile
  <2>1. len >= HeaderLen /\ header[field] = 1
    BY FoundIsThere, Zenon DEF Written, Fields
  <2> QED
    BY <1>1, <1>2, <1>4, <1>7, <2>1
<1> QED
  BY <1>3, <1>4, <1>6, <1>7, OneCourt, Zenon

\* The loads of the layout.
LEMMA LoadLayoutInv ==
  ASSUME FileInv, NEW c \in Courts, NEW field \in {"capacity", "slot_size"}, LoadLayout(c, field)
  PROVE  FileInv'
<1>1. /\ FileTypeOK /\ Opening(c) /\ courts[c] \in Court /\ len \in Nat
      /\ HeaderLen > 0 /\ HeaderLen \in Nat
  BY CourtFacts, Zenon
<1>2. /\ courts[c].pc = "layout"
      /\ UNCHANGED <<len, header, root, told, creations, wanted, complete>>
  BY Zenon DEF LoadLayout, file, history
<1>3. CASE len = 0
  <2>1. PICK k : k = [courts[c] EXCEPT !.pc = "killed"]
    BY Zenon
  <2>2. courts' = [courts EXCEPT ![c] = k]
    BY <1>1, <1>3, <2>1, Zenon DEF LoadLayout, FileTypeOK
  <2>3. /\ k \in Court /\ k.pc = "killed" /\ k.len = courts[c].len /\ k.loaded = courts[c].loaded
        /\ k.since = courts[c].since /\ k.found = courts[c].found
    BY <1>1, <2>1, Zenon DEF Court
  <2>4. courts'[c] = k
    BY <1>1, <2>2, Zenon DEF FileTypeOK
  <2>5. Opening(c)'
    BY <1>1, <1>2, <2>3, <2>4, Zenon DEF Opening, SameFile
  <2>6. k.found => k.since # creations
    <3>1. ~(courts[c].found /\ SameFile(c))
      BY <1>1, <1>3, FoundIsThere
    <3> QED
      BY <2>3, <3>1, Zenon DEF SameFile
  <2> QED
    BY <1>2, <2>2, <2>3, <2>5, <2>6, OneCourt, Zenon
<1>4. CASE len # 0
  <2>1. PICK k : k = [courts[c] EXCEPT !.loaded[field] = header[field]]
    BY Zenon
  <2>2. courts' = [courts EXCEPT ![c] = k]
    BY <1>1, <1>4, <2>1, Zenon DEF LoadLayout, FileTypeOK
  <2>3. header[field] \in Nat /\ courts[c].loaded \in [{"capacity", "slot_size"} -> Nat \cup {-1}]
    BY <1>1, Zenon DEF FileTypeOK, Court, Fields
  <2>4. PICK now : now = [courts[c].loaded EXCEPT ![field] = header[field]]
    BY Zenon
  <2>5. /\ now \in [{"capacity", "slot_size"} -> Nat \cup {-1}]
        /\ \A f \in {"capacity", "slot_size"} :
             now[f] = IF f = field THEN header[f] ELSE courts[c].loaded[f]
    BY <2>3, <2>4, Zenon
  <2>6. /\ k \in Court /\ k.pc = "layout" /\ k.len = courts[c].len /\ k.loaded = now
        /\ k.since = courts[c].since /\ k.found = courts[c].found
    BY <1>1, <1>2, <2>1, <2>4, <2>5, Zenon DEF Court
  <2>7. courts'[c] = k
    BY <1>1, <2>2, Zenon DEF FileTypeOK
  <2>8. Opening(c)'
    <3>1. DOMAIN NotLoaded = {"capacity", "slot_size"}
      BY Zenon DEF NotLoaded
    <3> QED
      BY <1>1, <1>2, <2>5, <2>6, <2>7, <3>1, Zenon DEF Opening, SameFile
  <2> QED
    BY <1>2, <2>2, <2>6, <2>8, OneCourt, Zenon
<1> QED
  BY <1>3, <1>4, Zenon

\* The comparison of the lengths.
LEMMA ValidateInv == ASSUME FileInv, NEW c \in Courts, Validate(c) PROVE FileInv'
<1>1. /\ FileTypeOK /\ Opening(c) /\ courts[c] \in Court /\ len \in Nat
  BY CourtFacts, Zenon
<1>2. PICK pc, k : /\ pc = IF total_len(courts[c].loaded["capacity"], courts[c].loaded["slot_size"]) = courts[c].len
                           THEN "in" ELSE "refused"
                   /\ k = [courts[c] EXCEPT !.pc = pc]
  BY Zenon
<1>3. /\ courts[c].pc = "layout" /\ courts' = [courts EXCEPT ![c] = k]
      /\ \A f \in DOMAIN NotLoaded : courts[c].loaded[f] # -1
      /\ UNCHANGED <<len, header, root, told, creations, wanted, complete>>
  BY <1>1, <1>2, Zenon DEF Validate, At, file, history, FileTypeOK
<1>4. /\ k \in Court /\ k.pc = pc /\ k.len = courts[c].len /\ k.loaded = courts[c].loaded
      /\ k.since = courts[c].since /\ k.found = courts[c].found
  <2>1. pc \in {"out", "magic", "version", "layout", "in", "refused", "killed"}
    BY <1>2, Zenon
  <2> QED
    BY <1>1, <1>2, <2>1, Zenon DEF Court
<1>5. courts'[c] = k
  BY <1>1, <1>3, Zenon DEF FileTypeOK
<1>6. Opening(c)'
  <2>1. pc = "in" =>
          total_len(courts[c].loaded["capacity"], courts[c].loaded["slot_size"]) = courts[c].len
    BY <1>2, Zenon
  <2>2. pc \in {"in", "refused"}
    BY <1>2, Zenon
  <2> QED
    BY <1>1, <1>3, <1>4, <1>5, <2>1, <2>2, Zenon DEF Opening, SameFile
<1>7. ASSUME k.pc \in {"refused", "killed"}, k.found PROVE k.since # creations
  <2> SUFFICES ASSUME courts[c].found, SameFile(c) PROVE FALSE
    BY <1>4, <1>7, Zenon DEF SameFile
  <2>1. len = FileLen /\ header = Written(wanted)
    BY FoundIsThere, Zenon
  <2>2. courts[c].len = len /\ \A f \in {"capacity", "slot_size"} : courts[c].loaded[f] = header[f]
    BY <1>1, <1>3, Zenon DEF Opening, NotLoaded
  <2>3. header["capacity"] = wanted.capacity /\ header["slot_size"] = wanted.slot_size
    BY <2>1, Zenon DEF Written, Fields
  <2> QED
    BY <1>2, <1>4, <1>7, <2>1, <2>2, <2>3 DEF FileLen
<1> QED
  BY <1>3, <1>4, <1>6, <1>7, OneCourt, Zenon
\* Before the first creation nobody has opened anything.
LEMMA InitFile == ASSUME FileInit PROVE FileInv
<1>1. /\ len = 0 /\ header = Blank /\ root = [pc |-> "none", missing |-> {}] /\ told = FALSE
      /\ creations = 0 /\ wanted \in Layout /\ complete = FALSE
  BY FileAssumption, Zenon DEF FileInit
<1>2. PICK k : k = [pc |-> "out", len |-> 0, loaded |-> NotLoaded, since |-> 0, found |-> FALSE]
  BY Zenon
<1>3. courts = [c \in Courts |-> k]
  BY <1>2, Zenon DEF FileInit
<1>4. k \in Court
  <2>1. NotLoaded \in [{"capacity", "slot_size"} -> Nat \cup {-1}] /\ 0 \in 0 .. MaxCreations
    BY FileAssumption DEF NotLoaded
  <2> QED
    BY <1>2, <2>1, Zenon DEF Court
<1>5. k.pc = "out" /\ k.loaded = NotLoaded /\ k.since = 0 /\ ~k.found
  BY <1>2, Zenon
<1>6. Blank \in [Fields -> Nat] /\ \A f \in Fields : Blank[f] = 0
  BY Zenon DEF Blank
<1>7. FileTypeOK
  <2>1. root \in [pc : {"none", "set_len", "init", "done"}, missing : SUBSET Fields]
    BY <1>1, Zenon
  <2>2. len \in Nat /\ creations \in 0 .. MaxCreations
    BY <1>1, FileAssumption
  <2>3. told \in BOOLEAN /\ complete \in BOOLEAN
    BY <1>1, Zenon
  <2>4. courts \in [Courts -> Court]
    BY <1>3, <1>4, Zenon
  <2> QED
    BY <1>1, <1>3, <1>4, <1>6, <2>1, <2>2, <2>3, <2>4, Zenon DEF FileTypeOK
<1>8. Creating
  BY <1>1, <1>6 DEF Creating
<1>9. \A c \in Courts : Opening(c)
  BY <1>1, <1>3, <1>5 DEF Opening
<1>10. TurnedAwayOnlyInRace
  BY <1>3, <1>5, Zenon DEF TurnedAwayOnlyInRace
<1> QED
  BY <1>7, <1>8, <1>9, <1>10, Zenon DEF FileInv

\* Every step of a root or a court keeps the invariant.
LEMMA StepFile == ASSUME FileInv, [FileNext]_file_vars PROVE FileInv'
<1>1. ASSUME NEW layout \in Layouts, create(layout) PROVE FileInv'
  BY <1>1, CreateInv, Zenon
<1>2. CASE set_len
  BY <1>2, SetLenInv, Zenon
<1>3. ASSUME NEW field \in Fields, init(field) PROVE FileInv'
  BY <1>3, InitFieldInv, Zenon
<1>4. CASE Tell \/ RootEnds
  BY <1>4, RootInv, Zenon
<1>5. ASSUME NEW c \in Courts, open(c) PROVE FileInv'
  BY <1>5, OpenInv, Zenon
<1>6. ASSUME NEW c \in Courts, LoadMark(c, "magic", "version") \/ LoadMark(c, "version", "layout")
      PROVE  FileInv'
  BY <1>6, LoadMarkInv, Zenon
<1>7. ASSUME NEW c \in Courts, NEW field \in DOMAIN NotLoaded, LoadLayout(c, field) PROVE FileInv'
  BY <1>7, LoadLayoutInv, Zenon DEF NotLoaded
<1>8. ASSUME NEW c \in Courts, Validate(c) PROVE FileInv'
  BY <1>8, ValidateInv, Zenon
<1>9. CASE UNCHANGED file_vars
  <2>1. UNCHANGED <<len, header, root, told, courts, creations, wanted, complete>>
    BY <1>9, Zenon DEF file_vars, file, history
  <2>2. FileTypeOK' /\ Creating'
    BY <2>1, Zenon DEF FileInv, FileTypeOK, Creating, FileLen
  <2> QED
    BY <2>1, <2>2, CourtsKept, Zenon DEF FileInv
<1> QED
  BY <1>1, <1>2, <1>3, <1>4, <1>5, <1>6, <1>7, <1>8, <1>9, Zenon DEF FileNext

\* Validation leaves no doubt about the layout.
LEMMA InvFits == ASSUME FileInv PROVE MappingFits
<1> SUFFICES ASSUME NEW c \in Courts, courts[c].pc = "in", SameFile(c)
             PROVE  /\ header["capacity"] # 0
                    /\ \A s \in 0 .. header["capacity"] - 1 : SlotFits(s, courts[c].len)
                    /\ \A s, t \in 0 .. header["capacity"] - 1 : s < t => SlotsApart(s, t)
  BY Zenon DEF MappingFits
<1>1. FileTypeOK /\ Creating /\ Opening(c) /\ courts[c] \in Court /\ HeaderLen > 0 /\ HeaderLen \in Nat
  BY CourtFacts, Zenon
<1>2. PICK cap \in Nat \ {0}, size \in Nat \ {0} : cap = wanted.capacity /\ size = wanted.slot_size
  BY <1>1, Zenon DEF FileTypeOK, Layout
<1>3. PICK d, t : d = courts[c].loaded["capacity"] /\ t = courts[c].loaded["slot_size"]
  BY Zenon
<1>4. /\ creations > 0 /\ courts[c].len = len /\ len >= HeaderLen
      /\ d # -1 /\ t # -1 /\ d \in {-1, 0, header["capacity"]} /\ t \in {-1, 0, header["slot_size"]}
      /\ total_len(d, t) = courts[c].len
  BY <1>1, <1>3, Zenon DEF Opening, NotLoaded
<1>5. header["capacity"] \in {0, cap} /\ header["slot_size"] \in {0, size}
  BY <1>1, <1>2, Zenon DEF Creating, Written, Fields
<1>6. /\ len = total_len(cap, size) /\ total_len(cap, size) # Overflow
  BY <1>1, <1>2, <1>4 DEF Creating, FileLen
<1>7. d = cap /\ t = size
  BY <1>4, <1>5, <1>6, Torn
<1>8. header["capacity"] = cap /\ header["slot_size"] = size
  BY <1>4, <1>5, <1>7, Zenon
<1>9. ASSUME NEW s \in 0 .. cap - 1 PROVE SlotFits(s, courts[c].len)
  BY <1>4, <1>6, <1>8, SlotsInFile DEF SlotFits
<1>10. ASSUME NEW s \in 0 .. cap - 1, NEW u \in 0 .. cap - 1, s < u PROVE SlotsApart(s, u)
  <2>1. slot_ptr(u, size) = HeaderLen + u * slot_stride(size)
    BY <1>6, SlotsInFile, Zenon
  <2> QED
    BY <1>6, <1>8, <1>10, SlotsInFile DEF SlotsApart
<1> QED
  BY <1>8, <1>9, <1>10, Zenon

-----------------------------------------------------------------------------
\* What create has done so far and what open has seen of it always go
\* together, whatever the roots and the courts do in between.
THEOREM FileInvariant == FileSpec => []FileInv
<1> QED
  BY InitFile, StepFile, PTL DEF FileSpec

\* A court that open lets in can use every slot, and only slots.
THEOREM MappingAlwaysFits == FileSpec => []MappingFits
<1> QED
  BY InvFits, FileInvariant, PTL

\* A ring that is left alone after create returned can be opened.
THEOREM OpenSucceedsWithoutRace == FileSpec => []TurnedAwayOnlyInRace
<1>1. FileInv => TurnedAwayOnlyInRace
  BY Zenon DEF FileInv
<1> QED
  BY <1>1, FileInvariant, PTL
=============================================================================

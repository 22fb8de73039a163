----------------------------- MODULE RootTables -----------------------------
(***************************************************************************)
(* The tables of the bare-metal Root Court (object.rs): courts,            *)
(* capabilities and namespace bindings in arrays that only fill up.  A     *)
(* table is the sequence of its occupied slots, first to last: no code     *)
(* empties a slot, so the first free one is the one after them.  Rights    *)
(* are sets.  An operation yields [ok, root, id].                          *)
(***************************************************************************)
EXTENDS Naturals, Sequences

CONSTANTS MAX_COURTS, MAX_CAPS, MAX_BINDINGS

\* The constants of object.rs are 8, 16 and 16; what matters of them is that
\* a court finds a free binding.
ASSUME TableSizes ==
  /\ MAX_COURTS \in Nat /\ MAX_CAPS \in Nat /\ MAX_BINDINGS \in Nat
  /\ MAX_COURTS <= MAX_BINDINGS

RIGHT_SEND == "send"
RIGHT_RECV == "recv"
OBSERVE == "observe"

NewRoot ==
  [next_court |-> 0, next_cap |-> 0, next_object |-> 0,
   courts |-> <<>>, caps |-> <<>>, bindings |-> <<>>]

Done(root, id) == [ok |-> TRUE, root |-> root, id |-> id]
Refused(root) == [ok |-> FALSE, root |-> root, id |-> 0]

\* Mutant: the table takes one court more than it has slots.
create_courtOverfull(root) ==
  IF Len(root.courts) <= MAX_COURTS
  THEN Done([root EXCEPT !.next_court = @ + 1,
                         !.courts = Append(@, root.next_court + 1)],
            root.next_court + 1)
  ELSE Refused(root)

create_court(root) ==
  IF Len(root.courts) < MAX_COURTS
  THEN Done([root EXCEPT !.next_court = @ + 1,
                         !.courts = Append(@, root.next_court + 1)],
            root.next_court + 1)
  ELSE Refused(root)

alloc_object(root) == [root EXCEPT !.next_object = @ + 1]

bind(root, path, object) ==
  IF Len(root.bindings) < MAX_BINDINGS
  THEN Done([root EXCEPT !.bindings = Append(@, [path |-> path, object |-> object])], object)
  ELSE Refused(root)

\* Mutant: a capability takes the place and the number of a revoked one.
mintReusing(root, object, rights) ==
  LET free == {i \in DOMAIN root.caps : root.caps[i].rights = {}}
      i == CHOOSE i \in free : TRUE
      id == root.next_cap + 1
  IN  IF free # {}
      THEN Done([root EXCEPT !.caps[i] = [@ EXCEPT !.object = object, !.rights = rights]],
                root.caps[i].id)
      ELSE IF Len(root.caps) < MAX_CAPS
      THEN Done([root EXCEPT !.next_cap = id,
                             !.caps = Append(@, [id |-> id, object |-> object,
                                                 rights |-> rights])], id)
      ELSE Refused(root)

mint(root, object, rights) ==
  LET id == root.next_cap + 1
  IN  IF Len(root.caps) < MAX_CAPS
      THEN Done([root EXCEPT !.next_cap = id,
                             !.caps = Append(@, [id |-> id, object |-> object,
                                                 rights |-> rights])], id)
      ELSE Refused(root)

\* Mutant: the name is bound before there is a court.
spawn_courtNamedFirst(root, path) ==
  LET object == alloc_object(root)
      bound == bind(object, path, object.next_object)
      court == create_court(bound.root)
  IN  IF bound.ok THEN court ELSE bound

\* A failing bind leaves the court in its table.
spawn_court(root, path) ==
  LET court == create_court(root)
      object == alloc_object(court.root)
  IN  IF court.ok THEN bind(object, path, object.next_object) ELSE court

\* bootstrap runs once, on the empty tables.
bootstrap(root) ==
  LET named == spawn_court(root, "root")
  IN  IF named.ok THEN mint(named.root, named.id, {OBSERVE}) ELSE named

\* The slots that hold a capability: at most one, as RootObjects shows.
CapsAt(root, cap) == {i \in DOMAIN root.caps : root.caps[i].id = cap}

revoke_cap(root, cap) ==
  IF CapsAt(root, cap) = {} THEN Refused(root)
  ELSE LET first == CHOOSE i \in CapsAt(root, cap) : \A j \in CapsAt(root, cap) : i <= j
       IN  Done([root EXCEPT !.caps[first].rights = {}], cap)

\* An Option is the set of what is in it.
None == {}
Some(rights) == {rights}

cap_rights(root, cap) ==
  IF CapsAt(root, cap) = {} THEN None
  ELSE Some(root.caps[CHOOSE i \in CapsAt(root, cap) : \A j \in CapsAt(root, cap) : i <= j].rights)
=============================================================================

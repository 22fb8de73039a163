------------------------------ MODULE Manifest ------------------------------
(***************************************************************************)
(* Manifest and policy files of crates/court-hosted-linux/src/manifest.rs: *)
(* what validate accepts, and the name root.rs gives a corridor's ring.    *)
(*                                                                         *)
(* A manifest is a record of sequences, as in the JSON file.  A path is    *)
(* the sequence of the components after its first slash, and a component   *)
(* the sequence of the words between its dashes, so that joining with a    *)
(* dash is concatenation.  Rights are sets of right names, which is what   *)
(* parse_rights makes of a list.  An error's text is left out: a file is   *)
(* valid or it is not.                                                     *)
(***************************************************************************)
EXTENDS Naturals, Sequences, Functions

SCHEMA_VERSION == 1

PHASE_ORDER ==
  <<"lookup", "open_denied", "grant", "open", "send", "recv", "revoke",
    "send_after_revoke", "fault", "court_fault", "peer_down", "demo_done">>

KnownRights == {"read", "write", "send", "recv", "delegate", "revoke", "observe"}

\* phase_index(name); 0 stands for None.
phase_index(name) ==
  IF name \in Range(PHASE_ORDER)
  THEN CHOOSE i \in DOMAIN PHASE_ORDER : PHASE_ORDER[i] = name
  ELSE 0

require_phase_before(after, action) ==
  phase_index(after) > 0 /\ phase_index(after) < phase_index(action)

CourtNames(m) == {m.courts[i].name : i \in DOMAIN m.courts}
CorridorPaths(m) == {m.corridors[i].path : i \in DOMAIN m.corridors}
WithRole(m, role) == {i \in DOMAIN m.courts : m.courts[i].role = role}

\* Court names are not empty and not repeated; one app, at least one net.
CourtsValid(m) ==
  /\ "" \notin CourtNames(m)
  /\ IsInjective([i \in DOMAIN m.courts |-> m.courts[i].name])
  /\ \E i \in WithRole(m, "app") : WithRole(m, "app") = {i}
  /\ WithRole(m, "net") # {}

\* What is between two slashes in a row, or after the last one.
EmptyPart == <<"">>

\* A path begins with /court/ and goes on.
CorridorsValid(m) ==
  /\ m.corridors # <<>>
  /\ IsInjective([i \in DOMAIN m.corridors |-> m.corridors[i].path])
  /\ \A corridor \in Range(m.corridors) :
       /\ Len(corridor.path) > 1 /\ corridor.path[1] = <<"court">>
       /\ corridor.path # <<<<"court">>, EmptyPart>>
       /\ corridor.from # corridor.to
       /\ {corridor.from, corridor.to} \subseteq CourtNames(m)
       /\ corridor.capacity # 0
       /\ corridor.slot_size # 0

GrantKeys(p) == {<<grant.court, grant.path>> : grant \in Range(p.grants)}

GrantsValid(m, p) ==
  /\ p.grants # <<>>
  /\ GrantKeys(p) \subseteq CourtNames(m) \X CorridorPaths(m)
  /\ \A grant \in Range(p.grants) : grant.rights # {} /\ grant.rights \subseteq KnownRights
  /\ \E grant \in Range(p.grants) : "send" \in grant.rights
  /\ \E grant \in Range(p.grants) : "recv" \in grant.rights

RevokesValid(p) ==
  \A revoke \in Range(p.revokes) :
    /\ <<revoke.court, revoke.path>> \in GrantKeys(p)
    /\ require_phase_before(revoke.after, "revoke")

FaultsValid(m, p) ==
  /\ \A fault \in Range(p.faults) :
       /\ fault.court \in CourtNames(m)
       /\ fault.reason # ""
       /\ require_phase_before(fault.after, "fault")
  /\ \A down \in Range(p.peer_down) :
       /\ <<down.court, down.path>> \in CourtNames(m) \X CorridorPaths(m)
       /\ require_phase_before(down.after, "peer_down")

validate(m, p) ==
  /\ m.version = SCHEMA_VERSION /\ p.version = SCHEMA_VERSION
  /\ m.payload_len > 0
  /\ CourtsValid(m)
  /\ CorridorsValid(m)
  /\ GrantsValid(m, p)
  /\ RevokesValid(p)
  /\ FaultsValid(m, p)

\* ring_file_name joins the last two components that are not empty; of a
\* single one trim_matches leaves just that.
ring_file_name(path) ==
  LET parts == SelectSeq(path, LAMBDA part : part # EmptyPart)
      n == Len(parts)
  IN  IF n >= 2 THEN parts[n - 1] \o parts[n]
      ELSE IF n = 1 THEN parts[1] ELSE EmptyPart
=============================================================================

---------------------------- MODULE RootObjects ----------------------------
(***************************************************************************)
(* The Root Court's object model under any sequence of its public          *)
(* operations, up to and past the point where its tables are full.         *)
(***************************************************************************)
EXTENDS RootTables

CONSTANTS
  Paths,   \* names a court may be spawned under
  Rights   \* sets of rights a capability may be minted with

ASSUME RightsAssumption == {OBSERVE} \in Rights

VARIABLES
  root,
  revoked   \* the capabilities revoke_cap was called for

root_vars == <<root, revoked>>

ObjectIds == 1 .. root.next_object

RootInit ==
  /\ root = bootstrap(NewRoot).root
  /\ revoked = {}

SpawnCourt(path) ==
  /\ root' = spawn_court(root, path).root
  /\ UNCHANGED revoked

MintCap(object, rights) ==
  /\ root' = mint(root, object, rights).root
  /\ UNCHANGED revoked

RevokeCap(cap) ==
  /\ root' = revoke_cap(root, cap).root
  /\ revoked' = IF revoke_cap(root, cap).ok THEN revoked \cup {cap} ELSE revoked

RootNext ==
  \/ \E path \in Paths : SpawnCourt(path)
  \/ \E object \in ObjectIds, rights \in Rights : MintCap(object, rights)
  \/ \E cap \in 1 .. MAX_CAPS : RevokeCap(cap)

RootSpec == RootInit /\ [][RootNext]_root_vars

-----------------------------------------------------------------------------
Cap == [id : Nat, object : Nat, rights : Rights \cup {{}}]
Binding == [path : Paths \cup {"root"}, object : Nat]

RootCourt ==
  [next_court : Nat, next_cap : Nat, next_object : Nat,
   courts : Seq(Nat), caps : Seq(Cap), bindings : Seq(Binding)]

WithinArrays(r) ==
  /\ Len(r.courts) <= MAX_COURTS
  /\ Len(r.caps) <= MAX_CAPS
  /\ Len(r.bindings) <= MAX_BINDINGS

\* The tables hold what they should and have not outgrown their arrays.
RootTypeOK == root \in RootCourt /\ WithinArrays(root) /\ revoked \subseteq Nat

\* spawn_court creates the court first and binds its name after, and does not
\* undo the first if the second fails.  It never has to: there are as many
\* names as courts and at least as many slots for them, so a refused spawn
\* leaves no court without a name and no name without a court.
SpawnIsAllOrNothing == Len(root.bindings) = Len(root.courts)

\* A capability revoke_cap was called for is there and has no rights, whatever
\* is minted afterwards.
RevokedIsEmpty == \A cap \in revoked : cap_rights(root, cap) = Some({})

\* What makes the latter inductive: capability numbers are those of the
\* slots, so that no number is given twice, and what was revoked is in its
\* slot without rights.
IdsAreSlots(r) == r.next_cap = Len(r.caps) /\ \A i \in DOMAIN r.caps : r.caps[i].id = i
EmptySlots == revoked \subseteq {i \in DOMAIN root.caps : root.caps[i].rights = {}}
RootInv == RootTypeOK /\ SpawnIsAllOrNothing /\ IdsAreSlots(root) /\ EmptySlots
=============================================================================

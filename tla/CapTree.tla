------------------------------ MODULE CapTree -------------------------------
(***************************************************************************)
(* What the capability registry promises: a derivation forest in which     *)
(* delegation never amplifies rights and revocation takes away, in one     *)
(* indivisible step, a capability and everything derived from it and       *)
(* nothing else.                                                           *)
(*                                                                         *)
(* CapRegistry implements this specification with an explicit worklist     *)
(* (shown by TLC and proved); HostedRoot is built on it.                   *)
(***************************************************************************)
EXTENDS Caps

VARIABLES
  next_cap,  \* the last cap id handed out
  caps       \* [1 .. next_cap -> Capability]

vars == <<next_cap, caps>>

\* The table is a function on the ids handed out so far.
TypeOK ==
  /\ next_cap \in 0 .. MaxCap
  /\ caps \in [1 .. next_cap -> Capability]

Init ==
  /\ next_cap = 0
  /\ caps = [c \in {} |-> RootCap({}, {})]

\* alloc_cap followed by caps.insert.
Insert(record) ==
  /\ next_cap < MaxCap
  /\ next_cap' = next_cap + 1
  /\ caps' = [c \in 1 .. next_cap + 1 |->
                IF c = next_cap + 1 THEN record ELSE caps[c]]

MintRoot(object, rights) == Insert(RootCap(object, rights))

Delegate(parent, rights) ==
  /\ DelegateResult(caps, parent, rights) = "Ok"
  /\ Insert(ChildCap(caps[parent], parent, rights))

Revoke(cap) ==
  /\ cap \in DOMAIN caps
  /\ caps' = [c \in DOMAIN caps |->
                IF c \in DerivedFrom(caps, {cap})
                THEN [caps[c] EXCEPT !.revoked = TRUE] ELSE caps[c]]
  /\ UNCHANGED next_cap

Next ==
  \/ \E object \in Objects, rights \in SUBSET AllRights : MintRoot(object, rights)
  \/ \E parent \in CapIds, rights \in SUBSET AllRights : Delegate(parent, rights)
  \/ \E cap \in CapIds : Revoke(cap)

Spec == Init /\ [][Next]_vars
=============================================================================

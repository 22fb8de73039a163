-------------------------------- MODULE Caps --------------------------------
(***************************************************************************)
(* Capabilities of the hosted object model (crates/court-hosted).          *)
(*                                                                         *)
(* A capability names an object and carries a set of rights.  A table of   *)
(* capabilities is a function from the allocated cap ids 1 .. next_cap to  *)
(* records; the parent field makes it a derivation forest.  The operators  *)
(* of this module are the pure parts of CapRegistry: what delegate and     *)
(* authorize answer, the records they insert, and the set of capabilities  *)
(* derived from given ones.                                                *)
(*                                                                         *)
(* The u64 rights mask is a set of rights and Rights::contains is set      *)
(* inclusion.  ObjectType has the single variant Corridor, so the type     *)
(* comparison of authorize cannot fail and the field is left out.          *)
(***************************************************************************)
EXTENDS Integers

CONSTANTS
  Objects,    \* ObjectId values a root capability may be minted for
  AllRights,  \* the named bits of Rights
  DELEGATE,   \* Rights::DELEGATE
  MaxCap      \* bound of the model on next_cap, a u64 in the code

ASSUME CapsAssumption ==
  /\ DELEGATE \in AllRights
  /\ MaxCap \in Nat

\* Option<CapId>::None; alloc_cap increments first, so no cap has id 0.
NoCap == 0

CapIds == 1 .. MaxCap

Capability ==
  [object    : Objects,
   rights    : SUBSET AllRights,
   parent    : {NoCap} \cup CapIds,
   revoked   : BOOLEAN,
   delegable : BOOLEAN]

\* The record mint_root inserts.
RootCap(object, rights) ==
  [object |-> object, rights |-> rights, parent |-> NoCap,
   revoked |-> FALSE, delegable |-> TRUE]

\* The record delegate inserts under the capability p with id parent.
ChildCap(p, parent, rights) ==
  [object |-> p.object, rights |-> rights, parent |-> parent,
   revoked |-> FALSE, delegable |-> DELEGATE \in rights]

\* Mutant: delegate does not compare the rights asked for with the parent's.
DelegateResultAmplifying(caps, parent, rights) ==
  IF parent \notin DOMAIN caps THEN "BadCap"
  ELSE IF caps[parent].revoked THEN "Revoked"
  ELSE IF ~caps[parent].delegable \/ DELEGATE \notin caps[parent].rights
       THEN "NoRight"
  ELSE "Ok"

\* The answer of delegate, in the order of its early returns.
DelegateResult(caps, parent, rights) ==
  IF parent \notin DOMAIN caps THEN "BadCap"
  ELSE IF caps[parent].revoked THEN "Revoked"
  ELSE IF ~caps[parent].delegable \/ DELEGATE \notin caps[parent].rights
       THEN "NoRight"
  ELSE IF ~(rights \subseteq caps[parent].rights) THEN "NoRight"
  ELSE "Ok"

\* The answer of authorize; when it is Ok the code returns caps[cap].object.
AuthorizeResult(caps, cap, rights) ==
  IF cap \notin DOMAIN caps THEN "BadCap"
  ELSE IF caps[cap].revoked THEN "Revoked"
  ELSE IF ~(rights \subseteq caps[cap].rights) THEN "NoRight"
  ELSE "Ok"

\* T contains every capability derived from a member of T.
ClosedUnderDerivation(caps, T) ==
  \A c \in DOMAIN caps : caps[c].parent \in T => c \in T

\* The members of S and every capability derived from them: the least
\* closed set that contains S.
DerivedFrom(caps, S) ==
  {c \in DOMAIN caps :
     \A T \in SUBSET DOMAIN caps :
        S \subseteq T /\ ClosedUnderDerivation(caps, T) => c \in T}
=============================================================================

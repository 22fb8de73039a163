---------------------------- MODULE CapRegistry -----------------------------
(***************************************************************************)
(* CapRegistry of crates/court-hosted/src/lib.rs, with the loop of revoke  *)
(* taken one iteration at a time.                                          *)
(*                                                                         *)
(* The derivation tree is kept twice by the code: upwards in the parent    *)
(* field of each capability and downwards in the children table.  Only     *)
(* revoke reads the downward copy.  While its loop runs, stack holds the   *)
(* capabilities still to be visited; every method takes &mut self, so no   *)
(* other operation starts until the stack is empty again.                  *)
(*                                                                         *)
(* A call that returns an error changes nothing and is not a step; the     *)
(* answers themselves are DelegateResult and AuthorizeResult of Caps.      *)
(***************************************************************************)
EXTENDS Caps, Sequences

VARIABLES
  next_cap,
  caps,
  children,  \* cap id -> sequence of the ids delegated from it
  stack      \* the local worklist of revoke; empty when no call is running

vars == <<next_cap, caps, children, stack>>

\* The ids handed out so far: the keys of caps.
Allocated == 1 .. next_cap

Idle == stack = <<>>

Elements(s) == {s[i] : i \in 1 .. Len(s)}

\* The ids children lists for p.
ChildSet(p) == Elements(children[p])

\* The ids on the worklist.
Pending == Elements(stack)

\* Every variable is of its type: what children and the worklist of revoke name
\* are ids that alloc_cap has handed out.
TypeOK ==
  /\ next_cap \in 0 .. MaxCap
  /\ caps \in [Allocated -> Capability]
  /\ children \in [Allocated -> Seq(Allocated)]
  /\ stack \in Seq(Allocated)

-----------------------------------------------------------------------------
Init ==
  /\ next_cap = 0
  /\ caps = [c \in {} |-> RootCap({}, {})]
  /\ children = [c \in {} |-> <<>>]
  /\ stack = <<>>

\* Mutant: mint_root takes the number of a revoked capability.
mint_rootReusing(object, rights) ==
  /\ Idle
  /\ \E c \in 1 .. MaxCap :
       /\ IF c \in Allocated THEN caps[c].revoked ELSE c = next_cap + 1
       /\ next_cap' = IF c \in Allocated THEN next_cap ELSE c
       /\ caps' = [d \in 1 .. next_cap' |-> IF d = c THEN RootCap(object, rights) ELSE caps[d]]
       /\ children' = [d \in 1 .. next_cap' |-> IF d \in Allocated THEN children[d] ELSE <<>>]
  /\ UNCHANGED stack

mint_root(object, rights) ==
  /\ Idle
  /\ next_cap < MaxCap
  /\ next_cap' = next_cap + 1
  /\ caps' = [c \in 1 .. next_cap + 1 |->
                IF c = next_cap + 1 THEN RootCap(object, rights) ELSE caps[c]]
  /\ children' = [c \in 1 .. next_cap + 1 |->
                    IF c = next_cap + 1 THEN <<>> ELSE children[c]]
  /\ UNCHANGED stack

\* Mutant: delegate forgets to list the new capability under its parent.
delegateUnlisted(parent, rights) ==
  /\ Idle
  /\ next_cap < MaxCap
  /\ DelegateResult(caps, parent, rights) = "Ok"
  /\ next_cap' = next_cap + 1
  /\ caps' = [c \in 1 .. next_cap + 1 |->
                IF c = next_cap + 1 THEN ChildCap(caps[parent], parent, rights)
                ELSE caps[c]]
  /\ children' = [c \in 1 .. next_cap + 1 |->
                    IF c = next_cap + 1 THEN <<>> ELSE children[c]]
  /\ UNCHANGED stack

\* Mutant: delegate makes every capability delegable.
delegateDelegable(parent, rights) ==
  /\ Idle
  /\ next_cap < MaxCap
  /\ DelegateResult(caps, parent, rights) = "Ok"
  /\ next_cap' = next_cap + 1
  /\ caps' = [c \in 1 .. next_cap + 1 |->
                IF c = next_cap + 1
                THEN [ChildCap(caps[parent], parent, rights) EXCEPT !.delegable = TRUE]
                ELSE caps[c]]
  /\ children' = [c \in 1 .. next_cap + 1 |->
                    IF c = next_cap + 1 THEN <<>>
                    ELSE IF c = parent THEN Append(children[c], next_cap + 1)
                    ELSE children[c]]
  /\ UNCHANGED stack

delegate(parent, rights) ==
  /\ Idle
  /\ next_cap < MaxCap
  /\ DelegateResult(caps, parent, rights) = "Ok"
  /\ next_cap' = next_cap + 1
  /\ caps' = [c \in 1 .. next_cap + 1 |->
                IF c = next_cap + 1 THEN ChildCap(caps[parent], parent, rights)
                ELSE caps[c]]
  /\ children' = [c \in 1 .. next_cap + 1 |->
                    IF c = next_cap + 1 THEN <<>>
                    ELSE IF c = parent THEN Append(children[c], next_cap + 1)
                    ELSE children[c]]
  /\ UNCHANGED stack

\* The call of revoke: let mut stack = vec![cap].
revoke(cap) ==
  /\ Idle
  /\ cap \in Allocated
  /\ stack' = <<cap>>
  /\ UNCHANGED <<next_cap, caps, children>>

\* Mutant: only the capability named is revoked.
PopOnly(s, t) == SubSeq(s, 1, Len(s) - 1)

\* stack.pop() followed by stack.extend(children).
PopAndExtend(s, t) == SubSeq(s, 1, Len(s) - 1) \o t

\* Mutant: a capability without children is looked at and not popped.
RevokeLoopPeeking ==
  /\ ~Idle
  /\ LET next == stack[Len(stack)]
     IN  /\ caps' = [caps EXCEPT ![next].revoked = TRUE]
         /\ stack' = IF children[next] = <<>> THEN stack
                     ELSE PopAndExtend(stack, children[next])
  /\ UNCHANGED <<next_cap, children>>

\* One iteration of while let Some(next) = stack.pop().
RevokeLoop ==
  /\ ~Idle
  /\ LET next == stack[Len(stack)]
     IN  /\ caps' = [caps EXCEPT ![next].revoked = TRUE]
         /\ stack' = PopAndExtend(stack, children[next])
  /\ UNCHANGED <<next_cap, children>>

Next ==
  \/ \E object \in Objects, rights \in SUBSET AllRights : mint_root(object, rights)
  \/ \E parent \in CapIds, rights \in SUBSET AllRights : delegate(parent, rights)
  \/ \E cap \in CapIds : revoke(cap)
  \/ RevokeLoop

\* A thread inside revoke keeps running.
Spec == Init /\ [][Next]_vars /\ WF_vars(RevokeLoop)

-----------------------------------------------------------------------------
\* Once revoke has returned, no capability outlives the revocation of one it
\* was derived from: whatever order of delegations and revocations led here,
\* the children of a revoked capability are revoked.
RevocationClosed ==
  Idle => \A c \in Allocated :
            caps[c].parent # NoCap /\ caps[caps[c].parent].revoked
              => caps[c].revoked

\* Anything a derived capability authorizes, its parent authorizes too, for
\* the same object: delegate attenuates and revoke reaches the child first
\* or at the same call.
AuthorityFromParent ==
  Idle => \A c \in Allocated :
            caps[c].parent # NoCap =>
              /\ caps[caps[c].parent].object = caps[c].object
              /\ \A rights \in SUBSET AllRights :
                   AuthorizeResult(caps, c, rights) = "Ok"
                     => AuthorizeResult(caps, caps[c].parent, rights) = "Ok"

\* The two copies of the tree agree: children[p] lists exactly the
\* capabilities whose parent is p.  A parent is older than its child, so the
\* tree has no cycle for revoke to loop on.
TreeConsistent ==
  /\ \A c \in Allocated : caps[c].parent < c
  /\ \A p, c \in Allocated : caps[c].parent = p <=> c \in ChildSet(p)

\* A capability never changes its object, rights or parent, and once revoked
\* stays revoked: there is no way back from revoke.
RevokedForever ==
  [][\A c \in Allocated :
       /\ c \in Allocated'
       /\ caps'[c].object = caps[c].object
       /\ caps'[c].rights = caps[c].rights
       /\ caps'[c].parent = caps[c].parent
       /\ caps[c].revoked => caps'[c].revoked]_vars

\* What makes RevocationClosed and AuthorityFromParent inductive: in the
\* middle of the loop of revoke a child of a revoked capability may still be
\* live, but then it is on the worklist.
PendingCoversLive ==
  \A c \in Allocated :
    caps[c].parent # NoCap /\ caps[caps[c].parent].revoked
      => caps[c].revoked \/ c \in Pending

Attenuated ==
  \A c \in Allocated :
    caps[c].parent # NoCap =>
      /\ caps[caps[c].parent].object = caps[c].object
      /\ caps[c].rights \subseteq caps[caps[c].parent].rights

\* The inductive invariant of the registry: the loop of revoke has not lost
\* track of any capability, and no delegation has amplified rights.
RegistryInv ==
  /\ TypeOK
  /\ TreeConsistent
  /\ PendingCoversLive
  /\ Attenuated

\* revoke returns: its loop always empties the worklist.
RevokeReturns == ~Idle ~> Idle

-----------------------------------------------------------------------------
\* The table as the abstract registry sees it: during the loop the
\* capabilities derived from the worklist count as revoked already.
TreeCaps ==
  [c \in DOMAIN caps |->
     [caps[c] EXCEPT !.revoked = @ \/ c \in DerivedFrom(caps, Pending)]]

Tree == INSTANCE CapTree WITH caps <- TreeCaps

\* Seen from outside, revoke is one step that revokes the capability and all
\* its descendants and nothing else, and no step of the loop shows through.
ImplementsTree == Tree!Spec
=============================================================================

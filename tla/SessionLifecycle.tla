-------------------------- MODULE SessionLifecycle --------------------------
(***************************************************************************)
(* What the session endpoints promise, whatever the stores, caches and     *)
(* browsers do: a session is opened once, for one user, it never changes   *)
(* hands, and once revoked it stays revoked.  One step touches the         *)
(* sessions of one user only.                                              *)
(***************************************************************************)
CONSTANTS Users, Jtis, None

VARIABLES
  owner,    \* owner[j]: the user whose login opened session j, None before it
  revoked   \* the sessions whose row carries a revocation date

Owned(u) == {j \in Jtis : owner[j] = u}

Init ==
  /\ owner = [j \in Jtis |-> None]
  /\ revoked = {}

Open(u, j) ==
  /\ owner[j] = None
  /\ owner' = [owner EXCEPT ![j] = u]
  /\ UNCHANGED revoked

Revoke(u, S) ==
  /\ S # {}
  /\ S \subseteq Owned(u) \ revoked
  /\ revoked' = revoked \cup S
  /\ UNCHANGED owner

Next ==
  \E u \in Users :
    \/ \E j \in Jtis : Open(u, j)
    \/ \E S \in SUBSET Jtis : Revoke(u, S)

Spec == Init /\ [][Next]_<<owner, revoked>>
=============================================================================

-------------------------- MODULE RbacPathsProofs --------------------------
(***************************************************************************)
(* Proofs about RbacPaths: comparing pattern with pattern, matchPath finds *)
(* out whether one stands for every concrete path of the other, so that    *)
(* the guard grants what the cached routes cover and nothing else.         *)
(***************************************************************************)
EXTENDS RbacPaths, RolePermissionsProofs

(* Every pattern stands for a concrete path, and where it has a parameter  *)
(* any word can be there.                                                  *)
LEMMA SomeUrl ==
  ASSUME NEW path \in Paths, NEW w \in Words
  PROVE  \E url \in Urls(path) :
           \A i \in 1..Len(path) : path[i] \in Params => url[i] = w
<1> DEFINE url == [i \in 1..Len(path) |-> IF path[i] \in Params THEN w ELSE path[i]]
<1>1. \A i \in 1..Len(path) : path[i] \in Words \cup Params
  BY DEF Paths
<1>2. url \in Urls(path)
  BY <1>1 DEF Urls
<1> QED BY <1>2

(* matchPath compares words, and lets a parameter of the permission stand  *)
(* for anything.                                                           *)
LEMMA MatchIsCover ==
  ASSUME NEW P \in Paths, NEW E \in Paths
  PROVE  MatchPath(P, E) <=> Urls(E) \subseteq Urls(P)
<1>1. Len(P) \in Nat /\ Len(E) \in Nat
  BY DEF Paths
<1>2. ASSUME MatchPath(P, E) PROVE Urls(E) \subseteq Urls(P)
  <2>1. CASE P = E BY <2>1
  <2>2. CASE P # E
    <3>1. Len(P) = Len(E)
          /\ \A i \in 1..Len(P) : P[i] \in Params \/ P[i] = E[i]
      BY <1>2, <2>2 DEF MatchPath
    <3>2. SUFFICES ASSUME NEW url \in Urls(E), NEW i \in 1..Len(P)
                   PROVE  url \in [1..Len(P) -> Words]
                          /\ (P[i] \in Params \/ url[i] = P[i])
      <4>1. CASE 1..Len(P) = {}
        BY <3>1, <4>1 DEF Urls
      <4> QED BY <4>1 DEF Urls
    <3>3. url \in [1..Len(E) -> Words]
          /\ (E[i] \in Params \/ url[i] = E[i])
      BY <3>1, <3>2 DEF Urls
    <3>4. P[i] \in Words \cup Params
      BY <1>1, <3>2 DEF Paths
    <3> QED BY <3>1, <3>3, <3>4, SegmentsAssumption
  <2> QED BY <2>1, <2>2
<1>3. ASSUME Urls(E) \subseteq Urls(P) PROVE MatchPath(P, E)
  <2>1. PICK w \in Words : TRUE
    BY SegmentsAssumption
  <2>2. PICK url \in Urls(E) : TRUE
    BY SomeUrl, <2>1
  <2>3. 1..Len(E) = 1..Len(P)
    <3>1. url \in [1..Len(E) -> Words] /\ url \in [1..Len(P) -> Words]
      BY <1>3, <2>2 DEF Urls
    <3>2. DOMAIN url = 1..Len(E) /\ DOMAIN url = 1..Len(P)
      BY <3>1
    <3> QED BY <3>2
  <2>4. Len(P) = Len(E)
    BY <1>1, <2>3
  <2>5. ASSUME NEW i \in 1..Len(P), P[i] \notin Params PROVE P[i] = E[i]
    <3>1. P[i] \in Words /\ E[i] \in Words \cup Params
      BY <2>4, <2>5 DEF Paths
    <3>2. PICK other \in Words : other # P[i]
      BY <3>1, SegmentsAssumption
    <3>3. PICK v \in Urls(E) : \A j \in 1..Len(E) : E[j] \in Params => v[j] = other
      BY SomeUrl, <3>2
    <3>4. v[i] = P[i] /\ (E[i] \in Params \/ v[i] = E[i])
      BY <1>3, <2>4, <2>5, <3>3 DEF Urls
    <3> QED BY <2>4, <2>5, <3>2, <3>3, <3>4
  <2> QED BY <2>4, <2>5 DEF MatchPath
<1> QED BY <1>2, <1>3

(* The guard opens an endpoint by the cached routes that cover it, for     *)
(* every set of routes permissions may be given and every set the cache    *)
(* may hold.                                                               *)
LEMMA GrantsType ==
  ASSUME TypeOK
  PROVE  GuardGrants
<1> SUFFICES ASSUME NEW c \in Codes, NEW S \in cache[c], NEW e \in Endpoints
             PROVE  HasPermission(S, e) <=> \E v \in S : <<v, e>> \in Covering
  BY DEF GuardGrants
<1>1. S \subseteq Routes
  BY DEF TypeOK
<1>2. e.path \in Paths /\ \A i \in 1..Len(e.path) : e.path[i] \notin Ids
  BY EndpointsAssumption
<1>3. NormalizePath(e.path) = e.path
  BY <1>2 DEF NormalizePath, Paths
<1>4. ASSUME NEW v \in S
      PROVE  v.method = e.method /\ MatchPath(v.path, e.path) <=> <<v, e>> \in Covering
  <2>1. v \in Routes /\ v.path \in Paths
    BY <1>1, RoutesAssumption
  <2>2. MatchPath(v.path, e.path) <=> Urls(e.path) \subseteq Urls(v.path)
    BY <1>2, <2>1, MatchIsCover
  <2> QED BY <2>1, <2>2 DEF Covering, Covers
<1> QED BY <1>3, <1>4 DEF HasPermission

(* Whatever requests, changes, faults and expiries came before, the guard  *)
(* grants exactly what the routes it finds in the cache cover              *)
(* (rbac.guard.ts:51-132).                                                 *)
THEOREM GuardCorrect == Spec => []GuardGrants
  BY TypeCorrect, GrantsType, PTL
=============================================================================

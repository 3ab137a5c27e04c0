----------------------------- MODULE RbacPaths -----------------------------
(***************************************************************************)
(* The decision of RbacGuard: which endpoints the routes cached for a role *)
(* open to it.                                                             *)
(*                                                                         *)
(* A path is the sequence of its segments, without the api/v1 that all     *)
(* paths begin with, and in lower case, which both sides are brought to.   *)
(***************************************************************************)
EXTENDS RolePermissions, Sequences

CONSTANTS
  Words,  \* segments that stand for themselves
  Params, \* segments that begin with a colon
  Ids     \* the words that are numbers or UUIDs

Paths == Seq(Words \cup Params)
Methods == {"GET", "POST", "PUT", "PATCH", "DELETE"}

On(method, path) == [method |-> method, path |-> path]

(* The endpoints that are neither @Public nor @SkipRbac, by controller     *)
PermissionEndpoints ==
  {On(method, <<"permissions">>) : method \in {"GET", "POST"}}
    \cup {On(method, <<"permissions", ":id">>) : method \in {"GET", "PATCH", "DELETE"}}

RoleEndpoints ==
  {On(method, <<"roles">>) : method \in {"GET", "POST"}}
    \cup {On(method, <<"roles", ":id">>) : method \in {"GET", "PATCH", "DELETE"}}
    \cup {On(method, <<"roles", ":id", "permissions">>) : method \in {"PUT", "DELETE"}}

AuthEndpoints ==
  {On("POST", <<"auth", word>>) : word \in {"verify-email", "resend-otp", "logout-others"}}

OtherEndpoints == {On("GET", <<>>), On("POST", <<"mail", "test-mail">>)}

Endpoints == PermissionEndpoints \cup RoleEndpoints \cup AuthEndpoints \cup OtherEndpoints

ASSUME SegmentsAssumption ==
  /\ Words # {} /\ Words \cap Params = {}
  /\ Ids \subseteq Words
  /\ \A w \in Words : \E other \in Words : other # w
ASSUME RoutesAssumption == Routes \subseteq [method : Methods, path : Paths]
ASSUME EndpointsAssumption ==
  \A e \in Endpoints : e.path \in Paths /\ \A i \in 1..Len(e.path) : e.path[i] \notin Ids

-----------------------------------------------------------------------------
(* The path of the route Express chose, not of the request: a pattern,     *)
(* in which there is nothing to replace.                                   *)
NormalizePath(path) ==
  [i \in 1..Len(path) |-> IF path[i] \in Ids THEN ":id" ELSE path[i]]

MatchPrefix(permissionPath, requestPath) ==
  /\ Len(permissionPath) <= Len(requestPath)
  /\ \A i \in 1..Len(permissionPath) :
       permissionPath[i] \in Params \/ permissionPath[i] = requestPath[i]
MatchPath(permissionPath, requestPath) ==
  \/ permissionPath = requestPath
  \/ /\ Len(permissionPath) = Len(requestPath)
     /\ \A i \in 1..Len(permissionPath) :
          permissionPath[i] \in Params \/ permissionPath[i] = requestPath[i]

(* canActivate: hasPermission, by the routes S of the caller's role        *)
HasPermission(S, e) ==
  \E v \in S : v.method = e.method /\ MatchPath(v.path, NormalizePath(e.path))

-----------------------------------------------------------------------------
(* Properties. *)

(* The concrete paths a pattern stands for                                 *)
Urls(path) ==
  {url \in [1..Len(path) -> Words] :
     \A i \in 1..Len(path) : path[i] \in Params \/ url[i] = path[i]}

Covers(v, e) == v.method = e.method /\ Urls(e.path) \subseteq Urls(v.path)
Covering == {ve \in Routes \X Endpoints : Covers(ve[1], ve[2])}

(* The guard lets a role through to an endpoint exactly when one cached    *)
(* route stands for every request the endpoint takes: it compares pattern  *)
(* with pattern (rbac.guard.ts:54, 115-132), and a permission for a longer *)
(* or shorter path, or for a single id, opens nothing.                     *)
GuardGrants ==
  \A c \in Codes : \A S \in cache[c] : \A e \in Endpoints :
    HasPermission(S, e) <=> \E v \in S : <<v, e>> \in Covering
=============================================================================

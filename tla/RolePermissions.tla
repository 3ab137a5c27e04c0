-------------------------- MODULE RolePermissions --------------------------
(***************************************************************************)
(* Role-based access: RbacGuard with the permission cache of RedisService, *)
(* and the handlers of RolesService and PermissionsService that change     *)
(* what the cache is a copy of.                                            *)
(*                                                                         *)
(* A request runs in a slot, atomic between two awaits.  A check that a    *)
(* unique index or a foreign key repeats when MySQL performs the write     *)
(* (duplicate code or route, unknown permission, role in use) is part of   *)
(* the write: whatever happens in between, the write succeeds only if the  *)
(* check would.  Ids are never used twice, so a role or permission that is *)
(* gone stays gone.                                                        *)
(*                                                                         *)
(* Left out: names and descriptions, the read-only endpoints and the       *)
(* action log, which no handler reads.                                     *)
(***************************************************************************)
EXTENDS Naturals

CONSTANTS
  Roles,        \* ids of the roles table
  Codes,        \* role codes, SUPER_ADMIN excepted: it bypasses the guard
  Permissions,  \* ids of the permissions table
  Routes,       \* pairs of a method and a path
  Slots,
  Staffed,      \* the roles that have users
  None,         \* no row yet under this id
  Deleted,      \* the row under this id is gone
  CACHE_TTL,    \* lifetime of a cache entry, in ticks (5 minutes)
  TOKEN_TTL,    \* lifetime of an access token, in ticks (15 minutes)
  Ops,          \* the changes that take part in this instance
  MaxChanges,   \* bound: changes to roles and permissions
  MaxFaults     \* bound: rejected statements and crashes

AllOps ==
  {"createRole", "update", "rename", "removeRole", "assign", "revoke",
   "createPermission", "updatePermission", "removePermission"}

ASSUME NoneAssumption == {None, Deleted} \cap (Codes \cup Routes) = {}
ASSUME StaffedAssumption == Staffed \subseteq Roles
ASSUME TtlAssumption == CACHE_TTL \in Nat \ {0} /\ TOKEN_TTL \in Nat
ASSUME OpsAssumption == Ops \subseteq AllOps
ASSUME BoundsAssumption == MaxChanges \in Nat /\ MaxFaults \in Nat

VARIABLES
  code,       \* MySQL roles: the code under each id
  holds,      \* MySQL role_permissions
  route,      \* MySQL permissions: the route under each id
  cache,      \* Redis rbac:role:<code>: {} no key, {S} the routes S
  left,       \* remaining lifetime of that key
  tokenLeft,  \* how long tokens with a code no staffed role has may live
  suspect,    \* history: the codes that a known gap may have left stale
  req,        \* the request in each slot
  changes, faults

tables == <<code, holds, route>>
vars == <<tables, cache, left, tokenLeft, suspect, req, changes, faults>>

-----------------------------------------------------------------------------
PCs == {"idle", "query", "fill", "insert", "find", "del"}

Idle == [pc |-> "idle", role |-> None, code |-> None, routes |-> {}, ids |-> {}]

Request ==
  [pc : PCs, role : Roles \cup {None}, code : Codes \cup {None},
   routes : SUBSET Routes, ids : SUBSET Permissions]

RoleExists(r) == code[r] \in Codes
PermissionExists(x) == route[x] \in Routes
Existing == {x \in Permissions : PermissionExists(x)}

(* role.findUnique({ code }) with its permissions: none, if there is no    *)
(* such role *)
HeldUnder(c) == {x \in Permissions : \E r \in Roles : code[r] = c /\ x \in holds[r]}
Granted(c) == {route[x] : x \in HeldUnder(c)}

Free(p) == req[p].pc = "idle"
Start(p, r) == Free(p) /\ req' = [req EXCEPT ![p] = r]
End(p) == req' = [req EXCEPT ![p] = Idle]

(* Every change of the tables counts against the bound. *)
Change == changes < MaxChanges /\ changes' = changes + 1

-----------------------------------------------------------------------------
Init ==
  /\ code \in [Roles -> Codes \cup {None}]
  /\ \A r, s \in Roles : code[r] = code[s] /\ code[r] # None => r = s
  /\ \A r \in Staffed : RoleExists(r)
  /\ route \in [Permissions -> Routes \cup {None}]
  /\ \A x, y \in Permissions : route[x] = route[y] /\ route[x] # None => x = y
  /\ holds \in [Roles -> SUBSET Existing]
  /\ \A r \in Roles : ~RoleExists(r) => holds[r] = {}
  /\ cache = [c \in Codes |-> {}]
  /\ left = [c \in Codes |-> 0]
  /\ tokenLeft = [c \in Codes |-> 0]
  /\ suspect = {}
  /\ req = [p \in Slots |-> Idle]
  /\ changes = 0
  /\ faults = 0

-----------------------------------------------------------------------------
(* RbacGuard.canActivate for a token with code c.  On a hit nothing        *)
(* changes, so only the miss is an action.                                 *)

Carried(c) == tokenLeft[c] > 0 \/ \E r \in Staffed : code[r] = c

GuardMiss(p, c) ==
  /\ Carried(c)
  /\ cache[c] = {}
  /\ Start(p, [Idle EXCEPT !.pc = "query", !.code = c])
  /\ UNCHANGED <<tables, cache, left, tokenLeft, suspect, changes, faults>>

(* RedisService.getRolePermissions takes a failed read for a miss. *)
GuardUnreadable(p, c) ==
  /\ Carried(c)
  /\ faults < MaxFaults
  /\ faults' = faults + 1
  /\ Start(p, [Idle EXCEPT !.pc = "query", !.code = c])
  /\ UNCHANGED <<tables, cache, left, tokenLeft, suspect, changes>>

GuardQuery(p) ==
  /\ req[p].pc = "query"
  /\ req' = [req EXCEPT ![p].pc = "fill", ![p].routes = Granted(req[p].code)]
  /\ UNCHANGED <<tables, cache, left, tokenLeft, suspect, changes, faults>>

(* ttlSeconds = 300, handed to the store in milliseconds                    *)
EntryMilliseconds == CACHE_TTL * 1000
EntryTtl == CACHE_TTL

(* cacheRolePermissions, then the decision by the routes read.  The first  *)
(* known gap: the role changed since the query, and was even invalidated.  *)
GuardFill(p) ==
  LET c == req[p].code IN
  /\ req[p].pc = "fill"
  /\ cache' = [cache EXCEPT ![c] = {req[p].routes}]
  /\ left' = [left EXCEPT ![c] = EntryTtl]
  /\ suspect' = IF req[p].routes = Granted(c) THEN suspect \ {c}
                                              ELSE suspect \cup {c}
  /\ End(p)
  /\ UNCHANGED <<tables, tokenLeft, changes, faults>>

-----------------------------------------------------------------------------
(* RolesService *)

(* The code of a new role may be cached as one without permissions: a      *)
(* token can outlive the role it names.  Nothing is invalidated.           *)
RoleCreate(r, c, S) ==
  /\ "createRole" \in Ops
  /\ Change
  /\ code[r] = None
  /\ \A s \in Roles : code[s] # c
  /\ S \subseteq Existing
  /\ code' = [code EXCEPT ![r] = c]
  /\ holds' = [holds EXCEPT ![r] = S]
  /\ suspect' = suspect \cup {c}
  /\ UNCHANGED <<route, cache, left, tokenLeft, req, faults>>

(* update: a code no other role has, and how long the tokens with the old  *)
(* one may live *)
Recoded(r, c) ==
  /\ RoleExists(r)
  /\ \A s \in Roles \ {r} : code[s] # c
  /\ code' = [code EXCEPT ![r] = c]
  /\ tokenLeft' = IF r \in Staffed /\ c # code[r]
                    THEN [tokenLeft EXCEPT ![code[r]] = TOKEN_TTL] ELSE tokenLeft

(* update without permissionIds: no invalidation, whatever the code.       *)
RoleRename(r, c) ==
  /\ "rename" \in Ops
  /\ Change
  /\ Recoded(r, c)
  /\ c # code[r]
  /\ suspect' = suspect \cup {code[r], c}
  /\ UNCHANGED <<holds, route, cache, left, req, faults>>

(* update with permissionIds: deleteMany and create in one transaction,    *)
(* then invalidateRoleCache, which will not find the old code.             *)
RoleSync(p, r, c, S) ==
  /\ "update" \in Ops
  /\ Change
  /\ Recoded(r, c)
  /\ S \subseteq Existing
  /\ holds' = [holds EXCEPT ![r] = S]
  /\ Start(p, [Idle EXCEPT !.pc = "find", !.role = r])
  /\ suspect' = suspect \cup ({code[r]} \ {c})
  /\ UNCHANGED <<route, cache, left, faults>>

(* Nobody may hold the role; its permissions go with it, the cache entry   *)
(* does not.                                                               *)
RoleRemove(r) ==
  /\ "removeRole" \in Ops
  /\ Change
  /\ RoleExists(r)
  /\ r \notin Staffed
  /\ code' = [code EXCEPT ![r] = Deleted]
  /\ holds' = [holds EXCEPT ![r] = {}]
  /\ suspect' = suspect \cup {code[r]}
  /\ UNCHANGED <<route, cache, left, tokenLeft, req, faults>>

(* assignPermissions: validatePermissionIds ... *)
Assign(p, r, S) ==
  /\ "assign" \in Ops
  /\ changes < MaxChanges
  /\ RoleExists(r)
  /\ S \subseteq Existing
  /\ Start(p, [Idle EXCEPT !.pc = "insert", !.role = r, !.ids = S])
  /\ UNCHANGED <<tables, cache, left, tokenLeft, suspect, changes, faults>>

(* ... then createMany with skipDuplicates, an INSERT IGNORE: rows for a   *)
(* role or permission gone meanwhile are skipped like those already there. *)
AssignInsert(p) ==
  LET r == req[p].role IN
  /\ req[p].pc = "insert"
  /\ Change
  /\ holds' = [holds EXCEPT ![r] =
                 IF RoleExists(r) THEN @ \cup (req[p].ids \cap Existing) ELSE @]
  /\ req' = [req EXCEPT ![p].pc = "find"]
  /\ UNCHANGED <<code, route, cache, left, tokenLeft, suspect, faults>>

RevokeSilently(p, r) == UNCHANGED req
RevokeThenInvalidate(p, r) == Start(p, [Idle EXCEPT !.pc = "find", !.role = r])

(* revokePermissions: deleteMany *)
Revoke(p, r, S) ==
  /\ "revoke" \in Ops
  /\ Change
  /\ RoleExists(r)
  /\ holds' = [holds EXCEPT ![r] = @ \ S]
  /\ RevokeThenInvalidate(p, r)
  /\ UNCHANGED <<code, route, cache, left, tokenLeft, suspect, faults>>

(* invalidateRoleCache: the code the role has by now ... *)
InvalidateFind(p) ==
  /\ req[p].pc = "find"
  /\ IF RoleExists(req[p].role)
       THEN req' = [req EXCEPT ![p].pc = "del", ![p].code = code[req[p].role]]
       ELSE End(p)
  /\ UNCHANGED <<tables, cache, left, tokenLeft, suspect, changes, faults>>

(* ... and its entry *)
InvalidateDel(p) ==
  LET c == req[p].code IN
  /\ req[p].pc = "del"
  /\ cache' = [cache EXCEPT ![c] = {}]
  /\ left' = [left EXCEPT ![c] = 0]
  /\ End(p)
  /\ UNCHANGED <<tables, tokenLeft, suspect, changes, faults>>

-----------------------------------------------------------------------------
(* PermissionsService: no change of a permission invalidates anything.     *)

PermissionCreate(x, v) ==
  /\ "createPermission" \in Ops
  /\ Change
  /\ route[x] = None
  /\ \A y \in Permissions : route[y] # v
  /\ route' = [route EXCEPT ![x] = v]
  /\ UNCHANGED <<code, holds, cache, left, tokenLeft, suspect, req, faults>>

Holders(x) == {c \in Codes : x \in HeldUnder(c)}

PermissionUpdate(x, v) ==
  /\ "updatePermission" \in Ops
  /\ Change
  /\ PermissionExists(x)
  /\ \A y \in Permissions : route[y] # v
  /\ route' = [route EXCEPT ![x] = v]
  /\ suspect' = suspect \cup Holders(x)
  /\ UNCHANGED <<code, holds, cache, left, tokenLeft, req, faults>>

(* The rows of role_permissions go with it. *)
NotCascaded(x) == holds
Cascaded(x) == [r \in Roles |-> holds[r] \ {x}]

PermissionRemove(x) ==
  /\ "removePermission" \in Ops
  /\ Change
  /\ PermissionExists(x)
  /\ route' = [route EXCEPT ![x] = Deleted]
  /\ holds' = Cascaded(x)
  /\ suspect' = suspect \cup Holders(x)
  /\ UNCHANGED <<code, cache, left, tokenLeft, req, faults>>

-----------------------------------------------------------------------------
(* The codes whose entry a request in p has still to delete *)
Pending(p) ==
  IF req[p].pc = "del" THEN {req[p].code}
  ELSE IF req[p].pc = "find" THEN {code[req[p].role]} \cap Codes
  ELSE {}

(* The statement a request waits for is rejected: it throws, and an        *)
(* invalidation still to come does not come.                               *)
Reject(p) ==
  /\ ~Free(p)
  /\ faults < MaxFaults
  /\ faults' = faults + 1
  /\ suspect' = suspect \cup Pending(p)
  /\ End(p)
  /\ UNCHANGED <<tables, cache, left, tokenLeft, changes>>

Crash ==
  /\ \E p \in Slots : ~Free(p)
  /\ faults < MaxFaults
  /\ faults' = faults + 1
  /\ suspect' = suspect \cup UNION {Pending(p) : p \in Slots}
  /\ req' = [p \in Slots |-> Idle]
  /\ UNCHANGED <<tables, cache, left, tokenLeft, changes>>

Dec(n) == IF n = 0 THEN 0 ELSE n - 1

NeverExpires(c) == left[c]
NextLeft(c) == Dec(left[c])

Tick ==
  /\ left' = [c \in Codes |-> NextLeft(c)]
  /\ cache' = [c \in Codes |-> IF NextLeft(c) = 0 THEN {} ELSE cache[c]]
  /\ tokenLeft' = [c \in Codes |-> Dec(tokenLeft[c])]
  /\ UNCHANGED <<tables, suspect, req, changes, faults>>

-----------------------------------------------------------------------------
Arrive(p) ==
  \/ \E c \in Codes : GuardMiss(p, c) \/ GuardUnreadable(p, c)
  \/ \E r \in Roles, S \in SUBSET Permissions :
       \/ \E c \in Codes : RoleSync(p, r, c, S)
       \/ Assign(p, r, S)
       \/ Revoke(p, r, S)

Serve(p) ==
  \/ GuardQuery(p)
  \/ GuardFill(p)
  \/ AssignInsert(p)
  \/ InvalidateFind(p)
  \/ InvalidateDel(p)

Next ==
  \/ \E p \in Slots : Arrive(p) \/ Serve(p) \/ Reject(p)
  \/ \E r \in Roles, c \in Codes :
       \/ \E S \in SUBSET Permissions : RoleCreate(r, c, S)
       \/ RoleRename(r, c)
  \/ \E r \in Roles : RoleRemove(r)
  \/ \E x \in Permissions, v \in Routes :
       PermissionCreate(x, v) \/ PermissionUpdate(x, v)
  \/ \E x \in Permissions : PermissionRemove(x)
  \/ Crash
  \/ Tick

Spec == Init /\ [][Next]_vars

(* The event loop runs every callback that is ready, the stores answer,    *)
(* and time passes.                                                        *)
Fairness == WF_vars(Tick) /\ \A p \in Slots : WF_vars(Serve(p))
FairSpec == Spec /\ Fairness

-----------------------------------------------------------------------------
(* Properties. *)

(* Every table, key and request keeps its shape; a code names one role.    *)
TypeOK ==
  /\ code \in [Roles -> Codes \cup {None, Deleted}]
  /\ holds \in [Roles -> SUBSET Permissions]
  /\ route \in [Permissions -> Routes \cup {None, Deleted}]
  /\ cache \in [Codes -> SUBSET SUBSET Routes]
  /\ left \in [Codes -> 0..CACHE_TTL]
  /\ tokenLeft \in [Codes -> 0..TOKEN_TTL]
  /\ suspect \subseteq Codes
  /\ req \in [Slots -> Request]
  /\ changes \in Nat
  /\ faults \in Nat

(* Only permissions that exist are held, whatever is removed while they    *)
(* are being assigned (roles.service.ts:265-268), and codes and routes are *)
(* never taken twice.                                                      *)
Integrity ==
  /\ \A r \in Roles : holds[r] \subseteq Existing
  /\ \A r \in Roles : holds[r] # {} => RoleExists(r)
  /\ \A r, s \in Roles : RoleExists(r) /\ code[r] = code[s] => r = s
  /\ \A x, y \in Permissions : PermissionExists(x) /\ route[x] = route[y] => x = y

(* The cache differs from the tables.                                      *)
Stale(c) == \E S \in cache[c] : S # Granted(c)

(* The guard decides by an outdated entry only through a known gap: a fill *)
(* that overlapped the change, a role created, renamed or removed, a       *)
(* permission changed or removed, or an invalidation that failed or is on  *)
(* its way (rbac.guard.ts:85-109, roles.service.ts:206, 290, 342).         *)
StaleHasCause ==
  \A c \in Codes : Stale(c) => c \in suspect \/ \E p \in Slots : c \in Pending(p)

(* The cache never outlives its 5 minutes: when the tables stop changing,  *)
(* every entry becomes and stays current (redis.service.ts:236-246).       *)
StaleEntriesDie ==
  \A c \in Codes : <>[][tables' = tables]_vars => <>[]~Stale(c)

(* A removed permission is granted to nobody any more                      *)
(* (permissions.service.ts:202, "vẫn xóa, cascade tự xử lý").              *)
RemovedGrantsEnd ==
  \A c \in Codes : \A S \in cache[c] : S \subseteq {route[x] : x \in Existing}
=============================================================================

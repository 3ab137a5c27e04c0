----------------------- MODULE RolePermissionsProofs -----------------------
(***************************************************************************)
(* Proofs about RolePermissions: the tables stay consistent, and a cached  *)
(* entry differs from them only through one of the gaps StaleHasCause      *)
(* names, for any number of roles, permissions and requests in flight.     *)
(***************************************************************************)
EXTENDS RolePermissions, TLAPS

(* What a request knows at each of its steps *)
Knows(r) ==
  /\ r.pc \in {"insert", "find"} => r.role \in Roles
  /\ r.pc \in {"query", "fill", "del"} => r.code \in Codes

RequestsKnow == \A p \in Slots : Knows(req[p])

IInv == TypeOK /\ RequestsKnow /\ Integrity /\ StaleHasCause

(* A free slot holds a well-formed request. *)
LEMMA IdleOK == Idle \in Request /\ Knows(Idle)
  BY DEF Idle, Request, PCs, Knows

(* Only the slot that moved has to be looked at. *)
LEMMA SlotStep ==
  ASSUME TypeOK, RequestsKnow, NEW p \in Slots, NEW r \in Request, Knows(r),
         req' = [req EXCEPT ![p] = r]
  PROVE  req' \in [Slots -> Request] /\ RequestsKnow'
  BY DEF TypeOK, RequestsKnow, Knows

(* The routes cached for a code are routes. *)
LEMMA GrantedType ==
  ASSUME TypeOK, Integrity, NEW c
  PROVE  Granted(c) \subseteq Routes
  BY DEF Granted, HeldUnder, Integrity, Existing, PermissionExists, TypeOK

(* Ageing keeps a countdown within its bound. *)
LEMMA DecBound == \A k \in Nat : \A n \in 0..k : Dec(n) \in 0..k
  BY DEF Dec

(* Every step keeps the shapes and what the requests know. *)
LEMMA ShapeStep ==
  TypeOK /\ RequestsKnow /\ Integrity /\ [Next]_vars => TypeOK' /\ RequestsKnow'
<1> SUFFICES ASSUME TypeOK, RequestsKnow, Integrity, [Next]_vars
             PROVE  TypeOK' /\ RequestsKnow'
  OBVIOUS
<1>a. CACHE_TTL \in 0..CACHE_TTL /\ 0 \in 0..CACHE_TTL /\ TOKEN_TTL \in 0..TOKEN_TTL
  BY TtlAssumption
<1>1. ASSUME NEW p \in Slots, NEW c \in Codes, GuardMiss(p, c) \/ GuardUnreadable(p, c)
      PROVE  TypeOK' /\ RequestsKnow'
  <2> DEFINE r == [Idle EXCEPT !.pc = "query", !.code = c]
  <2>1. r \in Request /\ Knows(r)
    BY DEF Idle, Request, PCs, Knows
  <2>2. req' = [req EXCEPT ![p] = r] /\ faults' \in Nat
    BY <1>1 DEF GuardMiss, GuardUnreadable, Start, TypeOK
  <2> HIDE DEF r
  <2>3. req' \in [Slots -> Request] /\ RequestsKnow'
    BY <2>1, <2>2, SlotStep
  <2> QED BY <1>1, <2>2, <2>3 DEF GuardMiss, GuardUnreadable, tables, TypeOK
<1>2. ASSUME NEW p \in Slots, GuardQuery(p) PROVE TypeOK' /\ RequestsKnow'
  <2> DEFINE r == [req[p] EXCEPT !.pc = "fill", !.routes = Granted(req[p].code)]
  <2>1. r \in Request /\ Knows(r)
    BY <1>2, GrantedType DEF GuardQuery, RequestsKnow, TypeOK, Request, PCs, Knows
  <2>2. req' = [req EXCEPT ![p] = r]
    BY <1>2 DEF GuardQuery, TypeOK
  <2> HIDE DEF r
  <2>3. req' \in [Slots -> Request] /\ RequestsKnow'
    BY <2>1, <2>2, SlotStep
  <2> QED BY <1>2, <2>3 DEF GuardQuery, tables, TypeOK
<1>3. ASSUME NEW p \in Slots, GuardFill(p) PROVE TypeOK' /\ RequestsKnow'
  <2>1. req' \in [Slots -> Request] /\ RequestsKnow'
    BY <1>3, SlotStep, IdleOK DEF GuardFill, End
  <2>2. req[p].code \in Codes /\ req[p].routes \in SUBSET Routes
    BY <1>3 DEF GuardFill, RequestsKnow, Knows, TypeOK, Request
  <2> QED BY <1>3, <1>a, <2>1, <2>2 DEF GuardFill, EntryTtl, tables, TypeOK
<1>4. ASSUME NEW r \in Roles, NEW c \in Codes, NEW S \in SUBSET Permissions,
             RoleCreate(r, c, S)
      PROVE  TypeOK' /\ RequestsKnow'
  BY <1>4 DEF RoleCreate, Change, TypeOK, RequestsKnow, Knows
<1>5. ASSUME NEW r \in Roles, NEW c \in Codes, Recoded(r, c)
      PROVE  /\ code' \in [Roles -> Codes \cup {None, Deleted}]
             /\ tokenLeft' \in [Codes -> 0..TOKEN_TTL]
             /\ code[r] \in Codes
  BY <1>5, <1>a DEF Recoded, RoleExists, TypeOK
<1>6. ASSUME NEW r \in Roles, NEW c \in Codes, RoleRename(r, c)
      PROVE  TypeOK' /\ RequestsKnow'
  BY <1>5, <1>6 DEF RoleRename, Change, TypeOK, RequestsKnow, Knows
<1>7. ASSUME NEW p \in Slots, NEW r \in Roles, req' = [req EXCEPT ![p] =
               [Idle EXCEPT !.pc = "find", !.role = r]]
      PROVE  req' \in [Slots -> Request] /\ RequestsKnow'
  <2> DEFINE new == [Idle EXCEPT !.pc = "find", !.role = r]
  <2>1. new \in Request /\ Knows(new)
    BY DEF Idle, Request, PCs, Knows
  <2> HIDE DEF new
  <2> QED BY <1>7, <2>1, SlotStep DEF new
<1>8. ASSUME NEW p \in Slots, NEW r \in Roles, NEW c \in Codes,
             NEW S \in SUBSET Permissions, RoleSync(p, r, c, S)
      PROVE  TypeOK' /\ RequestsKnow'
  <2>1. req' \in [Slots -> Request] /\ RequestsKnow'
    BY <1>7, <1>8 DEF RoleSync, Start
  <2>2. /\ Recoded(r, c) /\ changes' = changes + 1
        /\ holds' = [holds EXCEPT ![r] = S]
        /\ suspect' = suspect \cup ({code[r]} \ {c})
        /\ UNCHANGED <<route, cache, left, faults>>
    BY <1>8 DEF RoleSync, Change
  <2> QED BY <1>5, <2>1, <2>2 DEF TypeOK
<1>9. ASSUME NEW r \in Roles, RoleRemove(r) PROVE TypeOK' /\ RequestsKnow'
  BY <1>9 DEF RoleRemove, RoleExists, Change, TypeOK, RequestsKnow, Knows
<1>10. ASSUME NEW p \in Slots, NEW r \in Roles, NEW S \in SUBSET Permissions,
              Assign(p, r, S)
       PROVE  TypeOK' /\ RequestsKnow'
  <2> DEFINE new == [Idle EXCEPT !.pc = "insert", !.role = r, !.ids = S]
  <2>1. new \in Request /\ Knows(new)
    BY DEF Idle, Request, PCs, Knows
  <2>2. req' = [req EXCEPT ![p] = new]
    BY <1>10 DEF Assign, Start
  <2> HIDE DEF new
  <2>3. req' \in [Slots -> Request] /\ RequestsKnow'
    BY <2>1, <2>2, SlotStep
  <2> QED BY <1>10, <2>3 DEF Assign, tables, TypeOK
<1>11. ASSUME NEW p \in Slots, AssignInsert(p) PROVE TypeOK' /\ RequestsKnow'
  <2> DEFINE new == [req[p] EXCEPT !.pc = "find"]
  <2>1. new \in Request /\ Knows(new) /\ req[p].role \in Roles
    BY <1>11 DEF AssignInsert, RequestsKnow, TypeOK, Request, PCs, Knows
  <2>2. req' = [req EXCEPT ![p] = new]
    BY <1>11 DEF AssignInsert, TypeOK
  <2> HIDE DEF new
  <2>3. req' \in [Slots -> Request] /\ RequestsKnow'
    BY <2>1, <2>2, SlotStep
  <2>4. holds' \in [Roles -> SUBSET Permissions]
    BY <1>11, <2>1 DEF AssignInsert, Existing, TypeOK
  <2> QED BY <1>11, <2>3, <2>4 DEF AssignInsert, Change, TypeOK
<1>12. ASSUME NEW p \in Slots, NEW r \in Roles, NEW S \in SUBSET Permissions,
              Revoke(p, r, S)
       PROVE  TypeOK' /\ RequestsKnow'
  <2>1. req' \in [Slots -> Request] /\ RequestsKnow'
    BY <1>7, <1>12 DEF Revoke, RevokeThenInvalidate, Start
  <2>2. /\ changes' = changes + 1
        /\ holds' = [holds EXCEPT ![r] = @ \ S]
        /\ UNCHANGED <<code, route, cache, left, tokenLeft, suspect, faults>>
    BY <1>12 DEF Revoke, Change
  <2> QED BY <2>1, <2>2 DEF TypeOK
<1>13. ASSUME NEW p \in Slots, InvalidateFind(p) PROVE TypeOK' /\ RequestsKnow'
  <2>1. CASE RoleExists(req[p].role)
    <3> DEFINE new == [req[p] EXCEPT !.pc = "del", !.code = code[req[p].role]]
    <3>1. new \in Request /\ Knows(new)
      BY <2>1 DEF RoleExists, TypeOK, Request, PCs, Knows
    <3>2. req' = [req EXCEPT ![p] = new]
      BY <1>13, <2>1 DEF InvalidateFind, TypeOK
    <3> HIDE DEF new
    <3>3. req' \in [Slots -> Request] /\ RequestsKnow'
      BY <3>1, <3>2, SlotStep
    <3> QED BY <1>13, <3>3 DEF InvalidateFind, tables, TypeOK
  <2>2. CASE ~RoleExists(req[p].role)
    <3>1. req' \in [Slots -> Request] /\ RequestsKnow'
      BY <1>13, <2>2, SlotStep, IdleOK DEF InvalidateFind, End
    <3> QED BY <1>13, <3>1 DEF InvalidateFind, tables, TypeOK
  <2> QED BY <2>1, <2>2
<1>14. ASSUME NEW p \in Slots, InvalidateDel(p) PROVE TypeOK' /\ RequestsKnow'
  <2>1. req' \in [Slots -> Request] /\ RequestsKnow'
    BY <1>14, SlotStep, IdleOK DEF InvalidateDel, End
  <2> QED BY <1>14, <1>a, <2>1 DEF InvalidateDel, tables, TypeOK
<1>15. ASSUME NEW x \in Permissions, NEW v \in Routes,
              PermissionCreate(x, v) \/ PermissionUpdate(x, v)
       PROVE  TypeOK' /\ RequestsKnow'
  BY <1>15 DEF PermissionCreate, PermissionUpdate, Change, Holders, TypeOK,
     RequestsKnow, Knows
<1>16. ASSUME NEW x \in Permissions, PermissionRemove(x) PROVE TypeOK' /\ RequestsKnow'
  BY <1>16 DEF PermissionRemove, Cascaded, Change, Holders, TypeOK, RequestsKnow, Knows
<1>b. ASSUME NEW p \in Slots PROVE Pending(p) \subseteq Codes
  BY DEF Pending, RequestsKnow, Knows
<1>17. ASSUME NEW p \in Slots, Reject(p) PROVE TypeOK' /\ RequestsKnow'
  <2>1. req' \in [Slots -> Request] /\ RequestsKnow'
    BY <1>17, SlotStep, IdleOK DEF Reject, End
  <2> QED BY <1>17, <1>b, <2>1 DEF Reject, tables, TypeOK
<1>18. CASE Crash
  <2>1. req' \in [Slots -> Request] /\ RequestsKnow'
    BY <1>18, IdleOK DEF Crash, RequestsKnow, Knows
  <2> QED BY <1>18, <1>b, <2>1 DEF Crash, tables, TypeOK
<1>19. CASE Tick
  <2>1. /\ left' \in [Codes -> 0..CACHE_TTL]
        /\ tokenLeft' \in [Codes -> 0..TOKEN_TTL]
    BY <1>19, DecBound, TtlAssumption DEF Tick, NextLeft, TypeOK
  <2> QED BY <1>19, <2>1 DEF Tick, tables, TypeOK, RequestsKnow, Knows
<1>20. CASE UNCHANGED vars
  BY <1>20 DEF vars, tables, TypeOK, RequestsKnow, Knows
<1> QED
  BY <1>1, <1>2, <1>3, <1>4, <1>6, <1>8, <1>9, <1>10, <1>11, <1>12, <1>13, <1>14,
     <1>15, <1>16, <1>17, <1>18, <1>19, <1>20 DEF Next, Arrive, Serve

-----------------------------------------------------------------------------
(* The tables. *)

(* Every step keeps Integrity. *)
LEMMA IntegrityStep == TypeOK /\ RequestsKnow /\ Integrity /\ [Next]_vars => Integrity'
<1> SUFFICES ASSUME TypeOK, RequestsKnow, Integrity, [Next]_vars PROVE Integrity'
  OBVIOUS
<1>a. None \notin Codes \cup Routes /\ Deleted \notin Codes \cup Routes
  BY NoneAssumption
<1>1. ASSUME NEW r \in Roles, NEW c \in Codes, NEW S \in SUBSET Permissions,
             RoleCreate(r, c, S)
      PROVE  Integrity'
  BY <1>1, <1>a DEF RoleCreate, Integrity, Existing, PermissionExists, RoleExists, TypeOK
<1>2. ASSUME NEW r \in Roles, NEW c \in Codes, Recoded(r, c), UNCHANGED <<holds, route>>
      PROVE  Integrity'
  BY <1>2, <1>a DEF Recoded, Integrity, Existing, PermissionExists, RoleExists, TypeOK
<1>3. ASSUME NEW p \in Slots, NEW r \in Roles, NEW c \in Codes,
             NEW S \in SUBSET Permissions, RoleSync(p, r, c, S)
      PROVE  Integrity'
  <2>1. /\ Recoded(r, c) /\ S \subseteq Existing /\ route' = route
        /\ holds' = [holds EXCEPT ![r] = S]
    BY <1>3 DEF RoleSync
  <2> QED BY <2>1, <1>a DEF Recoded, Integrity, Existing, PermissionExists, RoleExists, TypeOK
<1>4. ASSUME NEW r \in Roles, RoleRemove(r) PROVE Integrity'
  BY <1>4, <1>a DEF RoleRemove, Integrity, Existing, PermissionExists, RoleExists, TypeOK
<1>5. ASSUME NEW p \in Slots, AssignInsert(p) PROVE Integrity'
  <2>1. req[p].role \in Roles
    BY <1>5 DEF AssignInsert, RequestsKnow, Knows
  <2> QED BY <1>5, <2>1 DEF AssignInsert, Integrity, Existing, PermissionExists, RoleExists, TypeOK
<1>6. ASSUME NEW p \in Slots, NEW r \in Roles, NEW S \in SUBSET Permissions,
             Revoke(p, r, S)
      PROVE  Integrity'
  <2>1. holds' = [holds EXCEPT ![r] = @ \ S] /\ UNCHANGED <<code, route>>
    BY <1>6 DEF Revoke
  <2> QED BY <2>1 DEF Integrity, Existing, PermissionExists, RoleExists, TypeOK
<1>7. ASSUME NEW x \in Permissions, NEW v \in Routes,
             PermissionCreate(x, v) \/ PermissionUpdate(x, v)
      PROVE  Integrity'
  <2>1. /\ \A y \in Permissions : route[y] # v
        /\ route' = [route EXCEPT ![x] = v] /\ UNCHANGED <<code, holds>>
    BY <1>7 DEF PermissionCreate, PermissionUpdate
  <2> QED BY <2>1 DEF Integrity, Existing, PermissionExists, RoleExists, TypeOK
<1>8. ASSUME NEW x \in Permissions, PermissionRemove(x) PROVE Integrity'
  BY <1>8, <1>a DEF PermissionRemove, Cascaded, Integrity, Existing, PermissionExists,
     RoleExists, TypeOK
<1>9. CASE UNCHANGED tables
  BY <1>9 DEF tables, Integrity, Existing, PermissionExists, RoleExists
<1>10. ASSUME NEW p \in Slots, Serve(p) PROVE Integrity'
  BY <1>5, <1>9, <1>10 DEF Serve, GuardQuery, GuardFill, InvalidateFind, InvalidateDel
<1>11. ASSUME NEW p \in Slots, Arrive(p) PROVE Integrity'
  BY <1>3, <1>6, <1>9, <1>11 DEF Arrive, GuardMiss, GuardUnreadable, Assign
<1> QED
  BY <1>1, <1>2, <1>4, <1>7, <1>8, <1>9, <1>10, <1>11 DEF Next, RoleRename, Reject,
     Crash, Tick, vars

-----------------------------------------------------------------------------
(* The cache. *)

(* A code is accounted for when a gap or a pending invalidation explains   *)
(* why its entry may be stale.                                             *)
Explained(c) == c \in suspect \/ \E p \in Slots : c \in Pending(p)

(* Nothing about c changes: it is as stale and as explained as before.     *)
LEMMA SameRoutes ==
  ASSUME NEW c \in Codes, StaleHasCause, Granted(c)' = Granted(c),
         cache'[c] \subseteq cache[c], Explained(c) => Explained(c)'
  PROVE  Stale(c)' => Explained(c)'
BY DEF StaleHasCause, Explained, Stale

(* Slots other than p still owe the invalidations they owed, as long as    *)
(* the roles have the codes they had.                                      *)
LEMMA OthersOwe ==
  ASSUME TypeOK, code' = code, NEW p \in Slots, NEW r, req' = [req EXCEPT ![p] = r],
         NEW q \in Slots, q # p
  PROVE  Pending(q)' = Pending(q)
BY DEF Pending, TypeOK

(* A request that leaves p owes nothing there before it starts.            *)
LEMMA StartExplains ==
  ASSUME TypeOK, code' = code, suspect \subseteq suspect', NEW p \in Slots, NEW r,
         Pending(p) = {} \/ Pending(p) \subseteq suspect', req' = [req EXCEPT ![p] = r],
         NEW c \in Codes, Explained(c)
  PROVE  Explained(c)'
<1>1. CASE c \in suspect
  BY <1>1 DEF Explained
<1>2. ASSUME NEW q \in Slots, c \in Pending(q) PROVE Explained(c)'
  <2>1. CASE q = p
    BY <1>2, <2>1 DEF Explained
  <2>2. CASE q # p
    BY <1>2, <2>2, OthersOwe DEF Explained
  <2> QED BY <2>1, <2>2
<1> QED BY <1>1, <1>2 DEF Explained

(* A role given the code v leaves what is owed as it was, except for its   *)
(* old code.                                                               *)
LEMMA RecodingOwes ==
  ASSUME TypeOK, NEW r \in Roles, NEW v, code' = [code EXCEPT ![r] = v],
         suspect \subseteq suspect',
         code[r] \in Codes => v = code[r] \/ code[r] \in suspect',
         \A q \in Slots : ~Free(q) => req'[q] = req[q],
         NEW c \in Codes, Explained(c)
  PROVE  Explained(c)'
<1>1. CASE c \in suspect
  BY <1>1 DEF Explained
<1>2. ASSUME NEW q \in Slots, c \in Pending(q) PROVE Explained(c)'
  <2>1. req'[q] = req[q]
    BY <1>2 DEF Pending, Free
  <2>2. CASE req[q].pc = "del"
    BY <1>2, <2>1, <2>2 DEF Pending, Explained
  <2>3. CASE req[q].pc = "find" /\ req[q].role # r
    <3>1. code'[req[q].role] = code[req[q].role]
      BY <2>3 DEF TypeOK
    <3> QED BY <1>2, <2>1, <2>3, <3>1 DEF Pending, Explained
  <2>4. CASE req[q].pc = "find" /\ req[q].role = r
    <3>1. c = code[r] /\ code'[r] = v
      BY <1>2, <2>4 DEF Pending, TypeOK
    <3> QED BY <2>1, <2>4, <3>1 DEF Pending, Explained
  <2> QED BY <1>2, <2>2, <2>3, <2>4 DEF Pending
<1> QED BY <1>1, <1>2 DEF Explained

(* Changing the role r changes what is granted under its old and its new   *)
(* code only.                                                              *)
LEMMA OtherCodes ==
  ASSUME TypeOK, NEW r \in Roles, NEW c \in Codes, c # code[r], c # code'[r],
         \A s \in Roles \ {r} : code'[s] = code[s] /\ holds'[s] = holds[s],
         route' = route
  PROVE  Granted(c)' = Granted(c)
<1>1. HeldUnder(c)' = HeldUnder(c)
  BY DEF HeldUnder
<1> QED BY <1>1 DEF Granted

(* Every step explains the staleness it leaves behind. *)
LEMMA CacheStep ==
  TypeOK /\ RequestsKnow /\ Integrity /\ StaleHasCause /\ [Next]_vars => StaleHasCause'
<1> SUFFICES ASSUME TypeOK, RequestsKnow, Integrity, StaleHasCause, [Next]_vars,
                    NEW c \in Codes
             PROVE  Stale(c)' => Explained(c)'
  BY DEF StaleHasCause, Explained
<1>a. UNCHANGED tables => Granted(c)' = Granted(c)
  BY DEF tables, Granted, HeldUnder
<1>1. ASSUME NEW p \in Slots, NEW new, req' = [req EXCEPT ![p] = new], Pending(p) = {},
             UNCHANGED <<tables, cache, suspect>>
      PROVE  Stale(c)' => Explained(c)'
  BY <1>1, <1>a, StartExplains, SameRoutes DEF tables
<1>2. ASSUME NEW p \in Slots, NEW d \in Codes, GuardMiss(p, d) \/ GuardUnreadable(p, d)
      PROVE  Stale(c)' => Explained(c)'
  <2>1. Pending(p) = {} /\ UNCHANGED <<tables, cache, suspect>>
    BY <1>2 DEF GuardMiss, GuardUnreadable, Start, Free, Pending
  <2> QED BY <1>1, <1>2, <2>1 DEF GuardMiss, GuardUnreadable, Start
<1>3. ASSUME NEW p \in Slots, GuardQuery(p) PROVE Stale(c)' => Explained(c)'
  <2> DEFINE new == [req[p] EXCEPT !.pc = "fill", !.routes = Granted(req[p].code)]
  <2>1. req' = [req EXCEPT ![p] = new] /\ UNCHANGED <<tables, cache, suspect>>
    BY <1>3 DEF GuardQuery, TypeOK
  <2> HIDE DEF new
  <2>2. Pending(p) = {}
    BY <1>3 DEF GuardQuery, Pending
  <2> QED BY <1>1, <2>1, <2>2
<1>4. ASSUME NEW p \in Slots, GuardFill(p) PROVE Stale(c)' => Explained(c)'
  <2>1. Granted(c)' = Granted(c)
    BY <1>4, <1>a DEF GuardFill
  <2>2. CASE c = req[p].code
    BY <1>4, <2>1, <2>2 DEF GuardFill, Stale, Explained, TypeOK
  <2>3. CASE c # req[p].code
    <3>1. cache'[c] = cache[c] /\ (c \in suspect <=> c \in suspect')
      BY <1>4, <2>3 DEF GuardFill, TypeOK
    <3>2. \A q \in Slots : c \in Pending(q) => c \in Pending(q)'
      BY <1>4 DEF GuardFill, End, Pending, tables, TypeOK
    <3> QED BY <2>1, <3>1, <3>2, SameRoutes DEF Explained
  <2> QED BY <2>2, <2>3
<1>5. ASSUME NEW r \in Roles, NEW d \in Codes, NEW S \in SUBSET Permissions,
             RoleCreate(r, d, S)
      PROVE  Stale(c)' => Explained(c)'
  <2>1. CASE c = d
    BY <1>5, <2>1 DEF RoleCreate, Explained
  <2>2. CASE c # d
    <3>1. /\ code[r] = None /\ code' = [code EXCEPT ![r] = d]
          /\ holds' = [holds EXCEPT ![r] = S] /\ suspect' = suspect \cup {d}
          /\ UNCHANGED <<route, cache, req>>
      BY <1>5 DEF RoleCreate
    <3>2. Granted(c)' = Granted(c)
      BY <2>2, <3>1, OtherCodes, NoneAssumption DEF TypeOK
    <3>3. code[r] \notin Codes
      BY <3>1, NoneAssumption
    <3>4. Explained(c) => Explained(c)'
      BY <3>1, <3>3, RecodingOwes
    <3> QED BY <3>1, <3>2, <3>4, SameRoutes
  <2> QED BY <2>1, <2>2
<1>6. ASSUME NEW r \in Roles, NEW v, code' = [code EXCEPT ![r] = v],
             suspect \subseteq suspect', code[r] # v => code[r] \in suspect',
             \A s \in Roles \ {r} : holds'[s] = holds[s], UNCHANGED <<route, cache>>,
             \A q \in Slots : ~Free(q) => req'[q] = req[q],
             c # code[r], c # v
      PROVE  Stale(c)' => Explained(c)'
  <2>1. Granted(c)' = Granted(c)
    BY <1>6, OtherCodes DEF TypeOK
  <2>2. Explained(c) => Explained(c)'
    BY <1>6, RecodingOwes
  <2> QED BY <1>6, <2>1, <2>2, SameRoutes
<1>7. ASSUME NEW r \in Roles, NEW d \in Codes, RoleRename(r, d)
      PROVE  Stale(c)' => Explained(c)'
  <2>1. CASE c \in {code[r], d}
    BY <1>7, <2>1 DEF RoleRename, Explained
  <2>2. CASE c \notin {code[r], d}
    BY <1>6, <1>7, <2>2 DEF RoleRename, Recoded
  <2> QED BY <2>1, <2>2
<1>8. ASSUME NEW p \in Slots, NEW r \in Roles, NEW d \in Codes,
             NEW S \in SUBSET Permissions, RoleSync(p, r, d, S)
      PROVE  Stale(c)' => Explained(c)'
  <2>1. /\ code' = [code EXCEPT ![r] = d] /\ holds' = [holds EXCEPT ![r] = S]
        /\ suspect' = suspect \cup ({code[r]} \ {d}) /\ UNCHANGED <<route, cache>>
    BY <1>8 DEF RoleSync, Recoded
  <2>2. Free(p) /\ req' = [req EXCEPT ![p] = [Idle EXCEPT !.pc = "find", !.role = r]]
    BY <1>8 DEF RoleSync, Start
  <2>3. CASE c = d
    <3>1. req'[p].pc = "find" /\ req'[p].role = r /\ code'[r] = d
      BY <2>1, <2>2 DEF Idle, TypeOK
    <3>2. c \in Pending(p)'
      BY <2>3, <3>1 DEF Pending
    <3> QED BY <3>2 DEF Explained
  <2>4. CASE c # d /\ c = code[r]
    BY <2>1, <2>4 DEF Explained
  <2>5. CASE c # d /\ c # code[r]
    <3>1. \A q \in Slots : ~Free(q) => req'[q] = req[q]
      BY <2>2 DEF TypeOK
    <3>2. \A s \in Roles \ {r} : holds'[s] = holds[s]
      BY <2>1 DEF TypeOK
    <3> QED BY <1>6, <2>1, <2>5, <3>1, <3>2
  <2> QED BY <2>3, <2>4, <2>5
<1>9. ASSUME NEW r \in Roles, RoleRemove(r) PROVE Stale(c)' => Explained(c)'
  <2>1. /\ code' = [code EXCEPT ![r] = Deleted] /\ holds' = [holds EXCEPT ![r] = {}]
        /\ suspect' = suspect \cup {code[r]} /\ UNCHANGED <<route, cache, req>>
    BY <1>9 DEF RoleRemove
  <2>2. CASE c = code[r]
    BY <2>1, <2>2 DEF Explained
  <2>3. CASE c # code[r]
    <3>1. \A s \in Roles \ {r} : holds'[s] = holds[s]
      BY <2>1 DEF TypeOK
    <3> QED BY <1>6, <2>1, <2>3, <3>1, NoneAssumption
  <2> QED BY <2>2, <2>3
<1>10. ASSUME NEW p \in Slots, NEW r \in Roles, NEW S \in SUBSET Permissions,
              Assign(p, r, S)
       PROVE  Stale(c)' => Explained(c)'
  <2>1. Pending(p) = {} /\ UNCHANGED <<tables, cache, suspect>>
    BY <1>10 DEF Assign, Start, Free, Pending
  <2> QED BY <1>1, <1>10, <2>1 DEF Assign, Start
<1>11. ASSUME NEW p \in Slots, NEW r \in Roles, NEW new, new.pc = "find", new.role = r,
              req' = [req EXCEPT ![p] = new], Pending(p) = {},
              \A s \in Roles \ {r} : holds'[s] = holds[s],
              UNCHANGED <<code, route, cache, suspect>>
       PROVE  Stale(c)' => Explained(c)'
  <2>1. CASE c = code[r]
    <3>1. req'[p].pc = "find" /\ req'[p].role = r
      BY <1>11 DEF TypeOK
    <3>2. c \in Pending(p)'
      BY <1>11, <2>1, <3>1 DEF Pending
    <3> QED BY <3>2 DEF Explained
  <2>2. CASE c # code[r]
    <3>1. Granted(c)' = Granted(c)
      BY <1>11, <2>2, OtherCodes
    <3>2. Explained(c) => Explained(c)'
      BY <1>11, StartExplains
    <3> QED BY <1>11, <3>1, <3>2, SameRoutes
  <2> QED BY <2>1, <2>2
<1>12. ASSUME NEW p \in Slots, AssignInsert(p) PROVE Stale(c)' => Explained(c)'
  <2> DEFINE new == [req[p] EXCEPT !.pc = "find"]
  <2>1. req[p].role \in Roles /\ new.pc = "find" /\ new.role = req[p].role
    BY <1>12 DEF AssignInsert, RequestsKnow, Knows, TypeOK, Request
  <2>2. req' = [req EXCEPT ![p] = new] /\ UNCHANGED <<code, route, cache, suspect>>
    BY <1>12 DEF AssignInsert, TypeOK
  <2> HIDE DEF new
  <2>3. \A s \in Roles \ {req[p].role} : holds'[s] = holds[s]
    BY <1>12 DEF AssignInsert, TypeOK
  <2>4. Pending(p) = {}
    BY <1>12 DEF AssignInsert, Pending
  <2> QED BY <1>11, <2>1, <2>2, <2>3, <2>4
<1>13. ASSUME NEW p \in Slots, NEW r \in Roles, NEW S \in SUBSET Permissions,
              Revoke(p, r, S)
       PROVE  Stale(c)' => Explained(c)'
  <2> DEFINE new == [Idle EXCEPT !.pc = "find", !.role = r]
  <2>1. new.pc = "find" /\ new.role = r
    BY DEF Idle
  <2>2. /\ req' = [req EXCEPT ![p] = new] /\ Pending(p) = {}
        /\ UNCHANGED <<code, route, cache, suspect>>
    BY <1>13 DEF Revoke, RevokeThenInvalidate, Start, Free, Pending
  <2> HIDE DEF new
  <2>3. \A s \in Roles \ {r} : holds'[s] = holds[s]
    BY <1>13 DEF Revoke, TypeOK
  <2> QED BY <1>11, <2>1, <2>2, <2>3
<1>14. ASSUME NEW p \in Slots, InvalidateFind(p) PROVE Stale(c)' => Explained(c)'
  <2>1. UNCHANGED <<tables, cache, suspect>> /\ req[p].pc = "find"
    BY <1>14 DEF InvalidateFind
  <2>2. CASE ~RoleExists(req[p].role)
    <3>1. Pending(p) = {}
      BY <2>1, <2>2 DEF Pending, RoleExists
    <3> QED BY <1>1, <1>14, <2>1, <2>2, <3>1 DEF InvalidateFind, End
  <2>3. CASE RoleExists(req[p].role)
    <3> DEFINE new == [req[p] EXCEPT !.pc = "del", !.code = code[req[p].role]]
    <3>1. req' = [req EXCEPT ![p] = new]
      BY <1>14, <2>3 DEF InvalidateFind, TypeOK
    <3>2. new.pc = "del" /\ new.code = code[req[p].role]
      BY DEF TypeOK, Request
    <3> HIDE DEF new
    <3>3. req'[p] = new
      BY <3>1 DEF TypeOK
    <3>4. Pending(p)' = {code[req[p].role]}
      BY <3>2, <3>3 DEF Pending
    <3>5. Pending(p) = Pending(p)'
      BY <2>1, <2>3, <3>4 DEF Pending, RoleExists
    <3>6. \A q \in Slots : q # p => Pending(q)' = Pending(q)
      BY <2>1, <3>1, OthersOwe DEF tables
    <3>7. Explained(c) => Explained(c)'
      BY <2>1, <3>5, <3>6 DEF Explained
    <3> QED BY <1>a, <2>1, <3>7, SameRoutes
  <2> QED BY <2>2, <2>3
<1>15. ASSUME NEW p \in Slots, InvalidateDel(p) PROVE Stale(c)' => Explained(c)'
  <2>1. /\ req[p].pc = "del" /\ cache' = [cache EXCEPT ![req[p].code] = {}]
        /\ UNCHANGED <<tables, suspect>> /\ req' = [req EXCEPT ![p] = Idle]
    BY <1>15 DEF InvalidateDel, End
  <2>2. CASE c = req[p].code
    BY <2>1, <2>2 DEF Stale, TypeOK
  <2>3. CASE c # req[p].code
    <3>1. cache'[c] = cache[c] /\ c \notin Pending(p)
      BY <2>1, <2>3 DEF Pending, TypeOK
    <3>2. \A q \in Slots : q # p => Pending(q)' = Pending(q)
      BY <2>1, OthersOwe DEF tables
    <3>3. Explained(c) => Explained(c)'
      BY <2>1, <3>1, <3>2 DEF Explained
    <3> QED BY <1>a, <2>1, <3>1, <3>3, SameRoutes
  <2> QED BY <2>2, <2>3
<1>16. ASSUME suspect \subseteq suspect', UNCHANGED <<code, cache, req>>,
              Granted(c)' = Granted(c) \/ c \in suspect'
       PROVE  Stale(c)' => Explained(c)'
  <2>1. CASE c \in suspect'
    BY <2>1 DEF Explained
  <2>2. CASE Granted(c)' = Granted(c)
    <3>1. Explained(c) => Explained(c)'
      BY <1>16 DEF Explained, Pending
    <3> QED BY <1>16, <2>2, <3>1, SameRoutes
  <2> QED BY <1>16, <2>1, <2>2
<1>17. ASSUME NEW x \in Permissions, x \notin HeldUnder(c), UNCHANGED code,
              \A y \in Permissions \ {x} : route'[y] = route[y],
              \A r \in Roles : holds'[r] \ {x} = holds[r] \ {x} /\ holds'[r] \subseteq holds[r]
       PROVE  Granted(c)' = Granted(c)
  <2>1. HeldUnder(c)' = HeldUnder(c)
    BY <1>17 DEF HeldUnder
  <2> QED BY <1>17, <2>1 DEF Granted, HeldUnder
<1>18. ASSUME NEW x \in Permissions, NEW v \in Routes, PermissionCreate(x, v)
       PROVE  Stale(c)' => Explained(c)'
  <2>1. x \notin HeldUnder(c)
    BY <1>18, NoneAssumption DEF PermissionCreate, HeldUnder, Integrity, Existing,
       PermissionExists
  <2>2. Granted(c)' = Granted(c)
    BY <1>17, <1>18, <2>1 DEF PermissionCreate, TypeOK
  <2> QED BY <1>16, <1>18, <2>2 DEF PermissionCreate
<1>19. ASSUME NEW x \in Permissions, NEW v \in Routes, PermissionUpdate(x, v)
       PROVE  Stale(c)' => Explained(c)'
  <2>1. c \in suspect' \/ x \notin HeldUnder(c)
    BY <1>19 DEF PermissionUpdate, Holders
  <2>2. x \notin HeldUnder(c) => Granted(c)' = Granted(c)
    BY <1>17, <1>19 DEF PermissionUpdate, TypeOK
  <2> QED BY <1>16, <1>19, <2>1, <2>2 DEF PermissionUpdate
<1>20. ASSUME NEW x \in Permissions, PermissionRemove(x)
       PROVE  Stale(c)' => Explained(c)'
  <2>1. c \in suspect' \/ x \notin HeldUnder(c)
    BY <1>20 DEF PermissionRemove, Holders
  <2>2. x \notin HeldUnder(c) => Granted(c)' = Granted(c)
    BY <1>17, <1>20 DEF PermissionRemove, Cascaded, TypeOK
  <2> QED BY <1>16, <1>20, <2>1, <2>2 DEF PermissionRemove
<1>21. ASSUME NEW p \in Slots, Reject(p) PROVE Stale(c)' => Explained(c)'
  <2>1. /\ req' = [req EXCEPT ![p] = Idle] /\ suspect' = suspect \cup Pending(p)
        /\ UNCHANGED <<tables, cache>>
    BY <1>21 DEF Reject, End
  <2>2. Explained(c) => Explained(c)'
    BY <2>1, StartExplains DEF tables
  <2> QED BY <1>a, <2>1, <2>2, SameRoutes
<1>22. CASE Crash
  <2>1. Explained(c) => Explained(c)'
    BY <1>22 DEF Crash, Explained
  <2> QED BY <1>a, <1>22, <2>1, SameRoutes DEF Crash
<1>23. CASE Tick
  <2>1. cache'[c] \subseteq cache[c]
    BY <1>23 DEF Tick
  <2>2. Explained(c) => Explained(c)'
    BY <1>23 DEF Tick, tables, Explained, Pending
  <2> QED BY <1>a, <1>23, <2>1, <2>2, SameRoutes DEF Tick
<1>24. CASE UNCHANGED vars
  <2>1. Explained(c) => Explained(c)'
    BY <1>24 DEF vars, tables, Explained, Pending
  <2> QED BY <1>a, <1>24, <2>1, SameRoutes DEF vars
<1>25. ASSUME NEW p \in Slots, Arrive(p) PROVE Stale(c)' => Explained(c)'
  BY <1>2, <1>8, <1>10, <1>13, <1>25 DEF Arrive
<1>26. ASSUME NEW p \in Slots, Serve(p) PROVE Stale(c)' => Explained(c)'
  BY <1>3, <1>4, <1>12, <1>14, <1>15, <1>26 DEF Serve
<1> QED
  BY <1>5, <1>7, <1>9, <1>18, <1>19, <1>20, <1>21, <1>22, <1>23, <1>24, <1>25, <1>26
     DEF Next

-----------------------------------------------------------------------------
(* All three hold at the start. *)
LEMMA InitialState == Init => IInv
<1> SUFFICES ASSUME Init PROVE IInv
  OBVIOUS
<1>1. TypeOK
  BY IdleOK, TtlAssumption DEF Init, TypeOK, Existing
<1>2. RequestsKnow
  BY IdleOK DEF Init, RequestsKnow
<1>3. Integrity
  BY NoneAssumption DEF Init, Integrity, Existing, PermissionExists, RoleExists
<1>4. StaleHasCause
  BY DEF Init, StaleHasCause, Stale
<1> QED BY <1>1, <1>2, <1>3, <1>4 DEF IInv

(* IInv is an invariant: each part is inductive given those before it.     *)
LEMMA Invariance == Spec => []IInv
<1>1. IInv /\ [Next]_vars => IInv'
  BY ShapeStep, IntegrityStep, CacheStep DEF IInv
<1> QED BY <1>1, InitialState, PTL DEF Spec

(* The state keeps its shapes, and no lifetime exceeds its TTL.            *)
THEOREM TypeCorrect == Spec => []TypeOK
<1>1. IInv => TypeOK
  BY DEF IInv
<1> QED BY <1>1, Invariance, PTL

(* The tables stay consistent whatever is assigned, renamed and removed at *)
(* the same time: roles.service.ts:265-268 never leaves a dangling row.    *)
THEOREM IntegrityCorrect == Spec => []Integrity
<1>1. IInv => Integrity
  BY DEF IInv
<1> QED BY <1>1, Invariance, PTL

(* The gaps StaleHasCause names are the only ones: outside them the guard  *)
(* never decides by an outdated entry (rbac.guard.ts:85-109).              *)
THEOREM CacheCorrect == Spec => []StaleHasCause
<1>1. IInv => StaleHasCause
  BY DEF IInv
<1> QED BY <1>1, Invariance, PTL
=============================================================================

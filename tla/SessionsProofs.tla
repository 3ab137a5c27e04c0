--------------------------- MODULE SessionsProofs ---------------------------
(***************************************************************************)
(* Proofs about Sessions: the shapes of its state, who a request may touch, *)
(* the blacklist, who revokes a row, that the rows implement               *)
(* SessionLifecycle, and what sets off the theft alarm, for any number of  *)
(* users, browsers, sessions and requests in flight and for any lifetimes  *)
(* and bounds.                                                             *)
(***************************************************************************)
EXTENDS Sessions, FiniteSetTheorems, TLAPS

(* The number of opened sessions, which LoginCreate dates a row with. *)
LEMMA OpenedCount == Cardinality(Opened) \in Nat
  BY FiniteAssumption, FS_Subset, FS_CardinalityType DEF Opened

(* A countdown stays within its bound. *)
LEMMA DecBound == \A k \in Nat : \A n \in 0..k : Dec(n) \in 0..k
  BY DEF Dec

(* A command that writes no list has the shape of a command. *)
LEMMA CmdType ==
  ASSUME NEW op \in CommandNames, NEW S \in SUBSET Jtis
  PROVE  Cmd(op, S) \in Command
  BY DEF Cmd, Command

(* RedisService.revokeSession for a set of sessions is a set of commands. *)
LEMMA RevokeInRedisType ==
  ASSUME NEW S \in SUBSET Jtis
  PROVE  RevokeInRedis(S) \subseteq Command
  BY CmdType DEF RevokeInRedis, CommandNames

(* Starting a request in a free slot keeps the shape of req ... *)
LEMMA StartType ==
  ASSUME TypeOK, NEW p \in Slots, NEW r \in Request, Start(p, r)
  PROVE  req' \in [Slots -> Request]
  BY DEF TypeOK, Start

(* ... and so does moving one on, *)
LEMMA GotoType ==
  ASSUME TypeOK, NEW p \in Slots, NEW pc \in PCs, NEW todo \in SUBSET Command,
         Goto(p, pc, todo)
  PROVE  req' \in [Slots -> Request]
<1> DEFINE r == [req[p] EXCEPT !.pc = pc, !.todo = todo]
<1>1. req[p] \in Request
  BY DEF TypeOK
<1>2. r \in Request
  BY <1>1 DEF Request
<1>3. req' = [req EXCEPT ![p] = r]
  BY DEF TypeOK, Goto
<1> HIDE DEF r
<1> QED BY <1>2, <1>3 DEF TypeOK

(* and ending one, *)
LEMMA IdleType == Idle \in Request
  BY DEF Idle, Request, PCs

(* and performing one of its commands. *)
LEMMA PerformedType ==
  ASSUME TypeOK, NEW p \in Slots, NEW c, Performed(p, c)
  PROVE  req' \in [Slots -> Request]
<1>1. req[p].pc \in PCs /\ req[p].todo \ {c} \in SUBSET Command
  BY DEF TypeOK, Request
<1> QED BY <1>1, GotoType DEF Performed

(* Revoking rows keeps the shape of the table. *)
LEMMA RevokeRowsType ==
  ASSUME TypeOK, NEW S
  PROVE  RevokeRows(S) \in [Jtis -> Row]
<1> DEFINE marked(j) == IF j \in S THEN [row[j] EXCEPT !.revoked = TRUE] ELSE row[j]
<1>1. ASSUME NEW j \in Jtis PROVE marked(j) \in Row
  <2>1. row[j] \in Row
    BY DEF TypeOK
  <2> QED BY <2>1 DEF Row
<1>2. RevokeRows(S) = [j \in Jtis |-> marked(j)]
  BY DEF RevokeRows
<1> HIDE DEF marked
<1> QED BY <1>1, <1>2

(* The device lists read make well-formed write commands. *)
LEMMA WritesAfterType ==
  ASSUME NEW c \in Command, NEW lists \in SUBSET SUBSET Jtis
  PROVE  WritesAfter(c, lists) \in SUBSET Command
<1>1. c.on \subseteq Jtis
  BY DEF Command
<1>2. ASSUME NEW j \in c.on, NEW L \in SUBSET Jtis
      PROVE  WriteList(j, L) \in Command
  BY <1>1 DEF WriteList, Command, CommandNames
<1>3. Listed(lists) \in SUBSET Jtis
  <2> SUFFICES ASSUME NEW L \in lists, NEW k \in L PROVE k \in Jtis
    BY Zenon DEF Listed
  <2> QED OBVIOUS
<1>4. \A j \in c.on : /\ Listed(lists) \cup {j} \in SUBSET Jtis
                      /\ Listed(lists) \ {j} \in SUBSET Jtis
  BY <1>1, <1>3
<1>5. {WriteList(j, Listed(lists) \cup {j}) : j \in c.on} \in SUBSET Command
  BY <1>2, <1>4
<1>6. {WriteList(j, Listed(lists) \ {j}) : j \in c.on} \in SUBSET Command
  BY <1>2, <1>4
<1> QED BY <1>5, <1>6 DEF WritesAfter

(* The cookies a response sets have the shape of a jar. *)
LEMMA CookiesType ==
  ASSUME NEW cookies \in Jar, NEW r \in Request
  PROVE  SetCookies(cookies, r) \in Jar
  BY TtlAssumption DEF SetCookies, Jar, RefreshToken, Request

(* A rotated row is a row. *)
LEMMA RotatedType ==
  ASSUME NEW r \in Request, row[r.jti] \in Row
  PROVE  Rotated(r) \in Row
<1>1. ASSUME NEW x \in Row
      PROVE  [x EXCEPT !.hash = r.tok, !.ver = r.ver, !.left = REFRESH_TTL] \in Row
  <2>1. r.tok \in Nat /\ r.ver \in Nat /\ REFRESH_TTL \in 0..REFRESH_TTL
    BY TtlAssumption DEF Request
  <2> QED BY <2>1 DEF Row
<1> QED BY <1>1 DEF Rotated

(* logout and revokeSession hand over well-formed commands. *)
LEMMA RevocationType ==
  ASSUME NEW j \in Jtis
  PROVE  RevocationOf(j) \in SUBSET Command
  BY CmdType, RevokeInRedisType DEF RevocationOf, CommandNames

(* The unrevoked sessions of a user are sessions. *)
LEMMA UnrevokedType == \A u : Unrevoked(u) \subseteq Jtis
  BY DEF Unrevoked, Owned

(* Every step keeps TypeOK. *)
LEMMA TypeStep == TypeOK /\ RequestsOwnSessions /\ [Next]_vars => TypeOK'
<1> USE TtlAssumption, NoneAssumption, BoundsAssumption
<1> SUFFICES ASSUME TypeOK, RequestsOwnSessions, [Next]_vars PROVE TypeOK'
  OBVIOUS
<1> USE DEF TypeOK
<1>1. ASSUME NEW p \in Slots, NEW b \in Browsers, NEW u \in Users, NEW by \in {"password", "google"}, LoginStart(p, b, u, by)
      PROVE TypeOK'
  <2> DEFINE r == [Idle EXCEPT
     !.pc = "limit", !.by = by, !.browser = b, !.user = u,
     !.pwd = IF by = "password" THEN password[u] ELSE 0]
  <2>1. r \in Request
    BY DEF Request, Idle, PCs, AllOps
  <2>2. QED BY <1>1, <2>1, StartType DEF LoginStart, stores, tokens
<1>2. ASSUME NEW p \in Slots, LoginLimit(p) PROVE TypeOK'
  <2> DEFINE u == req[p].user
             todo == IF LimitReached(u) THEN Eviction(Oldest(u)) ELSE {}
  <2>1. Oldest(u) \in SUBSET Jtis
    BY DEF Oldest, Active, Unrevoked, Owned
  <2>2. Eviction(Oldest(u)) \in SUBSET Command
    BY <2>1, CmdType, RevokeInRedisType DEF Eviction, CommandNames
  <2>3. todo \in SUBSET Command /\ Goto(p, "create", todo)
    BY <1>2, <2>2 DEF LoginLimit
  <2> HIDE DEF todo
  <2>4. QED BY <1>2, <2>3, GotoType DEF LoginLimit, PCs, stores, tokens
<1>3. ASSUME NEW p \in Slots, NEW j \in Jtis, LoginCreate(p, j) PROVE TypeOK'
  <2> DEFINE new == [user |-> req[p].user, ver |-> 1, hash |-> 1, left |-> REFRESH_TTL,
                     revoked |-> FALSE, pwd |-> req[p].pwd,
                     born |-> Cardinality(Opened)]
             r == [req[p] EXCEPT !.pc = "sign", !.jti = j, !.tok = 1,
                                 !.todo = {Cmd("cache", {j}), Cmd("list", {j})}]
  <2>1. new \in Row
    BY OpenedCount DEF Row, Request
  <2>2. r \in Request
    <3>1. req[p] \in Request /\ Cmd("cache", {j}) \in Command /\ Cmd("list", {j}) \in Command
      BY CmdType DEF CommandNames
    <3> QED BY <3>1 DEF Request, PCs
  <2>3. req' = [req EXCEPT ![p] = r] /\ row' = [row EXCEPT ![j] = new]
    BY <1>3 DEF LoginCreate
  <2> HIDE DEF r, new
  <2>4. minted' \in [Jtis -> Nat]
    BY <1>3 DEF LoginCreate
  <2>5. req' \in [Slots -> Request] /\ row' \in [Jtis -> Row]
    BY <2>1, <2>2, <2>3
  <2>6. QED BY <1>3, <2>4, <2>5 DEF LoginCreate
<1>4. ASSUME NEW p \in Slots, Sign(p) PROVE TypeOK'
  <2>1. ASSUME NEW b \in Browsers PROVE SetCookies(jar[b], req[p]) \in Jar
    <3>1. jar[b] \in Jar /\ req[p] \in Request
      OBVIOUS
    <3> QED BY <3>1, CookiesType
  <2>2. jar' \in [Browsers -> Jar] /\ faults' \in Nat
    BY <1>4, <2>1 DEF Sign, Respond
  <2>3. access' \in [Jtis -> 0..ACCESS_TTL] /\ late' \in [Jtis -> 0..ACCESS_TTL]
    BY <1>4 DEF Sign
  <2>4. QED BY <1>4, <2>2, <2>3, IdleType DEF Sign, stores
<1>5. ASSUME NEW p \in Slots, NEW b \in Browsers, RefreshMatch(p, b) PROVE TypeOK'
  <2> DEFINE j == jar[b].jti
             r == [Idle EXCEPT
                    !.pc = "rotate", !.by = "refresh", !.browser = b,
                    !.user = row[j].user, !.jti = j, !.tok = minted[j] + 1,
                    !.ver = NextVersion(row[j].ver)]
  <2>1. j \in Jtis
    BY <1>5 DEF RefreshMatch, Refreshable, Jar
  <2>2. row[j].user \in Users \cup {None} /\ row[j].ver + 1 \in Nat /\ minted[j] + 1 \in Nat
    BY <2>1 DEF Row
  <2>3. r \in Request
    BY <2>1, <2>2 DEF Request, Idle, PCs, AllOps, NextVersion
  <2>4. Start(p, r) /\ minted' = [minted EXCEPT ![j] = @ + 1]
    BY <1>5 DEF RefreshMatch
  <2> HIDE DEF r, j
  <2>5. req' \in [Slots -> Request] /\ minted' \in [Jtis -> Nat]
    BY <2>1, <2>3, <2>4, StartType
  <2>6. QED BY <1>5, <2>5 DEF RefreshMatch, stores
<1>6. ASSUME NEW p \in Slots, RefreshRotate(p) PROVE TypeOK'
  <2> DEFINE r == req[p]
  <2>1. r.jti \in Jtis
    BY <1>6 DEF RefreshRotate, RequestsOwnSessions, ActsForOneUser, At, Idle, Request
  <2>2. Rotated(r) \in Row
    <3>1. row[r.jti] \in Row /\ r \in Request
      BY <2>1
    <3> QED BY <3>1, RotatedType
  <2>3. {Cmd("cache", {r.jti})} \in SUBSET Command
    BY <2>1, CmdType DEF CommandNames
  <2>4. row' \in [Jtis -> Row] /\ req' \in [Slots -> Request]
    BY <1>6, <2>2, <2>3, GotoType DEF RefreshRotate, PCs
  <2>5. QED BY <1>6, <2>4 DEF RefreshRotate, tokens
<1>7. ASSUME NEW p \in Slots, NEW b \in Browsers, RefreshMismatch(p, b) PROVE TypeOK'
  <2> DEFINE j == jar[b].jti
             r == [Idle EXCEPT !.pc = "mismatch", !.by = "refresh", !.browser = b,
                         !.user = row[j].user, !.jti = j]
  <2>1. j \in Jtis
    BY <1>7 DEF RefreshMismatch, Refreshable, Jar
  <2>2. row[j].user \in Users \cup {None}
    BY <2>1 DEF Row
  <2>3. r \in Request
    BY <2>1, <2>2 DEF Request, Idle, PCs, AllOps
  <2>4. QED BY <1>7, <2>3, StartType DEF RefreshMismatch, stores, tokens
<1>8. ASSUME NEW p \in Slots, RevokeAll(p) PROVE TypeOK'
  <2> DEFINE todo == {Cmd("revokeRows", {})} \cup RevokeInRedis(Unrevoked(req[p].user))
  <2>1. todo \in SUBSET Command
    BY CmdType, RevokeInRedisType, UnrevokedType DEF CommandNames
  <2>2. QED BY <1>8, <2>1, GotoType DEF RevokeAll, PCs, stores, tokens
<1>9. ASSUME NEW p \in Slots, NEW b \in Browsers, Logout(p, b) PROVE TypeOK'
  <2> DEFINE j == jar[b].access
             r == [Idle EXCEPT !.pc = "clear", !.by = "logout", !.browser = b,
                               !.user = row[j].user, !.todo = RevocationOf(j)]
  <2>1. j \in Jtis
    BY <1>9 DEF Logout, Jar
  <2>2. row[j].user \in Users \cup {None}
    BY <2>1 DEF Row
  <2>3. r \in Request
    BY <2>1, <2>2, RevocationType DEF Request, Idle, PCs, AllOps
  <2>4. QED BY <1>9, <2>3, StartType DEF Logout, stores, tokens
<1>10. ASSUME NEW p \in Slots, ClearCookies(p) PROVE TypeOK'
  <2>1. EmptyJar \in Jar
    BY DEF EmptyJar, Jar, NoToken, RefreshToken
  <2>2. QED BY <1>10, <2>1, IdleType DEF ClearCookies, Respond, stores, tokens
<1>11. ASSUME NEW p \in Slots, NEW j \in Jtis, NEW target \in Jtis,
              RevokeSession(p, j, target)
       PROVE  TypeOK'
  <2> DEFINE r == [Idle EXCEPT !.pc = "done", !.by = "revoke",
                               !.user = row[j].user, !.todo = RevocationOf(target)]
  <2>1. row[j].user \in Users \cup {None}
    BY DEF Row
  <2>2. r \in Request
    BY <2>1, RevocationType DEF Request, Idle, PCs, AllOps
  <2>3. QED BY <1>11, <2>2, StartType DEF RevokeSession, stores, tokens
<1>12. ASSUME NEW p \in Slots, NEW j \in Jtis, LogoutOthers(p, j) PROVE TypeOK'
  <2> DEFINE others == Unrevoked(row[j].user) \ {j}
             r == [Idle EXCEPT !.pc = "others", !.by = "others",
                               !.user = row[j].user, !.jti = j,
                               !.targets = others]
  <2>1. row[j].user \in Users \cup {None} /\ others \in SUBSET Jtis
    BY UnrevokedType DEF Row
  <2>2. r \in Request
    BY <2>1 DEF Request, Idle, PCs, AllOps
  <2>3. QED BY <1>12, <2>2, StartType DEF LogoutOthers, stores, tokens
<1>13. ASSUME NEW p \in Slots, OthersRevoke(p) PROVE TypeOK'
  <2> DEFINE r == req[p]
             todo == {Cmd("unlist", r.targets)} \cup RevokeInRedis(r.targets)
  <2>1. todo \in SUBSET Command
    BY CmdType, RevokeInRedisType DEF CommandNames, Request
  <2>2. QED BY <1>13, <2>1, GotoType, RevokeRowsType DEF OthersRevoke, PCs, tokens
<1>14. ASSUME NEW u \in Users, IssueResetToken(u) PROVE TypeOK'
  BY <1>14 DEF IssueResetToken, tokens
<1>15. ASSUME NEW p \in Slots, NEW u \in Users, ResetStart(p, u) PROVE TypeOK'
  <2>1. [Idle EXCEPT !.pc = "reset", !.by = "reset", !.user = u] \in Request
    BY DEF Request, Idle, PCs, AllOps
  <2>2. QED BY <1>15, <2>1, StartType DEF ResetStart, stores, tokens
<1>16. ASSUME NEW p \in Slots, ResetApply(p) PROVE TypeOK'
  <2>1. ResetCommands(req[p].user) \in SUBSET Command
    BY CmdType, RevokeInRedisType, UnrevokedType DEF ResetCommands, CommandNames
  <2>2. QED BY <1>16, <2>1, GotoType DEF ResetApply, PCs, stores, tokens
<1>17. ASSUME NEW p \in Slots, Perform(p) PROVE TypeOK'
  <2>0. req[p].user \in Users
    BY <1>17 DEF Perform, RequestsOwnSessions, ActsForOneUser, Idle
  <2>1. PICK c \in req[p].todo :
          \/ PerformRevokeRow(p, c)
          \/ PerformRevokeRows(p, c)
          \/ PerformSetPassword(p, c)
          \/ PerformDropToken(p, c)
          \/ PerformBlacklist(p, c)
          \/ PerformCache(p, c)
          \/ PerformReadList(p, c)
          \/ PerformWriteList(p, c)
    BY <1>17 DEF Perform
  <2>2. c \in Command /\ UNCHANGED <<access, late, minted, jar, faults>>
    BY <1>17 DEF Perform, Request
  <2>3. CASE PerformRevokeRow(p, c)
    BY <2>2, <2>3, PerformedType, RevokeRowsType DEF PerformRevokeRow
  <2>4. CASE PerformRevokeRows(p, c)
    BY <2>2, <2>4, PerformedType, RevokeRowsType DEF PerformRevokeRows
  <2>5. CASE PerformSetPassword(p, c)
    BY <2>0, <2>2, <2>5, PerformedType DEF PerformSetPassword
  <2>6. CASE PerformDropToken(p, c)
    BY <2>2, <2>6, PerformedType DEF PerformDropToken
  <2>7. CASE PerformBlacklist(p, c)
    BY <2>2, <2>7, PerformedType DEF PerformBlacklist, RevokedKeyTtl, Command
  <2>8. CASE PerformCache(p, c)
    BY <2>2, <2>8, PerformedType DEF PerformCache
  <2>9. CASE PerformReadList(p, c)
    <3>1. devices[req[p].user] \in SUBSET SUBSET Jtis
             /\ req[p].pc \in PCs /\ req[p].todo \in SUBSET Command
      BY <2>0 DEF Request
    <3>2. WritesAfter(c, devices[req[p].user]) \in SUBSET Command
      BY <2>2, <3>1, WritesAfterType
    <3>3. QED
      BY <2>2, <2>9, <3>1, <3>2, GotoType DEF PerformReadList, stores
  <2>10. CASE PerformWriteList(p, c)
    BY <2>2, <2>10, PerformedType DEF PerformWriteList, Command
  <2> QED BY <2>1, <2>3, <2>4, <2>5, <2>6, <2>7, <2>8, <2>9, <2>10
<1>18. ASSUME NEW p \in Slots, Finish(p) PROVE TypeOK'
  BY <1>18, IdleType DEF Finish, stores, tokens
<1>19. ASSUME NEW p \in Slots, Reject(p) PROVE TypeOK'
  <2>1. PICK todo \in SUBSET Command : Goto(p, "gone", todo)
    BY <1>19 DEF Reject, Request
  <2>2. QED BY <1>19, <2>1, GotoType DEF Reject, PCs, stores, tokens
<1>20. ASSUME Tick PROVE TypeOK'
  <2>1. row' \in [Jtis -> Row]
    <3>1. ASSUME NEW j \in Jtis PROVE [row[j] EXCEPT !.left = Dec(@)] \in Row
      <4>1. row[j] \in Row
        OBVIOUS
      <4> QED BY <4>1, DecBound DEF Row
    <3> QED BY <1>20, <3>1 DEF Tick
  <2>2. jar' \in [Browsers -> Jar]
    <3>1. ASSUME NEW b \in Browsers PROVE Aged(jar[b]) \in Jar
      <4>1. jar[b] \in Jar
        OBVIOUS
      <4> QED BY <4>1, DecBound DEF Aged, Jar, NoToken, RefreshToken
    <3> QED BY <1>20, <3>1 DEF Tick
  <2>3. QED BY <1>20, <2>1, <2>2, DecBound DEF Tick
<1>21. ASSUME Crash PROVE TypeOK'
  BY <1>21, IdleType DEF Crash, stores, tokens
<1>22. CASE UNCHANGED vars
  BY <1>22 DEF vars, stores, tokens
<1> QED
  BY <1>1, <1>2, <1>3, <1>4, <1>5, <1>6, <1>7, <1>8, <1>9, <1>10, <1>11, <1>12,
     <1>13, <1>14, <1>15, <1>16, <1>17, <1>18, <1>19, <1>20, <1>21, <1>22
     DEF Next, Arrive, Serve

-----------------------------------------------------------------------------
(* Ownership. *)

OwnersStay == \A j \in Jtis : row[j].user # None => row'[j].user = row[j].user

(* ActsForOneUser of r in the next state, for an r computed in this one *)
ActsThen(r) ==
  /\ r.user \in Users
  /\ r.jti # None => row'[r.jti].user = r.user
  /\ r.pc \in {"rotate", "sign", "others"} => r.jti # None
  /\ \A c \in r.todo :
       c.op = "revokeRow" => \A j \in c.on : j \in Jtis /\ row'[j].user = r.user
  /\ r.by = "others" => /\ r.pc \in {"others", "done", "gone"}
                        /\ \A c \in r.todo : ~RevokesRows(c)

(* Rows keep their owners, so a request that acts for one user still does. *)
LEMMA ActsStays ==
  ASSUME OwnersStay, NEW r \in Request, ActsForOneUser(r)
  PROVE  ActsThen(r)
<1>1. r.user # None
  BY NoneAssumption DEF ActsForOneUser
<1>2. r.jti # None => row'[r.jti].user = r.user
  BY <1>1 DEF ActsForOneUser, OwnersStay, Request
<1>3. \A j \in Owned(r.user) : j \in Jtis /\ row'[j].user = r.user
  BY <1>1 DEF Owned, OwnersStay
<1> QED BY <1>2, <1>3 DEF ActsForOneUser, ActsThen

(* Only the slot that moved has to be looked at. *)
LEMMA OthersStay ==
  ASSUME TypeOK, RequestsOwnSessions, OwnersStay, NEW p \in Slots, NEW r,
         req' = [req EXCEPT ![p] = r], r = Idle \/ ActsThen(r)
  PROVE  \A q \in Slots : req'[q] = Idle \/ ActsForOneUser(req[q])'
<1> SUFFICES ASSUME NEW q \in Slots, req'[q] # Idle PROVE ActsForOneUser(req[q])'
  OBVIOUS
<1>1. ActsThen(req'[q])
  <2>1. CASE q = p
    BY <2>1 DEF TypeOK
  <2>2. CASE q # p
    <3>1. req'[q] = req[q] /\ req[q] \in Request /\ ActsForOneUser(req[q])
      BY <2>2 DEF TypeOK, RequestsOwnSessions
    <3> QED BY <3>1, ActsStays
  <2> QED BY <2>1, <2>2
<1> QED BY <1>1 DEF ActsThen, ActsForOneUser, Owned

(* Revoking rows changes no owner. *)
LEMMA RevokeRowsKeepsUsers ==
  ASSUME TypeOK, NEW S, row' = RevokeRows(S)
  PROVE  \A j \in Jtis : row'[j].user = row[j].user
<1> SUFFICES ASSUME NEW j \in Jtis PROVE row'[j].user = row[j].user
  OBVIOUS
<1>1. row[j] \in Row
  BY DEF TypeOK
<1> QED BY <1>1 DEF RevokeRows, Row

(* No step changes the owner of a session. *)
LEMMA OwnersStayStep == TypeOK /\ RequestsOwnSessions /\ [Next]_vars => OwnersStay
<1> SUFFICES ASSUME TypeOK, RequestsOwnSessions, [Next]_vars, row' # row PROVE OwnersStay
  BY DEF OwnersStay
<1>1. ASSUME NEW p \in Slots, NEW j \in Jtis, LoginCreate(p, j) PROVE OwnersStay
  BY <1>1 DEF LoginCreate, OwnersStay, TypeOK
<1>2. ASSUME NEW p \in Slots, RefreshRotate(p) PROVE OwnersStay
  <2>1. \A j \in Jtis : row[j] \in Row
    BY DEF TypeOK
  <2> QED BY <1>2, <2>1 DEF RefreshRotate, Rotated, OwnersStay, TypeOK, Row
<1>3. ASSUME NEW p \in Slots, OthersRevoke(p) PROVE OwnersStay
  BY <1>3, RevokeRowsKeepsUsers DEF OthersRevoke, OwnersStay
<1>4. ASSUME NEW p \in Slots, Perform(p) PROVE OwnersStay
  <2>1. \E S : row' = RevokeRows(S)
    BY <1>4 DEF Perform, PerformRevokeRow, PerformRevokeRows, PerformSetPassword,
       PerformDropToken, PerformBlacklist, PerformCache, PerformReadList,
       PerformWriteList, stores
  <2> QED BY <2>1, RevokeRowsKeepsUsers DEF OwnersStay
<1>5. CASE Tick
  <2>1. \A j \in Jtis : row[j] \in Row
    BY DEF TypeOK
  <2> QED BY <1>5, <2>1 DEF Tick, OwnersStay, Row
<1>6. ASSUME NEW p \in Slots, Arrive(p) PROVE row' = row
  BY <1>6 DEF Arrive, LoginStart, RefreshMatch, RefreshMismatch, Logout, RevokeSession,
     LogoutOthers, ResetStart, stores
<1>7. ASSUME NEW p \in Slots, Serve(p) PROVE OwnersStay
  BY <1>1, <1>2, <1>3, <1>4, <1>7 DEF Serve, LoginLimit, Sign, RevokeAll, ClearCookies,
     ResetApply, Finish, stores
<1>8. CASE \/ \E p \in Slots : Reject(p)
           \/ \E u \in Users : IssueResetToken(u)
           \/ Crash
           \/ UNCHANGED vars
  BY <1>8 DEF Reject, IssueResetToken, Crash, vars, stores
<1> QED BY <1>5, <1>6, <1>7, <1>8 DEF Next

(* Access tokens are signed for opened sessions only. *)
LEMMA TokensStep == TypeOK /\ RequestsOwnSessions /\ [Next]_vars => TokensOfOpened'
<1> SUFFICES ASSUME TypeOK, RequestsOwnSessions, [Next]_vars PROVE TokensOfOpened'
  OBVIOUS
<1>1. Opened \subseteq Opened'
  BY OwnersStayStep DEF OwnersStay, Opened
<1>2. TokensOfOpened
  BY DEF RequestsOwnSessions
<1>3. ASSUME NEW p \in Slots, Sign(p) PROVE TokensOfOpened'
  <2>1. req[p].jti \in Opened
    BY <1>3, NoneAssumption DEF Sign, At, RequestsOwnSessions, ActsForOneUser, Idle, TypeOK, Request, Opened
  <2>2. \A j \in Jtis : Unexpired(j)' => Unexpired(j) \/ j = req[p].jti
    BY <1>3 DEF Sign, Unexpired, TypeOK
  <2> QED BY <1>1, <1>2, <2>1, <2>2 DEF TokensOfOpened
<1>4. CASE Tick
  <2>1. \A j \in Jtis : Unexpired(j)' => Unexpired(j)
    BY <1>4, TtlAssumption DEF Tick, Dec, Unexpired, TypeOK
  <2> QED BY <1>1, <1>2, <2>1 DEF TokensOfOpened
<1>5. CASE UNCHANGED <<access, late>>
  BY <1>1, <1>2, <1>5 DEF TokensOfOpened, Unexpired
<1>6. ASSUME NEW p \in Slots, Arrive(p) PROVE UNCHANGED <<access, late>>
  BY <1>6 DEF Arrive, LoginStart, RefreshMatch, RefreshMismatch, Logout, RevokeSession,
     LogoutOthers, ResetStart, tokens
<1>7. ASSUME NEW p \in Slots, Perform(p) PROVE UNCHANGED <<access, late>>
  BY <1>7 DEF Perform
<1>8. ASSUME NEW p \in Slots, Serve(p) PROVE TokensOfOpened'
  BY <1>3, <1>5, <1>7, <1>8 DEF Serve, LoginLimit, LoginCreate, RefreshRotate,
     RevokeAll, ClearCookies, OthersRevoke, ResetApply, Finish, tokens
<1>9. CASE \/ \E p \in Slots : Reject(p)
           \/ \E u \in Users : IssueResetToken(u)
           \/ Crash
           \/ UNCHANGED vars
  BY <1>5, <1>9 DEF Reject, IssueResetToken, Crash, vars, tokens
<1> QED BY <1>4, <1>5, <1>6, <1>8, <1>9 DEF Next

(* A new request acts for the owner of the session it came with. *)
LEMMA StartActs ==
  ASSUME TypeOK, OwnersStay, NEW r \in Request, r.user \in Users,
         r.jti # None => row[r.jti].user = r.user,
         r.pc \in {"rotate", "sign", "others"} => r.jti # None,
         \A c \in r.todo : c.op = "revokeRow" => c.on \subseteq Owned(r.user),
         r.by = "others" => r.pc = "others" /\ r.todo = {}
  PROVE  ActsThen(r)
<1>1. ActsForOneUser(r)
  BY DEF ActsForOneUser
<1> QED BY <1>1, ActsStays

(* A request that moves on with commands of its own user still acts for it. *)
LEMMA GotoActs ==
  ASSUME TypeOK, RequestsOwnSessions, OwnersStay, NEW p \in Slots, req[p] # Idle,
         NEW pc \in PCs, NEW todo \in SUBSET Command, Goto(p, pc, todo),
         pc \in {"rotate", "sign", "others"} => req[p].jti # None,
         \A c \in todo : c.op = "revokeRow" => c.on \subseteq Owned(req[p].user),
         req[p].by = "others" => /\ pc \in {"others", "done", "gone"}
                                /\ \A c \in todo : ~RevokesRows(c)
  PROVE  \A q \in Slots : req'[q] = Idle \/ ActsForOneUser(req[q])'
<1> DEFINE r == [req[p] EXCEPT !.pc = pc, !.todo = todo]
<1>1. req[p] \in Request /\ ActsForOneUser(req[p])
  BY DEF TypeOK, RequestsOwnSessions
<1>2. r \in Request
  BY <1>1 DEF Request
<1>3. ActsForOneUser(r)
  BY <1>1 DEF ActsForOneUser, Request
<1>4. req' = [req EXCEPT ![p] = r]
  BY DEF Goto, TypeOK
<1> HIDE DEF r
<1>5. ActsThen(r)
  BY <1>2, <1>3, ActsStays
<1> QED BY <1>4, <1>5, OthersStay

(* Every step keeps RequestsOwnSessions. *)
LEMMA OwnershipStep == TypeOK /\ RequestsOwnSessions /\ [Next]_vars => RequestsOwnSessions'
<1> SUFFICES ASSUME TypeOK, RequestsOwnSessions, [Next]_vars
             PROVE  \A q \in Slots : req'[q] = Idle \/ ActsForOneUser(req[q])'
  BY TokensStep DEF RequestsOwnSessions
<1>0. OwnersStay
  BY OwnersStayStep
<1>a. \A j \in Jtis : row[j] \in Row
  BY DEF TypeOK
<1>b. \A j \in Jtis : Accepted(j) => row[j].user \in Users
  BY <1>a DEF Accepted, RequestsOwnSessions, TokensOfOpened, Opened, Row
<1>1. ASSUME NEW p \in Slots, NEW b \in Browsers, NEW u \in Users,
             NEW by \in {"password", "google"}, LoginStart(p, b, u, by)
      PROVE  \A q \in Slots : req'[q] = Idle \/ ActsForOneUser(req[q])'
  <2> DEFINE r == [Idle EXCEPT
     !.pc = "limit", !.by = by, !.browser = b, !.user = u,
     !.pwd = IF by = "password" THEN password[u] ELSE 0]
  <2>1. r \in Request
    BY DEF Request, Idle, PCs, AllOps, TypeOK
  <2>2. ActsThen(r)
    BY <1>0, <2>1, StartActs DEF Idle
  <2>3. QED BY <1>1, <1>0, <2>2, OthersStay DEF LoginStart, Start
<1>2. ASSUME NEW p \in Slots, NEW b \in Browsers, RefreshMatch(p, b)
      PROVE  \A q \in Slots : req'[q] = Idle \/ ActsForOneUser(req[q])'
  <2> DEFINE j == jar[b].jti
             r == [Idle EXCEPT
                    !.pc = "rotate", !.by = "refresh", !.browser = b,
                    !.user = row[j].user, !.jti = j, !.tok = minted[j] + 1,
                    !.ver = NextVersion(row[j].ver)]
  <2>1. j \in Jtis
    BY <1>2 DEF RefreshMatch, Refreshable, Jar, TypeOK
  <2>2. row[j].user \in Users /\ row[j].ver + 1 \in Nat /\ minted[j] + 1 \in Nat
    BY <1>2, <1>a, <2>1 DEF Row, RefreshMatch, Refreshable, TypeOK
  <2>3. r \in Request
    BY <2>1, <2>2 DEF Request, Idle, PCs, AllOps, NextVersion
  <2>4. ActsThen(r)
    BY <1>0, <2>1, <2>2, <2>3, NoneAssumption, StartActs DEF Idle
  <2>5. QED BY <1>2, <1>0, <2>4, OthersStay DEF RefreshMatch, Start
<1>3. ASSUME NEW p \in Slots, NEW b \in Browsers, RefreshMismatch(p, b)
      PROVE  \A q \in Slots : req'[q] = Idle \/ ActsForOneUser(req[q])'
  <2> DEFINE j == jar[b].jti
             r == [Idle EXCEPT !.pc = "mismatch", !.by = "refresh", !.browser = b,
                               !.user = row[j].user, !.jti = j]
  <2>1. j \in Jtis
    BY <1>3 DEF RefreshMismatch, Refreshable, Jar, TypeOK
  <2>2. row[j].user \in Users
    BY <1>3, <1>a, <2>1 DEF Row, RefreshMismatch, Refreshable
  <2>3. r \in Request
    BY <2>1, <2>2 DEF Request, Idle, PCs, AllOps
  <2>4. ActsThen(r)
    BY <1>0, <2>1, <2>2, <2>3, NoneAssumption, StartActs DEF Idle
  <2>5. QED BY <1>3, <1>0, <2>4, OthersStay DEF RefreshMismatch, Start
<1>4. ASSUME NEW p \in Slots, NEW b \in Browsers, Logout(p, b)
      PROVE  \A q \in Slots : req'[q] = Idle \/ ActsForOneUser(req[q])'
  <2> DEFINE j == jar[b].access
             r == [Idle EXCEPT !.pc = "clear", !.by = "logout", !.browser = b,
                               !.user = row[j].user, !.todo = RevocationOf(j)]
  <2>1. j \in Jtis
    BY <1>4 DEF Logout, Jar, TypeOK
  <2>2. row[j].user \in Users
    BY <1>4, <1>b, <2>1 DEF Logout
  <2>3. r \in Request
    BY <2>1, <2>2, RevocationType DEF Request, Idle, PCs, AllOps
  <2>4. \A c \in r.todo : c.op = "revokeRow" => c.on \subseteq Owned(row[j].user)
    BY <2>1 DEF Idle, RevocationOf, RevokeInRedis, Cmd, Owned
  <2>5. ActsThen(r)
    BY <1>0, <2>1, <2>2, <2>3, <2>4, NoneAssumption, StartActs DEF Idle
  <2>6. QED BY <1>4, <1>0, <2>5, OthersStay DEF Logout, Start
<1>5. ASSUME NEW p \in Slots, NEW j \in Jtis, NEW target \in Jtis,
             RevokeSession(p, j, target)
      PROVE  \A q \in Slots : req'[q] = Idle \/ ActsForOneUser(req[q])'
  <2> DEFINE r == [Idle EXCEPT !.pc = "done", !.by = "revoke",
                               !.user = row[j].user, !.todo = RevocationOf(target)]
  <2>1. row[j].user \in Users
    BY <1>5, <1>b DEF RevokeSession
  <2>2. r \in Request
    BY <2>1, RevocationType DEF Request, Idle, PCs, AllOps
  <2>3. \A c \in r.todo : c.op = "revokeRow" => c.on \subseteq Owned(row[j].user)
    BY <1>5 DEF RevokeSession, RevocableTargets, Idle, RevocationOf, RevokeInRedis, Cmd, Owned
  <2>4. ActsThen(r)
    BY <1>0, <2>1, <2>2, <2>3, NoneAssumption, StartActs DEF Idle
  <2>5. QED BY <1>5, <1>0, <2>4, OthersStay DEF RevokeSession, Start
<1>6. ASSUME NEW p \in Slots, NEW j \in Jtis, LogoutOthers(p, j)
      PROVE  \A q \in Slots : req'[q] = Idle \/ ActsForOneUser(req[q])'
  <2> DEFINE r == [Idle EXCEPT !.pc = "others", !.by = "others",
                               !.user = row[j].user, !.jti = j,
                               !.targets = Unrevoked(row[j].user) \ {j}]
  <2>1. row[j].user \in Users
    BY <1>6, <1>b DEF LogoutOthers
  <2>2. r \in Request
    BY <2>1, UnrevokedType DEF Request, Idle, PCs, AllOps
  <2>3. ActsThen(r)
    BY <1>0, <2>1, <2>2, NoneAssumption, StartActs DEF Idle
  <2>4. QED BY <1>6, <1>0, <2>3, OthersStay DEF LogoutOthers, Start
<1>7. ASSUME NEW p \in Slots, NEW u \in Users, ResetStart(p, u)
      PROVE  \A q \in Slots : req'[q] = Idle \/ ActsForOneUser(req[q])'
  <2> DEFINE r == [Idle EXCEPT !.pc = "reset", !.by = "reset", !.user = u]
  <2>1. r \in Request
    BY DEF Request, Idle, PCs, AllOps
  <2>2. ActsThen(r)
    BY <1>0, <2>1, StartActs DEF Idle
  <2>3. QED BY <1>7, <1>0, <2>2, OthersStay DEF ResetStart, Start
<1>c. ASSUME NEW p \in Slots, NEW pc \in PCs, At(p, pc), pc # "idle"
      PROVE  req[p] # Idle /\ req[p] \in Request /\ ActsForOneUser(req[p])
  BY <1>c DEF At, Idle, RequestsOwnSessions, TypeOK
<1>8. ASSUME NEW p \in Slots, LoginLimit(p)
      PROVE  \A q \in Slots : req'[q] = Idle \/ ActsForOneUser(req[q])'
  <2> DEFINE u == req[p].user
             todo == IF LimitReached(u) THEN Eviction(Oldest(u)) ELSE {}
  <2>1. Oldest(u) \in SUBSET Jtis /\ Oldest(u) \subseteq Owned(u)
    BY DEF Oldest, Active, Unrevoked, Owned
  <2>2. Eviction(Oldest(u)) \in SUBSET Command
    BY <2>1, CmdType, RevokeInRedisType DEF Eviction, CommandNames
  <2>3. \A c \in Eviction(Oldest(u)) : c.op = "revokeRow" => c.on \subseteq Owned(u)
    BY <2>1 DEF Eviction, RevokeInRedis, Cmd
  <2>4. todo \in SUBSET Command /\ \A c \in todo : c.op = "revokeRow" => c.on \subseteq Owned(u)
    BY <2>2, <2>3
  <2>5. Goto(p, "create", todo) /\ At(p, "limit")
    BY <1>8 DEF LoginLimit
  <2> HIDE DEF todo
  <2>6. req[p] # Idle /\ req[p].by # "others"
    BY <2>5, <1>c DEF PCs, At, ActsForOneUser
  <2>7. QED BY <1>0, <2>4, <2>5, <2>6, GotoActs DEF PCs
<1>9. ASSUME NEW p \in Slots, NEW j \in Jtis, LoginCreate(p, j)
      PROVE  \A q \in Slots : req'[q] = Idle \/ ActsForOneUser(req[q])'
  <2> DEFINE r == [req[p] EXCEPT !.pc = "sign", !.jti = j, !.tok = 1,
                                 !.todo = {Cmd("cache", {j}), Cmd("list", {j})}]
  <2>1. At(p, "create") /\ req' = [req EXCEPT ![p] = r]
    BY <1>9 DEF LoginCreate
  <2>2. req[p] \in Request /\ ActsForOneUser(req[p]) /\ req[p].by # "others"
    BY <2>1, <1>c DEF PCs, At, ActsForOneUser
  <2>3. row'[j].user = req[p].user
    BY <1>9 DEF LoginCreate, TypeOK
  <2>4. /\ r.user = req[p].user /\ r.jti = j /\ r.by = req[p].by
        /\ r.todo = {Cmd("cache", {j}), Cmd("list", {j})}
    BY <2>2 DEF Request
  <2>5. \A c \in r.todo : c.op # "revokeRow"
    BY <2>4 DEF Cmd
  <2> HIDE DEF r
  <2>6. ActsThen(r)
    BY <2>2, <2>3, <2>4, <2>5, NoneAssumption DEF ActsForOneUser, ActsThen
  <2>7. QED BY <1>0, <2>1, <2>6, OthersStay
<1>10. ASSUME NEW p \in Slots, req' = [req EXCEPT ![p] = Idle]
       PROVE  \A q \in Slots : req'[q] = Idle \/ ActsForOneUser(req[q])'
  BY <1>0, <1>10, OthersStay
<1>11. ASSUME NEW p \in Slots, RefreshRotate(p)
       PROVE  \A q \in Slots : req'[q] = Idle \/ ActsForOneUser(req[q])'
  <2> DEFINE todo == {Cmd("cache", {req[p].jti})}
  <2>1. /\ At(p, "rotate") /\ Goto(p, "sign", todo)
        /\ req[p] # Idle /\ req[p].by # "others" /\ req[p].jti \in Jtis
    BY <1>11, <1>c DEF RefreshRotate, PCs, At, ActsForOneUser, Request
  <2>2. todo \in SUBSET Command
    BY <2>1, CmdType DEF CommandNames
  <2>3. \A c \in todo : c.op # "revokeRow"
    BY DEF Cmd
  <2> HIDE DEF todo
  <2>4. QED BY <1>0, <2>1, <2>2, <2>3, NoneAssumption, GotoActs DEF PCs
<1>12. ASSUME NEW p \in Slots, RevokeAll(p)
       PROVE  \A q \in Slots : req'[q] = Idle \/ ActsForOneUser(req[q])'
  <2> DEFINE todo == {Cmd("revokeRows", {})} \cup RevokeInRedis(Unrevoked(req[p].user))
  <2>1. /\ At(p, "mismatch") /\ Goto(p, "done", todo)
        /\ req[p] # Idle /\ req[p].by # "others"
    BY <1>12, <1>c DEF RevokeAll, PCs, At, ActsForOneUser
  <2>2. todo \in SUBSET Command
    BY CmdType, RevokeInRedisType, UnrevokedType DEF CommandNames
  <2>3. \A c \in todo : c.op # "revokeRow"
    BY DEF Cmd, RevokeInRedis
  <2> HIDE DEF todo
  <2>4. QED BY <1>0, <2>1, <2>2, <2>3, GotoActs DEF PCs
<1>13. ASSUME NEW p \in Slots, OthersRevoke(p)
       PROVE  \A q \in Slots : req'[q] = Idle \/ ActsForOneUser(req[q])'
  <2> DEFINE S == req[p].targets
             todo == {Cmd("unlist", S)} \cup RevokeInRedis(S)
  <2>1. At(p, "others") /\ Goto(p, "done", todo) /\ req[p] # Idle /\ S \in SUBSET Jtis
    BY <1>13, <1>c DEF OthersRevoke, PCs, Request
  <2>2. todo \in SUBSET Command
    BY <2>1, CmdType, RevokeInRedisType DEF CommandNames
  <2>3. \A c \in todo : ~RevokesRows(c)
    BY DEF Cmd, RevokeInRedis, RevokesRows
  <2> HIDE DEF todo
  <2>4. QED BY <1>0, <2>1, <2>2, <2>3, GotoActs DEF PCs, RevokesRows
<1>14. ASSUME NEW p \in Slots, ResetApply(p)
       PROVE  \A q \in Slots : req'[q] = Idle \/ ActsForOneUser(req[q])'
  <2> DEFINE todo == ResetCommands(req[p].user)
  <2>1. /\ At(p, "reset") /\ Goto(p, "done", todo)
        /\ req[p] # Idle /\ req[p].by # "others"
    BY <1>14, <1>c DEF ResetApply, PCs, At, ActsForOneUser
  <2>2. todo \in SUBSET Command
    BY CmdType, RevokeInRedisType, UnrevokedType DEF ResetCommands, CommandNames
  <2>3. \A c \in todo : c.op # "revokeRow"
    BY DEF ResetCommands, Cmd, RevokeInRedis
  <2> HIDE DEF todo
  <2>4. QED BY <1>0, <2>1, <2>2, <2>3, GotoActs DEF PCs
<1>d. ASSUME NEW p \in Slots, NEW pc \in {req[p].pc, "gone"}, NEW todo \in SUBSET Command,
             \A c \in todo : c \in req[p].todo \/ ~RevokesRows(c),
             req[p].todo # {}, Goto(p, pc, todo)
      PROVE  \A q \in Slots : req'[q] = Idle \/ ActsForOneUser(req[q])'
  <2>1. req[p] # Idle
    BY <1>d DEF Idle
  <2>2. req[p] \in Request /\ ActsForOneUser(req[p])
    BY <2>1 DEF RequestsOwnSessions, TypeOK
  <2>3. pc \in PCs
    BY <2>2 DEF Request, PCs
  <2>4. \A c \in todo : c.op = "revokeRow" => c.on \subseteq Owned(req[p].user)
    BY <1>d, <2>2 DEF ActsForOneUser, RevokesRows
  <2>5. req[p].by = "others" => /\ pc \in {"others", "done", "gone"}
                                /\ \A c \in todo : ~RevokesRows(c)
    BY <1>d, <2>2 DEF ActsForOneUser
  <2>6. pc \in {"rotate", "sign", "others"} => req[p].jti # None
    BY <2>2 DEF ActsForOneUser
  <2>7. QED BY <1>0, <1>d, <2>1, <2>3, <2>4, <2>5, <2>6, GotoActs
<1>15. ASSUME NEW p \in Slots, Perform(p)
       PROVE  \A q \in Slots : req'[q] = Idle \/ ActsForOneUser(req[q])'
  <2>1. PICK c \in req[p].todo : Performed(p, c) \/ PerformReadList(p, c)
    BY <1>15 DEF Perform, PerformRevokeRow, PerformRevokeRows, PerformSetPassword,
       PerformDropToken, PerformBlacklist, PerformCache, PerformWriteList
  <2>2. req[p] # Idle /\ req[p] \in Request /\ ActsForOneUser(req[p]) /\ c \in Command
    BY <2>1 DEF Idle, RequestsOwnSessions, TypeOK, Request
  <2>3. CASE Performed(p, c)
    <3> DEFINE todo == req[p].todo \ {c}
    <3>1. todo \in SUBSET Command /\ \A d \in todo : d \in req[p].todo
      BY <2>2 DEF Request
    <3>2. Goto(p, req[p].pc, todo)
      BY <2>3 DEF Performed
    <3> HIDE DEF todo
    <3> QED BY <2>1, <3>1, <3>2, <1>d
  <2>4. CASE PerformReadList(p, c)
    <3> DEFINE new == WritesAfter(c, devices[req[p].user])
    <3>1. devices[req[p].user] \in SUBSET SUBSET Jtis
      BY <2>2 DEF ActsForOneUser, TypeOK
    <3>2. new \in SUBSET Command
      BY <2>2, <3>1, WritesAfterType
    <3>3. \A d \in new : ~RevokesRows(d)
      BY DEF WritesAfter, WriteList, RevokesRows
    <3> DEFINE todo == (req[p].todo \ {c}) \cup new
    <3>4. Goto(p, req[p].pc, todo)
      BY <2>4 DEF PerformReadList
    <3> HIDE DEF new
    <3>5. todo \in SUBSET Command /\ \A d \in todo : d \in req[p].todo \/ ~RevokesRows(d)
      BY <2>2, <3>2, <3>3 DEF Request
    <3> HIDE DEF todo
    <3>6. QED BY <2>1, <3>4, <3>5, <1>d
  <2> QED BY <2>1, <2>3, <2>4
<1>16. ASSUME NEW p \in Slots, Reject(p)
       PROVE  \A q \in Slots : req'[q] = Idle \/ ActsForOneUser(req[q])'
  <2>1. CASE \E pc \in {"limit", "create", "rotate", "mismatch", "others", "reset"} :
               At(p, pc) /\ Goto(p, "gone", {})
    <3>1. req[p] # Idle /\ Goto(p, "gone", {})
      BY <2>1, <1>c DEF PCs
    <3> DEFINE todo == {}
    <3>2. todo \in SUBSET Command /\ (\A c \in todo : FALSE) /\ Goto(p, "gone", todo)
      BY <3>1
    <3> HIDE DEF todo
    <3>3. "gone" \in PCs
      BY DEF PCs
    <3>4. QED BY <1>0, <3>1, <3>2, <3>3, GotoActs
  <2>2. CASE \E failed \in (SUBSET req[p].todo) \ {{}} :
               Goto(p, "gone", req[p].todo \ failed)
    <3>1. PICK failed \in SUBSET req[p].todo :
               failed # {} /\ Goto(p, "gone", req[p].todo \ failed)
      BY <2>2
    <3> DEFINE todo == req[p].todo \ failed
    <3>2. req[p].todo # {} /\ todo \in SUBSET Command /\ \A d \in todo : d \in req[p].todo
      BY <3>1 DEF TypeOK, Request
    <3>3. Goto(p, "gone", todo)
      BY <3>1
    <3> HIDE DEF todo
    <3>4. QED BY <3>2, <3>3, <1>d
  <2> QED BY <1>16, <2>1, <2>2 DEF Reject
<1>17. CASE Crash
  BY <1>17 DEF Crash
<1>18. CASE req' = req
  <2> SUFFICES ASSUME NEW q \in Slots, req'[q] # Idle PROVE ActsForOneUser(req[q])'
    OBVIOUS
  <2>1. req'[q] = req[q] /\ req[q] \in Request /\ ActsForOneUser(req[q])
    BY <1>18 DEF RequestsOwnSessions, TypeOK
  <2>2. ActsThen(req'[q])
    BY <1>0, <2>1, ActsStays
  <2> QED BY <2>2 DEF ActsThen, ActsForOneUser, Owned
<1> QED
  BY <1>1, <1>2, <1>3, <1>4, <1>5, <1>6, <1>7, <1>8, <1>9, <1>10, <1>11, <1>12,
     <1>13, <1>14, <1>15, <1>16, <1>17, <1>18
     DEF Next, Arrive, Serve, Sign, ClearCookies, Finish, IssueResetToken, Tick, vars

-----------------------------------------------------------------------------
(* Type correctness and ownership as invariants of the specification.       *)

(* The invariants hold initially ... *)
LEMMA InitialState == Init => TypeOK /\ RequestsOwnSessions
<1> SUFFICES ASSUME Init PROVE TypeOK /\ RequestsOwnSessions
  OBVIOUS
<1>1. NoRow \in Row /\ EmptyJar \in Jar
  BY TtlAssumption DEF NoRow, Row, EmptyJar, Jar, NoToken, RefreshToken
<1>2. TypeOK
  BY <1>1, IdleType, TtlAssumption DEF Init, TypeOK
<1>3. RequestsOwnSessions
  BY DEF Init, RequestsOwnSessions, TokensOfOpened, Unexpired
<1> QED BY <1>2, <1>3

(* ... and always. *)
LEMMA TypeAndOwnership == Spec => [](TypeOK /\ RequestsOwnSessions)
<1>1. Init => TypeOK /\ RequestsOwnSessions
  BY InitialState
<1>2. TypeOK /\ RequestsOwnSessions /\ [Next]_vars => (TypeOK /\ RequestsOwnSessions)'
  BY TypeStep, OwnershipStep
<1> QED BY <1>1, <1>2, PTL DEF Spec

(* The stores, tokens, cookies and requests keep their shapes, and no      *)
(* lifetime exceeds its TTL, for any number of users, browsers, sessions   *)
(* and requests in flight.                                                 *)
THEOREM TypeCorrect == Spec => []TypeOK
BY TypeAndOwnership, PTL

(* Every request acts on sessions of the user it was started for, although *)
(* the updates name a session by id or jti only.                           *)
THEOREM OwnershipCorrect == Spec => []RequestsOwnSessions
BY TypeAndOwnership, PTL

-----------------------------------------------------------------------------
(* The blacklist. *)

(* BlacklistOutlivesTokens is not inductive: the entry must also never run *)
(* out first.                                                              *)
BlacklistCovers == \A j \in dead : access[j] <= blacklist[j]

(* Every step keeps BlacklistCovers: only a session not yet blacklisted gets a
   token into `access', and entry and token age together. *)
LEMMA BlacklistStep ==
  TypeOK /\ TypeOK' /\ BlacklistCovers /\ [Next]_vars => BlacklistCovers'
<1> SUFFICES ASSUME TypeOK, TypeOK', BlacklistCovers, [Next]_vars PROVE BlacklistCovers'
  OBVIOUS
<1>1. ASSUME NEW p \in Slots, Sign(p) PROVE BlacklistCovers'
  BY <1>1 DEF Sign, BlacklistCovers, TypeOK, stores
<1>2. ASSUME NEW p \in Slots, NEW c, PerformBlacklist(p, c), access' = access
      PROVE  BlacklistCovers'
  <2> SUFFICES ASSUME NEW j \in dead' PROVE access'[j] <= blacklist'[j]
    BY DEF BlacklistCovers
  <2>1. CASE j \in c.on /\ j \in Jtis
    BY <1>2, <2>1, TtlAssumption DEF PerformBlacklist, RevokedKeyTtl, TypeOK
  <2>2. CASE j \notin c.on
    BY <1>2, <2>2 DEF PerformBlacklist, BlacklistCovers, TypeOK
  <2>3. j \in Jtis
    BY DEF TypeOK
  <2> QED BY <2>1, <2>2, <2>3
<1>3. CASE Tick
  <2> SUFFICES ASSUME NEW j \in dead PROVE access'[j] <= blacklist'[j]
    BY <1>3 DEF BlacklistCovers, Tick
  <2>1. /\ j \in Jtis /\ access[j] \in Nat /\ blacklist[j] \in Nat
        /\ access[j] <= blacklist[j]
    BY TtlAssumption DEF TypeOK, BlacklistCovers
  <2>2. access'[j] = Dec(access[j]) /\ blacklist'[j] = Dec(blacklist[j])
    BY <1>3, <2>1 DEF Tick
  <2>3. \A m, n \in Nat : m <= n => Dec(m) <= Dec(n)
    BY DEF Dec
  <2> QED BY <2>1, <2>2, <2>3
<1>4. CASE UNCHANGED <<access, blacklist, dead>>
  BY <1>4 DEF BlacklistCovers
<1>5. ASSUME NEW p \in Slots, Perform(p) PROVE BlacklistCovers'
  BY <1>2, <1>4, <1>5 DEF Perform, PerformRevokeRow, PerformRevokeRows,
     PerformSetPassword, PerformDropToken, PerformCache, PerformReadList,
     PerformWriteList, stores
<1>6. ASSUME NEW p \in Slots, Arrive(p) PROVE BlacklistCovers'
  BY <1>4, <1>6 DEF Arrive, LoginStart, RefreshMatch, RefreshMismatch, Logout,
     RevokeSession, LogoutOthers, ResetStart, stores, tokens
<1>7. ASSUME NEW p \in Slots, Serve(p) PROVE BlacklistCovers'
  BY <1>1, <1>4, <1>5, <1>7 DEF Serve, LoginLimit, LoginCreate, RefreshRotate,
     OthersRevoke, RevokeAll, ClearCookies, ResetApply, Finish, stores, tokens
<1> QED
  BY <1>3, <1>4, <1>6, <1>7 DEF Next, Reject, IssueResetToken, Crash, vars,
     stores, tokens

(* The 15-minute entry outlives every access token signed before it.       *)
THEOREM BlacklistCorrect == Spec => []BlacklistOutlivesTokens
<1>1. Init => BlacklistCovers
  BY DEF Init, BlacklistCovers
<1>2. TypeOK /\ BlacklistCovers => BlacklistOutlivesTokens
  BY TtlAssumption DEF TypeOK, BlacklistCovers, BlacklistOutlivesTokens
<1> QED BY <1>1, <1>2, TypeCorrect, BlacklistStep, PTL DEF Spec

-----------------------------------------------------------------------------
(* The rows, as SessionLifecycle sees them. *)

SameOwnersAndRevoked ==
  \A j \in Jtis : row'[j].user = row[j].user /\ row'[j].revoked = row[j].revoked

OpensFor(u, j) ==
  /\ row[j].user = None
  /\ \A k \in Jtis : row'[k].user = IF k = j THEN u ELSE row[k].user
  /\ \A k \in Jtis : row'[k].revoked = (k # j /\ row[k].revoked)

RevokesSessions(p, S) ==
  /\ S \subseteq Owned(req[p].user)
  /\ \A k \in Jtis : row'[k].user = row[k].user
  /\ \A k \in Jtis : row'[k].revoked = (row[k].revoked \/ k \in S)
  /\ req'[p] # req[p]
  /\ req[p].by = "others" => req[p].jti \notin S

(* What a step can do to owners and revocations *)
RowStep ==
  \/ SameOwnersAndRevoked
  \/ \E u \in Users, j \in Jtis : OpensFor(u, j)
  \/ \E p \in Slots, S \in SUBSET Jtis :
       req[p].user \in Users /\ RevokesSessions(p, S)

(* RevokeRows(S) revokes exactly S. *)
LEMMA RevokedRows ==
  ASSUME TypeOK, NEW S, row' = RevokeRows(S)
  PROVE  /\ \A k \in Jtis : row'[k].user = row[k].user
         /\ \A k \in Jtis : row'[k].revoked = (row[k].revoked \/ k \in S)
<1> SUFFICES ASSUME NEW k \in Jtis
             PROVE  /\ row'[k].user = row[k].user
                    /\ row'[k].revoked = (row[k].revoked \/ k \in S)
  OBVIOUS
<1>1. row[k] \in Row
  BY DEF TypeOK
<1> QED BY <1>1 DEF RevokeRows, Row

(* Every step is one of the three kinds RowStep names. *)
LEMMA RowStepHolds == TypeOK /\ RequestsOwnSessions /\ [Next]_vars => RowStep
<1> SUFFICES ASSUME TypeOK, RequestsOwnSessions, [Next]_vars PROVE RowStep
  OBVIOUS
<1>a. \A j \in Jtis : row[j] \in Row
  BY DEF TypeOK
<1>1. ASSUME NEW p \in Slots, NEW j \in Jtis, LoginCreate(p, j) PROVE RowStep
  <2>1. req[p].user \in Users
    BY <1>1 DEF LoginCreate, At, RequestsOwnSessions, ActsForOneUser, Idle
  <2>2. OpensFor(req[p].user, j)
    BY <1>1, <1>a DEF LoginCreate, OpensFor, TypeOK, Row
  <2> QED BY <2>1, <2>2 DEF RowStep
<1>2. ASSUME NEW p \in Slots, RefreshRotate(p) PROVE RowStep
  <2>1. SameOwnersAndRevoked
    BY <1>2, <1>a DEF RefreshRotate, Rotated, SameOwnersAndRevoked, TypeOK, Row
  <2> QED BY <2>1 DEF RowStep
<1>3. ASSUME NEW p \in Slots, OthersRevoke(p) PROVE RowStep
  <2> DEFINE S == OthersOf(req[p])
  <2>1. At(p, "others") /\ row' = RevokeRows(S) /\ req'[p].pc = "done" /\ req[p].pc = "others"
    BY <1>3 DEF OthersRevoke, At, Goto, TypeOK, Request
  <2>2. S \subseteq Owned(req[p].user) /\ req[p].jti \notin S /\ S \in SUBSET Jtis
    BY DEF OthersOf, Unrevoked, Owned
  <2>3. req[p].user \in Users
    BY <2>1 DEF RequestsOwnSessions, ActsForOneUser, Idle
  <2> HIDE DEF S
  <2>4. RevokesSessions(p, S)
    BY <2>1, <2>2, RevokedRows DEF RevokesSessions
  <2> QED BY <2>2, <2>3, <2>4 DEF RowStep
<1>4. ASSUME NEW p \in Slots, NEW c \in req[p].todo, NEW S \in SUBSET Jtis,
             row' = RevokeRows(S), Performed(p, c), RevokesRows(c),
             S \subseteq Owned(req[p].user)
      PROVE  RowStep
  <2>1. req[p].user \in Users /\ req[p].by # "others"
    BY <1>4 DEF RequestsOwnSessions, ActsForOneUser, Idle
  <2>2. req'[p].todo = req[p].todo \ {c}
    BY <1>4 DEF Performed, Goto, TypeOK, Request
  <2>3. RevokesSessions(p, S)
    BY <1>4, <2>1, <2>2, RevokedRows DEF RevokesSessions
  <2> QED BY <1>4, <2>1, <2>3 DEF RowStep
<1>5. ASSUME NEW p \in Slots, NEW c \in req[p].todo, PerformRevokeRow(p, c) PROVE RowStep
  <2>1. c.on \subseteq Owned(req[p].user) /\ RevokesRows(c)
    BY <1>5 DEF PerformRevokeRow, RequestsOwnSessions, ActsForOneUser, Idle, RevokesRows
  <2>2. c.on \in SUBSET Jtis
    BY <2>1 DEF Owned
  <2> QED BY <1>4, <1>5, <2>1, <2>2 DEF PerformRevokeRow
<1>6. ASSUME NEW p \in Slots, NEW c \in req[p].todo, PerformRevokeRows(p, c) PROVE RowStep
  <2> DEFINE S == Unrevoked(req[p].user)
  <2>1. S \subseteq Owned(req[p].user) /\ S \in SUBSET Jtis
    BY DEF Unrevoked, Owned
  <2>2. row' = RevokeRows(S) /\ Performed(p, c) /\ RevokesRows(c)
    BY <1>6 DEF PerformRevokeRows, RevokesRows
  <2> HIDE DEF S
  <2> QED BY <1>4, <2>1, <2>2
<1>7. CASE Tick
  <2>1. SameOwnersAndRevoked
    BY <1>7, <1>a DEF Tick, SameOwnersAndRevoked, Row
  <2> QED BY <2>1 DEF RowStep
<1>8. CASE row' = row
  BY <1>8 DEF RowStep, SameOwnersAndRevoked
<1>9. ASSUME NEW p \in Slots, Perform(p) PROVE RowStep
  BY <1>5, <1>6, <1>8, <1>9 DEF Perform, PerformSetPassword, PerformDropToken,
     PerformBlacklist, PerformCache, PerformReadList, PerformWriteList, stores
<1>10. ASSUME NEW p \in Slots, Arrive(p) PROVE RowStep
  BY <1>8, <1>10 DEF Arrive, LoginStart, RefreshMatch, RefreshMismatch, Logout,
     RevokeSession, LogoutOthers, ResetStart, stores
<1>11. ASSUME NEW p \in Slots, Serve(p) PROVE RowStep
  BY <1>1, <1>2, <1>3, <1>8, <1>9, <1>11 DEF Serve, LoginLimit, Sign, RevokeAll,
     ClearCookies, ResetApply, Finish, stores
<1> QED
  BY <1>7, <1>8, <1>10, <1>11 DEF Next, Reject, IssueResetToken, Crash, vars, stores

(* Only the session's own user revokes it, and logout-others spares the    *)
(* session it was called from, whatever runs beside it.                    *)
THEOREM ScopeCorrect == Spec => RevocationScope
<1> DEFINE Scope == \A j \in Jtis : (row'[j].revoked /\ ~row[j].revoked) =>
      \E p \in Slots :
        /\ req'[p] # req[p]
        /\ req[p].user = row[j].user
        /\ req[p].by = "others" => req[p].jti # j
<1>1. TypeOK /\ RequestsOwnSessions /\ [Next]_vars => [Scope]_vars
  <2> SUFFICES ASSUME RowStep PROVE Scope
    BY RowStepHolds
  <2>1. ASSUME SameOwnersAndRevoked PROVE Scope
    BY <2>1 DEF SameOwnersAndRevoked
  <2>2. ASSUME NEW u \in Users, NEW j \in Jtis, OpensFor(u, j) PROVE Scope
    BY <2>2 DEF OpensFor
  <2>3. ASSUME NEW p \in Slots, NEW S \in SUBSET Jtis, RevokesSessions(p, S) PROVE Scope
    BY <2>3 DEF RevokesSessions, Owned
  <2> QED BY <2>1, <2>2, <2>3 DEF RowStep
<1> QED BY <1>1, TypeAndOwnership, PTL DEF Spec, RevocationScope

RevokedOpened == \A j \in Jtis : row[j].revoked => row[j].user # None

(* A session that was never opened is never revoked. *)
LEMMA RevokedOpenedStep == RevokedOpened /\ RowStep => RevokedOpened'
<1> SUFFICES ASSUME RevokedOpened, RowStep PROVE RevokedOpened'
  OBVIOUS
<1>1. CASE SameOwnersAndRevoked
  BY <1>1 DEF RevokedOpened, SameOwnersAndRevoked
<1>2. ASSUME NEW u \in Users, NEW j \in Jtis, OpensFor(u, j) PROVE RevokedOpened'
  BY <1>2 DEF RevokedOpened, OpensFor
<1>3. ASSUME NEW p \in Slots, NEW S \in SUBSET Jtis, req[p].user \in Users,
             RevokesSessions(p, S)
      PROVE  RevokedOpened'
  BY <1>3, NoneAssumption DEF RevokedOpened, RevokesSessions, Owned
<1> QED BY <1>1, <1>2, <1>3 DEF RowStep

(* Every step opens one session, revokes sessions of one user, or is a     *)
(* stutter for SessionLifecycle.                                           *)
LEMMA LifecycleStep ==
  RevokedOpened /\ RowStep => [Lifecycle!Next]_<<[j \in Jtis |-> row[j].user],
                                                 {j \in Jtis : row[j].revoked}>>
<1> DEFINE owner == [j \in Jtis |-> row[j].user]
           revoked == {j \in Jtis : row[j].revoked}
<1> SUFFICES ASSUME RevokedOpened, RowStep
             PROVE  Lifecycle!Next \/ (owner' = owner /\ revoked' = revoked)
  OBVIOUS
<1>1. CASE SameOwnersAndRevoked
  BY <1>1 DEF SameOwnersAndRevoked
<1>2. ASSUME NEW u \in Users, NEW j \in Jtis, OpensFor(u, j) PROVE Lifecycle!Open(u, j)
  <2>1. ~row[j].revoked
    BY <1>2 DEF RevokedOpened, OpensFor
  <2>2. revoked' = revoked
    BY <1>2, <2>1 DEF OpensFor
  <2>3. owner' = [owner EXCEPT ![j] = u]
    BY <1>2 DEF OpensFor
  <2> QED BY <1>2, <2>2, <2>3 DEF Lifecycle!Open, OpensFor
<1>3. ASSUME NEW p \in Slots, NEW S \in SUBSET Jtis, req[p].user \in Users,
             RevokesSessions(p, S)
      PROVE  Lifecycle!Next \/ (owner' = owner /\ revoked' = revoked)
  <2> DEFINE T == S \ revoked
  <2>1. owner' = owner /\ revoked' = revoked \cup T
    BY <1>3 DEF RevokesSessions
  <2>2. T \in SUBSET Jtis /\ T \subseteq Lifecycle!Owned(req[p].user) \ revoked
    BY <1>3 DEF RevokesSessions, Owned, Lifecycle!Owned
  <2> HIDE DEF T
  <2>3. CASE T = {}
    BY <2>1, <2>3
  <2>4. CASE T # {}
    <3> SUFFICES \E R \in SUBSET Jtis : /\ R # {}
                                       /\ R \subseteq Lifecycle!Owned(req[p].user) \ revoked
                                       /\ revoked' = revoked \cup R
                                       /\ owner' = owner
      BY <1>3 DEF Lifecycle!Next, Lifecycle!Revoke
    <3> QED BY <2>1, <2>2, <2>4
  <2> QED BY <2>3, <2>4
<1> QED BY <1>1, <1>2, <1>3 DEF RowStep, Lifecycle!Next

(* The handlers implement SessionLifecycle: sessions never change hands,   *)
(* and no refresh, reset or late write undoes a revocation.                *)
THEOREM LifecycleCorrect == Spec => LifecycleSpec
<1>1. Init => RevokedOpened /\ Lifecycle!Init
  BY DEF Init, RevokedOpened, NoRow, Lifecycle!Init
<1>2. Spec => [](TypeOK /\ RequestsOwnSessions /\ RevokedOpened)
  <2>1. TypeOK /\ RequestsOwnSessions /\ RevokedOpened /\ [Next]_vars => RevokedOpened'
    BY RowStepHolds, RevokedOpenedStep
  <2> QED BY <1>1, <2>1, TypeAndOwnership, PTL DEF Spec
<1>3. TypeOK /\ RequestsOwnSessions /\ RevokedOpened /\ [Next]_vars =>
        [Lifecycle!Next]_<<[j \in Jtis |-> row[j].user], {j \in Jtis : row[j].revoked}>>
  BY RowStepHolds, LifecycleStep
<1> QED BY <1>1, <1>2, <1>3, PTL DEF Spec, LifecycleSpec, Lifecycle!Spec
-----------------------------------------------------------------------------
(* What the steps do to rows and requests. *)

(* The rows, except for those that a login or a refresh writes, only wane. *)
RowsWane ==
  \A j \in Jtis :
    /\ row'[j].user = row[j].user /\ row'[j].pwd = row[j].pwd
    /\ row'[j].hash = row[j].hash /\ row'[j].ver = row[j].ver
    /\ row[j].revoked => row'[j].revoked
    /\ row'[j].left > 0 => row[j].left > 0

LEMMA RevokeRowsWane ==
  ASSUME TypeOK, NEW S, row' = RevokeRows(S)
  PROVE  RowsWane
<1> SUFFICES ASSUME NEW j \in Jtis
             PROVE  /\ row'[j].user = row[j].user /\ row'[j].pwd = row[j].pwd
                    /\ row'[j].hash = row[j].hash /\ row'[j].ver = row[j].ver
                    /\ row[j].revoked => row'[j].revoked
                    /\ row'[j].left > 0 => row[j].left > 0
  BY DEF RowsWane
<1>1. row[j] \in Row
  BY DEF TypeOK
<1> QED BY <1>1 DEF RevokeRows, Row

LEMMA TickWanes ==
  ASSUME TypeOK, Tick
  PROVE  RowsWane
<1> SUFFICES ASSUME NEW j \in Jtis
             PROVE  /\ row'[j].user = row[j].user /\ row'[j].pwd = row[j].pwd
                    /\ row'[j].hash = row[j].hash /\ row'[j].ver = row[j].ver
                    /\ row[j].revoked => row'[j].revoked
                    /\ row'[j].left > 0 => row[j].left > 0
  BY DEF RowsWane
<1>1. row[j] \in Row /\ row'[j] = [row[j] EXCEPT !.left = Dec(row[j].left)]
  BY DEF Tick, TypeOK
<1>2. row[j].left \in Nat /\ (Dec(row[j].left) > 0 => row[j].left > 0)
  BY <1>1, TtlAssumption DEF Row, Dec
<1> QED BY <1>1, <1>2 DEF Row

LEMMA RowKinds ==
  ASSUME TypeOK, [Next]_vars
  PROVE  \/ RowsWane
         \/ \E p \in Slots, j \in Jtis : LoginCreate(p, j)
         \/ \E p \in Slots : RefreshRotate(p)
<1>1. ASSUME row' = row PROVE RowsWane
  BY <1>1 DEF RowsWane
<1>2. ASSUME NEW p \in Slots, Perform(p) PROVE RowsWane
  <2>1. row' = row \/ \E S : row' = RevokeRows(S)
    BY <1>2 DEF Perform, PerformRevokeRow, PerformRevokeRows, PerformSetPassword,
       PerformDropToken, PerformBlacklist, PerformCache, PerformReadList,
       PerformWriteList, stores
  <2> QED BY <1>1, <2>1, RevokeRowsWane
<1>3. ASSUME NEW p \in Slots, OthersRevoke(p) PROVE RowsWane
  BY <1>3, RevokeRowsWane DEF OthersRevoke
<1>4. ASSUME NEW p \in Slots, Arrive(p) PROVE RowsWane
  BY <1>1, <1>4 DEF Arrive, LoginStart, RefreshMatch, RefreshMismatch, Logout,
     RevokeSession, LogoutOthers, ResetStart, stores
<1>5. ASSUME NEW p \in Slots, Serve(p), ~RefreshRotate(p), \A j \in Jtis : ~LoginCreate(p, j)
      PROVE  RowsWane
  BY <1>1, <1>2, <1>3, <1>5 DEF Serve, LoginLimit, Sign, RevokeAll, ClearCookies,
     ResetApply, Finish, stores
<1>6. ASSUME Tick PROVE RowsWane
  BY <1>6, TickWanes
<1> QED
  BY <1>1, <1>4, <1>5, <1>6 DEF Next, Reject, IssueResetToken, Crash, vars, stores

(* Where the slot's request goes in a step *)
LEMMA GotoRequest ==
  ASSUME TypeOK, NEW p \in Slots, NEW pc, NEW todo, Goto(p, pc, todo)
  PROVE  /\ req'[p].pc = pc /\ req'[p].todo = todo
         /\ req'[p].user = req[p].user /\ req'[p].jti = req[p].jti
         /\ req'[p].by = req[p].by /\ req'[p].browser = req[p].browser
         /\ req'[p].tok = req[p].tok /\ req'[p].ver = req[p].ver
         /\ req'[p].pwd = req[p].pwd /\ req'[p].targets = req[p].targets
<1>1. req[p] \in Request
  BY DEF TypeOK
<1> QED BY <1>1 DEF Goto, Request, TypeOK

LEMMA Started ==
  ASSUME TypeOK, NEW p \in Slots, NEW r, Start(p, r)
  PROVE  req'[p] = r
  BY DEF Start, TypeOK

LEMMA Ended ==
  ASSUME TypeOK, NEW p \in Slots, Sign(p) \/ ClearCookies(p) \/ Finish(p)
  PROVE  req'[p] = Idle /\ req[p].todo = {}
  BY DEF TypeOK, Sign, ClearCookies, Finish, At

LEMMA Created ==
  ASSUME TypeOK, NEW p \in Slots, NEW j \in Jtis, LoginCreate(p, j)
  PROVE  /\ req[p].pc = "create" /\ req[p].todo = {} /\ req'[p].pc = "sign"
         /\ req'[p].user = req[p].user /\ req'[p].jti = j /\ req'[p].by = req[p].by
         /\ req'[p].browser = req[p].browser /\ req'[p].tok = 1
         /\ req'[p].todo = {Cmd("cache", {j}), Cmd("list", {j})}
         /\ row[j].user = None /\ row'[j].user = req[p].user
         /\ row'[j].hash = 1 /\ row'[j].ver = 1 /\ row'[j].pwd = req[p].pwd /\ ~row'[j].revoked
         /\ \A k \in Jtis : k # j => row'[k] = row[k]
<1>1. req[p] \in Request
  BY DEF TypeOK
<1> QED BY <1>1 DEF LoginCreate, At, TypeOK, Request

(* How a request comes to wait where it does *)
LEMMA ArrivePc ==
  ASSUME TypeOK, NEW p \in Slots, Arrive(p)
  PROVE  /\ req'[p].pc \notin {"create", "sign"}
         /\ req'[p].pc = "limit" =>
              \E b \in Browsers, u \in Users, by \in {"password", "google"} : LoginStart(p, b, u, by)
         /\ req'[p].pc = "rotate" => \E b \in Browsers : RefreshMatch(p, b)
         /\ req'[p].pc = "others" => \E j \in Jtis : LogoutOthers(p, j)
<1>1. ASSUME NEW r, Start(p, r) PROVE req'[p] = r
  BY <1>1, Started
<1>2. ASSUME NEW b \in Browsers, RefreshMatch(p, b) PROVE req'[p].pc = "rotate"
  BY <1>1, <1>2 DEF RefreshMatch, Idle
<1>3. ASSUME NEW b \in Browsers, RefreshMismatch(p, b) PROVE req'[p].pc = "mismatch"
  BY <1>1, <1>3 DEF RefreshMismatch, Idle
<1>4. ASSUME NEW b \in Browsers, NEW u \in Users, NEW by \in {"password", "google"},
             LoginStart(p, b, u, by)
      PROVE  req'[p].pc = "limit"
  BY <1>1, <1>4 DEF LoginStart, Idle
<1>5. ASSUME NEW b \in Browsers, Logout(p, b) PROVE req'[p].pc = "clear"
  BY <1>1, <1>5 DEF Logout, Idle
<1>6. ASSUME NEW j \in Jtis, NEW target \in Jtis, RevokeSession(p, j, target)
      PROVE  req'[p].pc = "done"
  BY <1>1, <1>6 DEF RevokeSession, Idle
<1>7. ASSUME NEW j \in Jtis, LogoutOthers(p, j) PROVE req'[p].pc = "others"
  BY <1>1, <1>7 DEF LogoutOthers, Idle
<1>8. ASSUME NEW u \in Users, ResetStart(p, u) PROVE req'[p].pc = "reset"
  BY <1>1, <1>8 DEF ResetStart, Idle
<1> QED BY <1>2, <1>3, <1>4, <1>5, <1>6, <1>7, <1>8 DEF Arrive

(* What stays of a request while the stores perform its commands *)
LEMMA PerformFields ==
  ASSUME TypeOK, NEW p \in Slots, Perform(p)
  PROVE  /\ req[p].todo # {}
         /\ req'[p].pc = req[p].pc
         /\ req'[p].user = req[p].user /\ req'[p].jti = req[p].jti
         /\ req'[p].by = req[p].by /\ req'[p].browser = req[p].browser
         /\ req'[p].tok = req[p].tok /\ req'[p].ver = req[p].ver
         /\ req'[p].pwd = req[p].pwd /\ req'[p].targets = req[p].targets
         /\ UNCHANGED <<access, late, minted, jar>>
<1>1. PICK todo : Goto(p, req[p].pc, todo)
  BY DEF Perform, PerformRevokeRow, PerformRevokeRows, PerformSetPassword,
     PerformDropToken, PerformBlacklist, PerformCache, PerformReadList,
     PerformWriteList, Performed
<1>2. req[p].todo # {} /\ UNCHANGED <<access, late, minted, jar>>
  BY DEF Perform
<1> QED BY <1>1, <1>2, GotoRequest

LEMMA NamesOpened ==
  ASSUME TypeOK, RequestsOwnSessions, NEW p \in Slots, req[p].pc \in {"rotate", "sign"}
  PROVE  req[p].jti \in Jtis /\ req[p].jti \in Opened
  BY NoneAssumption DEF TypeOK, Request, RequestsOwnSessions, ActsForOneUser, Idle, Opened

LEMMA MatchStarts ==
  ASSUME TypeOK, NEW p \in Slots, NEW b \in Browsers, RefreshMatch(p, b)
  PROVE  /\ req'[p].pc = "rotate" /\ req'[p].by = "refresh" /\ req'[p].browser = b
         /\ req'[p].jti = jar[b].jti /\ req'[p].tok = minted[jar[b].jti] + 1
         /\ req'[p].ver = row[jar[b].jti].ver + 1
<1> DEFINE j == jar[b].jti
           r == [Idle EXCEPT
                   !.pc = "rotate", !.by = "refresh", !.browser = b,
                   !.user = row[j].user, !.jti = j, !.tok = minted[j] + 1,
                   !.ver = NextVersion(row[j].ver)]
<1>1. Start(p, r)
  BY DEF RefreshMatch
<1>2. /\ r.pc = "rotate" /\ r.by = "refresh" /\ r.browser = b /\ r.jti = j
      /\ r.tok = minted[j] + 1 /\ r.ver = row[j].ver + 1
  BY DEF Idle, NextVersion
<1> HIDE DEF r
<1> QED BY <1>1, <1>2, Started

-----------------------------------------------------------------------------
(* The theft alarm, when requests overlap. *)

(* The requests about to store or to answer with a token of session j, and *)
(* the browsers that hold one                                              *)
Bringing(j) == {p \in Slots : req[p].pc \in {"rotate", "sign"} /\ req[p].jti = j}
Holders(j) == {b \in Browsers : jar[b].refresh.jti = j}

(* The tokens of a session go to one browser.                              *)
OneHome(j) ==
  \E home \in Browsers \cup {None} :
    Holders(j) \subseteq {home} /\ \A p \in Bringing(j) : req[p].browser = home

(* AlarmHasCause speaks of the moments between requests.  At any moment a  *)
(* session has had overlapping refreshes, which no later write of an       *)
(* outdated version can hide ...                                           *)
Overlapped(j) ==
  /\ row[j].ver < minted[j]
  /\ \A p \in Bringing(j) : req[p].pc = "rotate" => req[p].ver < minted[j]

(* ... or every token of it is settled: the newest one is the one stored   *)
(* and the one held ...                                                    *)
Settled(j) ==
  /\ Bringing(j) = {}
  /\ row[j].ver = minted[j] /\ row[j].hash = minted[j]
  /\ \A b \in Holders(j) : jar[b].refresh.n = minted[j]

(* ... or one request has the newest, which no browser holds yet.          *)
OneBringer(j) ==
  \E p \in Slots :
    /\ Bringing(j) = {p} /\ req[p].tok = minted[j]
    /\ \A b \in Holders(j) : jar[b].refresh.n # minted[j]
    /\ req[p].pc = "rotate" => req[p].ver = minted[j] /\ row[j].ver + 1 = minted[j]
    /\ req[p].pc = "sign" => row[j].ver = minted[j] /\ row[j].hash = minted[j]

TokensKnown(j) == OneHome(j) /\ (Overlapped(j) \/ Settled(j) \/ OneBringer(j))
HeldOpened == \A b \in Browsers : jar[b].refresh.jti \in Opened \cup {None}
CauseInv == HeldOpened /\ (faults = 0 => \A j \in Opened : TokensKnown(j))

(* A step that leaves alone what TokensKnown says of session j, but for    *)
(* cookies that go                                                         *)
SameBringer(p, j) ==
  /\ req'[p].pc = req[p].pc /\ req'[p].jti = req[p].jti /\ req'[p].tok = req[p].tok
  /\ req'[p].ver = req[p].ver /\ req'[p].browser = req[p].browser

LeavesTokens(j) ==
  /\ row'[j].ver = row[j].ver /\ row'[j].hash = row[j].hash /\ minted'[j] = minted[j]
  /\ \A p \in Slots : SameBringer(p, j) \/ (p \notin Bringing(j) /\ p \notin Bringing(j)')
  /\ \A b \in Browsers : jar'[b].refresh = jar[b].refresh \/ jar'[b].refresh.jti # j

LEMMA LeftTokensKnown ==
  ASSUME NEW j \in Jtis, TokensKnown(j), LeavesTokens(j)
  PROVE  TokensKnown(j)'
<1>1. Bringing(j)' = Bringing(j)
  BY DEF LeavesTokens, SameBringer, Bringing
<1>2. \A p \in Bringing(j) : SameBringer(p, j)
  BY DEF LeavesTokens, Bringing
<1>3. \A b \in Holders(j)' : b \in Holders(j) /\ jar'[b].refresh = jar[b].refresh
  BY DEF LeavesTokens, Holders
<1>4. row'[j].ver = row[j].ver /\ row'[j].hash = row[j].hash /\ minted'[j] = minted[j]
  BY DEF LeavesTokens
<1>5. OneHome(j)'
  BY <1>1, <1>2, <1>3 DEF TokensKnown, OneHome, SameBringer
<1>6. CASE Overlapped(j)
  <2>1. Overlapped(j)'
    BY <1>1, <1>2, <1>4, <1>6 DEF Overlapped, SameBringer
  <2> QED BY <1>5, <2>1 DEF TokensKnown
<1>7. CASE Settled(j)
  <2>1. Settled(j)'
    BY <1>1, <1>3, <1>4, <1>7 DEF Settled
  <2> QED BY <1>5, <2>1 DEF TokensKnown
<1>8. CASE OneBringer(j)
  <2>1. OneBringer(j)'
    BY <1>1, <1>2, <1>3, <1>4, <1>8 DEF OneBringer, SameBringer
  <2> QED BY <1>5, <2>1 DEF TokensKnown
<1> QED BY <1>6, <1>7, <1>8 DEF TokensKnown

(* What became of session j's tokens in a step that no fault follows.      *)
LEMMA MatchLeaves ==
  ASSUME TypeOK, NEW p \in Slots, NEW b \in Browsers, RefreshMatch(p, b),
         NEW j \in Jtis, j # jar[b].jti
  PROVE  LeavesTokens(j)
<1>1. req'[p].pc = "rotate" /\ req'[p].jti = jar[b].jti
  BY MatchStarts
<1>2. req[p].pc = "idle" /\ \A q \in Slots : q # p => req'[q] = req[q]
  BY DEF RefreshMatch, Start, Free, TypeOK
<1>3. row' = row /\ jar' = jar /\ minted'[j] = minted[j]
  BY DEF RefreshMatch, stores, TypeOK
<1>4. p \notin Bringing(j) /\ p \notin Bringing(j)'
  BY <1>1, <1>2 DEF Bringing
<1> QED BY <1>2, <1>3, <1>4 DEF LeavesTokens, SameBringer

LEMMA CreateLeaves ==
  ASSUME TypeOK, NEW p \in Slots, NEW k \in Jtis, LoginCreate(p, k),
         NEW j \in Jtis, j # k
  PROVE  LeavesTokens(j)
<1>1. /\ req[p].pc = "create" /\ req'[p].jti = k
      /\ row'[j] = row[j]
  BY Created
<1>2. \A q \in Slots : q # p => req'[q] = req[q]
  BY DEF LoginCreate, TypeOK
<1>3. jar' = jar /\ minted'[j] = minted[j]
  BY DEF LoginCreate, TypeOK
<1>4. p \notin Bringing(j) /\ p \notin Bringing(j)'
  BY <1>1 DEF Bringing
<1> QED BY <1>1, <1>2, <1>3, <1>4 DEF LeavesTokens, SameBringer

LEMMA RotateLeaves ==
  ASSUME TypeOK, NEW p \in Slots, RefreshRotate(p), NEW j \in Jtis, j # req[p].jti
  PROVE  LeavesTokens(j)
<1>1. /\ jar' = jar /\ minted' = minted
      /\ row' = [row EXCEPT ![req[p].jti] = Rotated(req[p])]
      /\ Goto(p, "sign", {Cmd("cache", {req[p].jti})})
  BY DEF RefreshRotate, tokens
<1>2. req'[p].jti = req[p].jti
  BY <1>1, GotoRequest
<1>3. \A q \in Slots : q # p => req'[q] = req[q]
  BY <1>1 DEF Goto, TypeOK
<1>4. row'[j] = row[j]
  BY <1>1 DEF TypeOK
<1>5. p \notin Bringing(j) /\ p \notin Bringing(j)'
  BY <1>2 DEF Bringing
<1> QED BY <1>1, <1>3, <1>4, <1>5 DEF LeavesTokens, SameBringer

LEMMA SignLeaves ==
  ASSUME TypeOK, NEW p \in Slots, Sign(p), NEW j \in Jtis, j # req[p].jti
  PROVE  LeavesTokens(j)
<1>1. row' = row /\ minted' = minted /\ req' = [req EXCEPT ![p] = Idle]
  BY DEF Sign, stores
<1>2. \A q \in Slots : q # p => req'[q] = req[q]
  BY <1>1 DEF TypeOK
<1>3. p \notin Bringing(j) /\ p \notin Bringing(j)'
  <2>1. req'[p] = Idle
    BY Ended
  <2> QED BY <2>1 DEF Bringing, Idle
<1>4. ASSUME NEW b \in Browsers PROVE jar'[b].refresh = jar[b].refresh \/ jar'[b].refresh.jti # j
  <2>1. PICK home, cookies : /\ home = req[p].browser
                             /\ cookies = SetCookies(jar[home], req[p])
                             /\ Respond(home, cookies)
    BY DEF Sign
  <2>2. cookies.refresh.jti = req[p].jti
    BY <2>1 DEF SetCookies
  <2> QED BY <2>1, <2>2 DEF Respond, TypeOK
<1> QED BY <1>1, <1>2, <1>3, <1>4 DEF LeavesTokens, SameBringer

(* The refresh cookies of a jar are those it had, or gone. *)
LEMMA AgedLeaves ==
  ASSUME TypeOK, Tick, NEW b \in Browsers
  PROVE  jar'[b].refresh \in {jar[b].refresh, NoToken}
<1>1. jar'[b] = Aged(jar[b]) /\ jar[b] \in Jar
  BY DEF Tick, TypeOK
<1> QED BY <1>1 DEF Aged, Jar

(* Nothing but these four steps, a rejection and a crash touches the       *)
(* tokens of any session.                                                  *)
LEMMA OthersLeave ==
  ASSUME TypeOK, RequestsOwnSessions, [Next]_vars,
         \A p \in Slots : /\ ~RefreshRotate(p) /\ ~Sign(p) /\ ~Reject(p)
                          /\ \A b \in Browsers : ~RefreshMatch(p, b)
                          /\ \A k \in Jtis : ~LoginCreate(p, k),
         ~Crash, NEW j \in Jtis
  PROVE  LeavesTokens(j)
<1>0. row'[j].ver = row[j].ver /\ row'[j].hash = row[j].hash
  BY RowKinds DEF RowsWane
<1>1. ASSUME NEW p \in Slots, minted' = minted,
             \A q \in Slots : q # p => req'[q] = req[q],
             SameBringer(p, j) \/ (p \notin Bringing(j) /\ p \notin Bringing(j)'),
             \A b \in Browsers : jar'[b].refresh \in {jar[b].refresh, NoToken}
      PROVE  LeavesTokens(j)
  <2>1. NoToken.jti # j
    BY NoneAssumption DEF NoToken
  <2> QED BY <1>0, <1>1, <2>1 DEF LeavesTokens, SameBringer
<1>2. ASSUME NEW p \in Slots, Arrive(p) PROVE LeavesTokens(j)
  <2>1. /\ minted' = minted /\ jar' = jar /\ Free(p)
        /\ \E r : req' = [req EXCEPT ![p] = r]
    BY <1>2 DEF Arrive, LoginStart, RefreshMismatch, Logout, RevokeSession, LogoutOthers,
       ResetStart, Start, tokens
  <2>2. \A q \in Slots : q # p => req'[q] = req[q]
    BY <2>1 DEF TypeOK
  <2>3. p \notin Bringing(j)
    BY <2>1 DEF Bringing, Free
  <2>4. req'[p].pc \notin {"rotate", "sign"}
    BY <1>2, ArrivePc
  <2>5. p \notin Bringing(j)'
    BY <2>4 DEF Bringing
  <2> QED BY <1>1, <2>1, <2>2, <2>3, <2>5
<1>3. ASSUME NEW p \in Slots, NEW pc \in {"create", "done"}, NEW todo, Goto(p, pc, todo),
             jar' = jar, minted' = minted, req[p].pc \notin {"rotate", "sign"}
      PROVE  LeavesTokens(j)
  <2>1. req'[p].pc = pc
    BY <1>3, GotoRequest
  <2>2. \A q \in Slots : q # p => req'[q] = req[q]
    BY <1>3 DEF Goto, TypeOK
  <2>3. p \notin Bringing(j) /\ p \notin Bringing(j)'
    BY <1>3, <2>1 DEF Bringing
  <2> QED BY <1>1, <1>3, <2>2, <2>3
<1>4. ASSUME NEW p \in Slots, LoginLimit(p) \/ RevokeAll(p) \/ OthersRevoke(p) \/ ResetApply(p)
      PROVE  LeavesTokens(j)
  <2>1. PICK pc, todo : pc \in {"create", "done"} /\ Goto(p, pc, todo)
    BY <1>4 DEF LoginLimit, RevokeAll, OthersRevoke, ResetApply
  <2>2. jar' = jar /\ minted' = minted /\ req[p].pc \notin {"rotate", "sign"}
    BY <1>4 DEF LoginLimit, RevokeAll, OthersRevoke, ResetApply, At, tokens
  <2> QED BY <1>3, <2>1, <2>2
<1>5. ASSUME NEW p \in Slots, Perform(p) PROVE LeavesTokens(j)
  <2>1. SameBringer(p, j) /\ minted' = minted /\ jar' = jar
    BY <1>5, PerformFields DEF SameBringer
  <2>2. PICK todo : Goto(p, req[p].pc, todo)
    BY <1>5 DEF Perform, PerformRevokeRow, PerformRevokeRows, PerformSetPassword,
       PerformDropToken, PerformBlacklist, PerformCache, PerformReadList,
       PerformWriteList, Performed
  <2>3. \A q \in Slots : q # p => req'[q] = req[q]
    BY <2>2 DEF Goto, TypeOK
  <2> QED BY <1>1, <2>1, <2>3
<1>6. ASSUME NEW p \in Slots, ClearCookies(p) \/ Finish(p) PROVE LeavesTokens(j)
  <2>1. req'[p] = Idle
    BY <1>6, Ended
  <2>2. /\ minted' = minted /\ req' = [req EXCEPT ![p] = Idle]
        /\ req[p].pc \notin {"rotate", "sign"}
    BY <1>6 DEF ClearCookies, Finish, At, tokens
  <2>3. \A q \in Slots : q # p => req'[q] = req[q]
    BY <2>2 DEF TypeOK
  <2>4. p \notin Bringing(j) /\ p \notin Bringing(j)'
    BY <2>1, <2>2 DEF Bringing, Idle
  <2>5. ASSUME NEW b \in Browsers PROVE jar'[b].refresh \in {jar[b].refresh, NoToken}
    <3>1. CASE ClearCookies(p)
      <4>1. PICK home : Respond(home, EmptyJar)
        BY <3>1 DEF ClearCookies
      <4> QED BY <4>1 DEF Respond, TypeOK, EmptyJar
    <3>2. CASE Finish(p)
      BY <3>2 DEF Finish
    <3> QED BY <1>6, <3>1, <3>2
  <2> QED BY <1>1, <2>2, <2>3, <2>4, <2>5
<1>7. CASE Tick
  <2>1. req' = req /\ minted' = minted
    BY <1>7 DEF Tick
  <2>2. NoToken.jti # j
    BY NoneAssumption DEF NoToken
  <2> QED BY <1>0, <1>7, <2>1, <2>2, AgedLeaves DEF LeavesTokens, SameBringer
<1>8. CASE (\E u \in Users : IssueResetToken(u)) \/ UNCHANGED vars
  BY <1>0, <1>8 DEF IssueResetToken, vars, tokens, LeavesTokens, SameBringer
<1>9. ASSUME NEW p \in Slots, Serve(p) PROVE LeavesTokens(j)
  BY <1>4, <1>5, <1>6, <1>9 DEF Serve
<1> QED BY <1>2, <1>7, <1>8, <1>9 DEF Next

(* A refresh that matches starts the one renewal of a settled session, or  *)
(* overlaps the renewal under way: the answer to that one has the stored   *)
(* token, so that none matches after it is stored and before it is there.  *)
LEMMA MatchKnown ==
  ASSUME TypeOK, NEW p \in Slots, NEW b \in Browsers, RefreshMatch(p, b),
         NEW j \in Jtis, j = jar[b].jti, TokensKnown(j)
  PROVE  TokensKnown(j)'
<1>1. /\ req'[p].pc = "rotate" /\ req'[p].browser = b /\ req'[p].jti = j
      /\ req'[p].tok = minted[j] + 1 /\ req'[p].ver = row[j].ver + 1
  BY MatchStarts
<1>2. /\ req[p].pc = "idle" /\ \A q \in Slots : q # p => req'[q] = req[q]
      /\ row' = row /\ jar' = jar /\ minted'[j] = minted[j] + 1
  BY DEF RefreshMatch, Start, Free, TypeOK, stores
<1>3. jar[b].refresh.jti = j /\ jar[b].refresh.n = row[j].hash
  BY DEF RefreshMatch, Matches
<1>4. Bringing(j)' = Bringing(j) \cup {p} /\ p \notin Bringing(j) /\ Holders(j)' = Holders(j)
  BY <1>1, <1>2 DEF Bringing, Holders
<1>5. b \in Holders(j)
  BY <1>3 DEF Holders
<1>6. minted[j] \in Nat /\ row[j].ver \in Nat /\ row[j].hash \in Nat
  BY DEF TypeOK, Row
<1>7. \A q \in Bringing(j) : q # p /\ q \in Slots /\ req'[q] = req[q]
  BY <1>2, <1>4 DEF Bringing
<1>8. OneHome(j)'
  BY <1>1, <1>4, <1>5, <1>7 DEF TokensKnown, OneHome
<1>9. CASE Overlapped(j)
  <2>1. row'[j].ver < minted'[j]
    BY <1>2, <1>6, <1>9 DEF Overlapped
  <2>2. ASSUME NEW q \in Bringing(j)', req'[q].pc = "rotate" PROVE req'[q].ver < minted'[j]
    <3>1. CASE q = p
      BY <1>1, <1>2, <1>6, <1>9, <3>1 DEF Overlapped
    <3>2. CASE q # p
      <4>1. q \in Bringing(j) /\ req'[q] = req[q] /\ req[q].ver \in Nat
        BY <1>4, <1>7, <3>2 DEF TypeOK, Request
      <4> QED BY <1>2, <1>6, <1>9, <2>2, <4>1 DEF Overlapped
    <3> QED BY <3>1, <3>2
  <2>3. Overlapped(j)'
    BY <2>1, <2>2 DEF Overlapped
  <2> QED BY <1>8, <2>3 DEF TokensKnown
<1>10. CASE Settled(j)
  <2>1. /\ Bringing(j)' = {p} /\ row[j].ver = minted[j] /\ row[j].hash = minted[j]
        /\ \A c \in Holders(j) : jar[c].refresh.n = minted[j]
    BY <1>4, <1>10 DEF Settled
  <2>2. \A c \in Holders(j)' : jar'[c].refresh.n # minted'[j]
    BY <1>2, <1>4, <1>6, <2>1
  <2>3. OneBringer(j)'
    BY <1>1, <1>2, <2>1, <2>2 DEF OneBringer
  <2> QED BY <1>8, <2>3 DEF TokensKnown
<1>11. CASE OneBringer(j)
  <2>1. PICK q \in Slots : /\ Bringing(j) = {q}
                           /\ \A c \in Holders(j) : jar[c].refresh.n # minted[j]
                           /\ req[q].pc = "rotate" => req[q].ver = minted[j] /\ row[j].ver + 1 = minted[j]
                           /\ req[q].pc = "sign" => row[j].hash = minted[j]
    BY <1>11 DEF OneBringer
  <2>2. req[q].pc = "rotate"
    BY <1>3, <1>5, <2>1 DEF Bringing
  <2>3. \A s \in Bringing(j)' : req'[s].ver < minted'[j]
    BY <1>1, <1>2, <1>4, <1>6, <1>7, <2>1, <2>2
  <2>4. Overlapped(j)'
    BY <1>2, <1>6, <2>1, <2>2, <2>3 DEF Overlapped
  <2> QED BY <1>8, <2>4 DEF TokensKnown
<1> QED BY <1>9, <1>10, <1>11 DEF TokensKnown

(* A new session's token is on its way to the browser that logged in. *)
LEMMA CreateKnown ==
  ASSUME TypeOK, RequestsOwnSessions, HeldOpened, NEW p \in Slots, NEW j \in Jtis,
         LoginCreate(p, j)
  PROVE  TokensKnown(j)'
<1>1. /\ req'[p].pc = "sign" /\ req'[p].jti = j /\ req'[p].tok = 1
      /\ req'[p].browser = req[p].browser
      /\ row[j].user = None /\ row'[j].hash = 1 /\ row'[j].ver = 1
  BY Created
<1>2. jar' = jar /\ minted'[j] = 1 /\ \A q \in Slots : q # p => req'[q] = req[q]
  BY DEF LoginCreate, TypeOK
<1>3. Bringing(j) = {}
  BY <1>1, NamesOpened DEF Bringing, Opened
<1>4. Bringing(j)' = {p}
  BY <1>1, <1>2, <1>3 DEF Bringing
<1>5. Holders(j)' = {}
  BY <1>1, <1>2, NoneAssumption DEF HeldOpened, Holders, Opened
<1>6. req[p].browser \in Browsers \cup {None}
  BY DEF TypeOK, Request
<1>7. OneHome(j)'
  BY <1>1, <1>4, <1>5, <1>6 DEF OneHome
<1>8. OneBringer(j)'
  BY <1>1, <1>2, <1>4, <1>5 DEF OneBringer
<1> QED BY <1>7, <1>8 DEF TokensKnown

(* The row takes the token of the one renewal, or an outdated version. *)
LEMMA RotateKnown ==
  ASSUME TypeOK, NEW p \in Slots, RefreshRotate(p), NEW j \in Jtis, j = req[p].jti,
         TokensKnown(j)
  PROVE  TokensKnown(j)'
<1>1. /\ req[p].pc = "rotate" /\ jar' = jar /\ minted' = minted
      /\ row' = [row EXCEPT ![j] = Rotated(req[p])]
      /\ Goto(p, "sign", {Cmd("cache", {req[p].jti})})
  BY DEF RefreshRotate, At, tokens
<1>2. /\ req'[p].pc = "sign" /\ req'[p].jti = j /\ req'[p].tok = req[p].tok
      /\ req'[p].browser = req[p].browser
  BY <1>1, GotoRequest
<1>3. \A q \in Slots : q # p => req'[q] = req[q]
  BY <1>1 DEF Goto, TypeOK
<1>4. row'[j].ver = req[p].ver /\ row'[j].hash = req[p].tok
  <2>1. row[j] \in Row
    BY DEF TypeOK
  <2> QED BY <1>1, <2>1 DEF Rotated, TypeOK, Row
<1>5. p \in Bringing(j) /\ Bringing(j)' = Bringing(j) /\ Holders(j)' = Holders(j)
  BY <1>1, <1>2, <1>3 DEF Bringing, Holders
<1>6. OneHome(j)'
  BY <1>2, <1>3, <1>5 DEF TokensKnown, OneHome, Bringing
<1>7. CASE Overlapped(j)
  <2>1. \A q \in Bringing(j)' : req'[q].pc = "rotate" => req'[q] = req[q]
    BY <1>2, <1>3 DEF Bringing
  <2>2. Overlapped(j)'
    BY <1>1, <1>4, <1>5, <1>7, <2>1 DEF Overlapped
  <2> QED BY <1>6, <2>2 DEF TokensKnown
<1>8. CASE OneBringer(j)
  <2>1. /\ Bringing(j) = {p} /\ req[p].tok = minted[j] /\ req[p].ver = minted[j]
        /\ \A b \in Holders(j) : jar[b].refresh.n # minted[j]
    BY <1>1, <1>5, <1>8 DEF OneBringer
  <2>2. OneBringer(j)'
    BY <1>1, <1>2, <1>4, <1>5, <2>1 DEF OneBringer
  <2> QED BY <1>6, <2>2 DEF TokensKnown
<1>9. CASE Settled(j)
  BY <1>5, <1>9 DEF Settled
<1> QED BY <1>7, <1>8, <1>9 DEF TokensKnown

(* The answer of the one renewal settles the session. *)
LEMMA SignKnown ==
  ASSUME TypeOK, NEW p \in Slots, Sign(p), faults' = 0, NEW j \in Jtis, j = req[p].jti,
         TokensKnown(j)
  PROVE  TokensKnown(j)'
<1>1. /\ req[p].pc = "sign" /\ row' = row /\ minted' = minted
      /\ req' = [req EXCEPT ![p] = Idle]
  BY DEF Sign, At, stores
<1>2. PICK home, cookies : /\ home = req[p].browser
                           /\ cookies = SetCookies(jar[home], req[p])
                           /\ Respond(home, cookies)
  BY DEF Sign
<1>3. cookies.refresh.jti = j /\ cookies.refresh.n = req[p].tok
  BY <1>2 DEF SetCookies
<1>4. jar' = [jar EXCEPT ![home] = cookies]
  BY <1>2 DEF Respond, TypeOK
<1>5. \A q \in Slots : q # p => req'[q] = req[q]
  BY <1>1 DEF TypeOK
<1>6. p \in Bringing(j) /\ Bringing(j)' = Bringing(j) \ {p}
  <2>1. req'[p] = Idle
    BY Ended
  <2> QED BY <1>1, <1>5, <2>1 DEF Bringing, Idle
<1>7. Holders(j) \subseteq {home} /\ \A q \in Bringing(j) : req[q].browser = home
  BY <1>2, <1>6 DEF TokensKnown, OneHome
<1>8. Holders(j)' \subseteq {home}
  BY <1>4, <1>7 DEF Holders, TypeOK
<1>9. home \in Browsers \cup {None}
  BY <1>2 DEF TypeOK, Request
<1>10. OneHome(j)'
  BY <1>5, <1>6, <1>7, <1>8, <1>9 DEF OneHome, Bringing
<1>11. CASE Overlapped(j)
  <2>1. \A q \in Bringing(j)' : q \in Bringing(j) /\ req'[q] = req[q]
    BY <1>5, <1>6 DEF Bringing
  <2>2. Overlapped(j)'
    BY <1>1, <1>11, <2>1 DEF Overlapped
  <2> QED BY <1>10, <2>2 DEF TokensKnown
<1>12. CASE OneBringer(j)
  <2>1. /\ Bringing(j) = {p} /\ req[p].tok = minted[j]
        /\ row[j].ver = minted[j] /\ row[j].hash = minted[j]
    BY <1>1, <1>6, <1>12 DEF OneBringer
  <2>2. \A b \in Holders(j)' : b = home /\ jar'[b].refresh.n = minted[j]
    BY <1>3, <1>4, <1>8, <2>1 DEF Holders, TypeOK
  <2>3. Settled(j)'
    BY <1>1, <1>6, <2>1, <2>2 DEF Settled
  <2> QED BY <1>10, <2>3 DEF TokensKnown
<1>13. CASE Settled(j)
  BY <1>6, <1>13 DEF Settled
<1> QED BY <1>11, <1>12, <1>13 DEF TokensKnown

(* The tokens a browser holds are of opened sessions. *)
LEMMA HeldOpenedStep ==
  TypeOK /\ RequestsOwnSessions /\ HeldOpened /\ [Next]_vars => HeldOpened'
<1> SUFFICES ASSUME TypeOK, RequestsOwnSessions, HeldOpened, [Next]_vars, NEW b \in Browsers
             PROVE  jar'[b].refresh.jti \in Opened' \cup {None}
  BY DEF HeldOpened
<1>1. Opened \subseteq Opened'
  BY OwnersStayStep DEF OwnersStay, Opened
<1>2. ASSUME jar'[b].refresh \in {jar[b].refresh, NoToken}
      PROVE  jar'[b].refresh.jti \in Opened' \cup {None}
  BY <1>1, <1>2 DEF HeldOpened, NoToken
<1>3. ASSUME NEW p \in Slots, Sign(p) PROVE jar'[b].refresh.jti \in Opened' \cup {None}
  <2>1. PICK home, cookies : /\ cookies = SetCookies(jar[home], req[p])
                             /\ Respond(home, cookies)
    BY <1>3 DEF Sign
  <2>2. cookies.refresh.jti = req[p].jti
    BY <2>1 DEF SetCookies
  <2>3. req[p].jti \in Opened
    BY <1>3, NamesOpened DEF Sign, At
  <2> QED BY <1>1, <1>2, <2>1, <2>2, <2>3 DEF Respond, TypeOK
<1>4. ASSUME NEW p \in Slots, ClearCookies(p)
      PROVE  jar'[b].refresh.jti \in Opened' \cup {None}
  <2>1. PICK home : Respond(home, EmptyJar)
    BY <1>4 DEF ClearCookies
  <2> QED BY <1>2, <2>1 DEF Respond, TypeOK, EmptyJar
<1>5. CASE Tick
  BY <1>2, <1>5, AgedLeaves
<1>6. CASE jar' = jar
  BY <1>2, <1>6
<1>7. ASSUME NEW p \in Slots, Arrive(p) PROVE jar' = jar
  BY <1>7 DEF Arrive, LoginStart, RefreshMatch, RefreshMismatch, Logout, RevokeSession,
     LogoutOthers, ResetStart
<1>8. ASSUME NEW p \in Slots, Serve(p), ~Sign(p), ~ClearCookies(p) PROVE jar' = jar
  BY <1>8 DEF Serve, LoginLimit, LoginCreate, RefreshRotate, RevokeAll, OthersRevoke,
     ResetApply, Perform, Finish
<1> QED BY <1>3, <1>4, <1>5, <1>6, <1>7, <1>8 DEF Next, Reject, IssueResetToken, Crash, vars

LEMMA CauseStep ==
  TypeOK /\ RequestsOwnSessions /\ CauseInv /\ [Next]_vars => CauseInv'
<1> SUFFICES ASSUME TypeOK, RequestsOwnSessions, CauseInv, [Next]_vars, faults' = 0,
                    NEW j \in Opened'
             PROVE  TokensKnown(j)'
  BY HeldOpenedStep DEF CauseInv
<1>1. j \in Jtis
  BY DEF Opened
<1>2. faults = 0 /\ ~Crash /\ \A p \in Slots : ~Reject(p)
  <2>1. faults \in Nat
    BY DEF TypeOK
  <2>2. ASSUME NEW p \in Slots, Arrive(p) PROVE faults' = faults
    BY <2>2 DEF Arrive, LoginStart, RefreshMatch, RefreshMismatch, Logout, RevokeSession,
       LogoutOthers, ResetStart
  <2>3. ASSUME NEW p \in Slots, Sign(p) \/ ClearCookies(p)
        PROVE  faults' = faults \/ faults' = faults + 1
    <3>1. PICK home, cookies : Respond(home, cookies)
      BY <2>3 DEF Sign, ClearCookies
    <3> QED BY <3>1 DEF Respond
  <2>4. ASSUME NEW p \in Slots, Serve(p), ~Sign(p), ~ClearCookies(p) PROVE faults' = faults
    BY <2>4 DEF Serve, LoginLimit, LoginCreate, RefreshRotate, RevokeAll, OthersRevoke,
       ResetApply, Perform, Finish
  <2>5. faults' = faults \/ faults' = faults + 1
    BY <2>2, <2>3, <2>4 DEF Next, Reject, IssueResetToken, Crash, Tick, vars
  <2>6. Crash \/ (\E p \in Slots : Reject(p)) => faults' = faults + 1
    BY DEF Crash, Reject
  <2> QED BY <2>1, <2>5, <2>6
<1>3. ASSUME j \in Opened, LeavesTokens(j) PROVE TokensKnown(j)'
  BY <1>1, <1>2, <1>3, LeftTokensKnown DEF CauseInv
<1>4. ASSUME NEW p \in Slots, NEW k \in Jtis, LoginCreate(p, k) PROVE TokensKnown(j)'
  <2>1. CASE j = k
    BY <1>4, <2>1, CreateKnown DEF CauseInv
  <2>2. CASE j # k
    <3>1. j \in Opened
      BY <1>1, <1>4, <2>2 DEF LoginCreate, TypeOK, Opened
    <3> QED BY <1>1, <1>3, <1>4, <2>2, <3>1, CreateLeaves
  <2> QED BY <2>1, <2>2
<1>5. ASSUME \A p \in Slots, k \in Jtis : ~LoginCreate(p, k) PROVE j \in Opened
  <2>1. CASE RowsWane
    BY <1>1, <2>1 DEF RowsWane, Opened
  <2>2. ASSUME NEW p \in Slots, RefreshRotate(p) PROVE j \in Opened
    <3>1. row' = [row EXCEPT ![req[p].jti] = Rotated(req[p])] /\ row[j] \in Row
      BY <1>1, <2>2 DEF RefreshRotate, TypeOK
    <3> QED BY <1>1, <3>1 DEF Rotated, TypeOK, Row, Opened
  <2> QED BY <1>5, <2>1, <2>2, RowKinds
<1>6. ASSUME j \in Opened, NEW p \in Slots, NEW b \in Browsers, RefreshMatch(p, b)
      PROVE  TokensKnown(j)'
  BY <1>1, <1>2, <1>3, <1>6, MatchKnown, MatchLeaves DEF CauseInv
<1>7. ASSUME j \in Opened, NEW p \in Slots, RefreshRotate(p) PROVE TokensKnown(j)'
  BY <1>1, <1>2, <1>3, <1>7, RotateKnown, RotateLeaves DEF CauseInv
<1>8. ASSUME j \in Opened, NEW p \in Slots, Sign(p) PROVE TokensKnown(j)'
  BY <1>1, <1>2, <1>3, <1>8, SignKnown, SignLeaves DEF CauseInv
<1>9. ASSUME \A p \in Slots, k \in Jtis : ~LoginCreate(p, k) PROVE TokensKnown(j)'
  BY <1>1, <1>2, <1>3, <1>5, <1>6, <1>7, <1>8, <1>9, OthersLeave
<1> QED BY <1>4, <1>9

(* However many requests overlap, as long as nothing fails the theft alarm *)
(* sounds at an honest browser only if its cookies are of two sessions or  *)
(* two refreshes of its session overlapped.                                *)
THEOREM AlarmCauseCorrect == Spec => []AlarmHasCause
<1>1. Init => CauseInv
  BY DEF Init, CauseInv, HeldOpened, EmptyJar, NoToken, NoRow, Opened
<1>2. TypeOK /\ CauseInv => AlarmHasCause
  <2> SUFFICES ASSUME TypeOK, CauseInv, Quiet, faults = 0, NEW b \in Browsers,
                      Refreshable(b), ~Matches(b), jar[b].refresh.jti = jar[b].jti
               PROVE  row[jar[b].jti].ver < minted[jar[b].jti]
    BY DEF AlarmHasCause
  <2> DEFINE j == jar[b].jti
  <2>1. j \in Jtis /\ j \in Opened
    BY DEF Refreshable, TypeOK, Jar, Opened
  <2>2. TokensKnown(j)
    BY <2>1 DEF CauseInv
  <2>3. Bringing(j) = {}
    BY DEF Quiet, Free, Bringing
  <2>4. b \in Holders(j) /\ jar[b].refresh \in RefreshToken
    BY DEF Holders, TypeOK, Jar
  <2>5. jar[b].refresh.n # row[j].hash
    BY <2>4 DEF Matches, RefreshToken
  <2>6. ~Settled(j) /\ ~OneBringer(j)
    BY <2>3, <2>4, <2>5 DEF Settled, OneBringer
  <2> QED BY <2>2, <2>6 DEF TokensKnown, Overlapped
<1> QED BY <1>1, <1>2, CauseStep, TypeAndOwnership, PTL DEF Spec
=============================================================================

----------------------- MODULE SessionsReliableProofs -----------------------
(***************************************************************************)
(* Proofs about Sessions, continued: what holds while requests do not      *)
(* overlap and no statement is rejected, no process dies and no response   *)
(* is lost, for any number of users, browsers and sessions and for any     *)
(* limits and lifetimes.                                                   *)
(***************************************************************************)
EXTENDS SessionsSerialProofs

Reliable == MaxFaults = 0

NoGoogle == "google" \notin Ops

-----------------------------------------------------------------------------
(* The commands a request waits for. *)

Has(p, op) == \E c \in req[p].todo : c.op = op
Names(p, op, j) == \E c \in req[p].todo : c.op = op /\ j \in c.on

(* Which handler waits for which commands; `gone' is for failures only. *)
TodoOK(r) ==
  /\ r.pc # "gone"
  /\ r.pc \in {"idle", "limit", "rotate", "mismatch", "others", "reset"} => r.todo = {}
  /\ r.pc = "create" => \A c \in r.todo : c.op \in {"revokeRow", "blacklist"}
  /\ r.pc = "sign" => \A c \in r.todo : c.op \in {"cache", "list", "writeList"}
  /\ \A c \in r.todo : c.op \in {"cache", "list"} => r.pc = "sign" /\ c.on = {r.jti}

HandlersOK == \A p \in Slots : TodoOK(req[p])

LEMMA Delivered ==
  ASSUME Reliable, TypeOK, NEW b, NEW cookies, Respond(b, cookies)
  PROVE  jar' = [jar EXCEPT ![b] = cookies]
  BY DEF Reliable, Respond, TypeOK

(* What a step can be, when there is one slot and nothing fails. *)
LEMMA StepKinds ==
  ASSUME Serial, Reliable, TypeOK, NEW p \in Slots, [Next]_vars
  PROVE  \/ Arrive(p) \/ Serve(p) \/ Tick
         \/ \E u \in Users : IssueResetToken(u)
         \/ UNCHANGED vars
<1>1. \A q \in Slots : q = p
  BY DEF Serial
<1>2. ~Crash /\ ~Reject(p)
  BY DEF Reliable, Crash, Reject, TypeOK
<1> QED BY <1>1, <1>2 DEF Next

(* The slot when a store has performed one of its commands *)
LEMMA Performs ==
  ASSUME TypeOK, NEW p \in Slots, NEW c, Performed(p, c)
  PROVE  /\ req'[p].todo = req[p].todo \ {c}
         /\ req'[p].pc = req[p].pc
         /\ req'[p].user = req[p].user /\ req'[p].jti = req[p].jti
         /\ req'[p].by = req[p].by /\ req'[p].browser = req[p].browser
         /\ req'[p].tok = req[p].tok
         /\ req'[p].pwd = req[p].pwd /\ req'[p].targets = req[p].targets
<1>1. Goto(p, req[p].pc, req[p].todo \ {c})
  BY DEF Performed
<1> QED BY <1>1, GotoRequest

(* What a request that arrives hands over at once *)
LEMMA ArriveTodo ==
  ASSUME TypeOK, HandlersOK, NEW p \in Slots, Arrive(p)
  PROVE  /\ req[p].pc = "idle" /\ req[p].todo = {} /\ req'[p].pc # "gone"
         /\ \/ req'[p].todo = {}
            \/ /\ req'[p].pc \in {"clear", "done"}
               /\ \E j \in Jtis : req'[p].todo = RevocationOf(j)
         /\ UNCHANGED <<row, password, blacklist, cached, devices, access, late, dead, jar>>
<1>1. UNCHANGED <<row, password, blacklist, cached, devices, access, late, dead, jar>>
  BY DEF Arrive, LoginStart, RefreshMatch, RefreshMismatch, Logout, RevokeSession,
     LogoutOthers, ResetStart, stores, tokens
<1>2. Free(p)
  BY DEF Arrive, LoginStart, RefreshMatch, RefreshMismatch, Logout, RevokeSession,
     LogoutOthers, ResetStart, Start
<1>3. req[p].pc = "idle" /\ req[p].todo = {}
  BY <1>2 DEF Free, HandlersOK, TodoOK
<1>4. ASSUME NEW r, Start(p, r) PROVE req'[p] = r
  BY <1>4, Started
<1> DEFINE Hands == /\ req'[p].pc # "gone"
                    /\ \/ req'[p].todo = {}
                       \/ /\ req'[p].pc \in {"clear", "done"}
                          /\ \E j \in Jtis : req'[p].todo = RevocationOf(j)
<1>5. ASSUME NEW b \in Browsers, RefreshMatch(p, b) PROVE Hands
  <2>1. req'[p].todo = {} /\ req'[p].pc = "rotate"
    BY <1>4, <1>5 DEF RefreshMatch, Idle
  <2> QED BY <2>1
<1>6. ASSUME NEW b \in Browsers, RefreshMismatch(p, b) PROVE Hands
  <2>1. req'[p].todo = {} /\ req'[p].pc = "mismatch"
    BY <1>4, <1>6 DEF RefreshMismatch, Idle
  <2> QED BY <2>1
<1>7. ASSUME NEW b \in Browsers, NEW u \in Users, NEW by, LoginStart(p, b, u, by) PROVE Hands
  <2>1. req'[p].todo = {} /\ req'[p].pc = "limit"
    BY <1>4, <1>7 DEF LoginStart, Idle
  <2> QED BY <2>1
<1>8. ASSUME NEW b \in Browsers, Logout(p, b) PROVE Hands
  <2>1. req'[p].pc = "clear" /\ req'[p].todo = RevocationOf(jar[b].access)
    BY <1>4, <1>8 DEF Logout, Idle
  <2>2. jar[b].access \in Jtis
    BY <1>8 DEF Logout, TypeOK, Jar
  <2> QED BY <2>1, <2>2
<1>9. ASSUME NEW j \in Jtis, NEW target \in Jtis, RevokeSession(p, j, target) PROVE Hands
  <2>1. req'[p].pc = "done" /\ req'[p].todo = RevocationOf(target)
    BY <1>4, <1>9 DEF RevokeSession, Idle
  <2> QED BY <2>1
<1>10. ASSUME NEW j \in Jtis, LogoutOthers(p, j) PROVE Hands
  <2>1. req'[p].todo = {} /\ req'[p].pc = "others"
    BY <1>4, <1>10 DEF LogoutOthers, Idle
  <2> QED BY <2>1
<1>11. ASSUME NEW u \in Users, ResetStart(p, u) PROVE Hands
  <2>1. req'[p].todo = {} /\ req'[p].pc = "reset"
    BY <1>4, <1>11 DEF ResetStart, Idle
  <2> QED BY <2>1
<1>12. Hands
  <2> HIDE DEF Hands
  <2> QED BY <1>5, <1>6, <1>7, <1>8, <1>9, <1>10, <1>11 DEF Arrive
<1> QED BY <1>1, <1>3, <1>12

LEMMA HandlersStep ==
  ASSUME Serial, Reliable
  PROVE  TypeOK /\ HandlersOK /\ [Next]_vars => HandlersOK'
<1> SUFFICES ASSUME TypeOK, HandlersOK, [Next]_vars, NEW p \in Slots
             PROVE  TodoOK(req[p])'
  BY DEF HandlersOK
<1>0. TodoOK(req[p])
  BY DEF HandlersOK
<1>1. ASSUME req' = req PROVE TodoOK(req[p])'
  BY <1>0, <1>1 DEF TodoOK
<1>2. ASSUME req'[p].todo = {}, req'[p].pc # "gone" PROVE TodoOK(req[p])'
  BY <1>2 DEF TodoOK
<1>3. ASSUME req'[p].pc \in {"clear", "done"},
             \A c \in req'[p].todo : c.op \notin {"cache", "list"}
      PROVE  TodoOK(req[p])'
  BY <1>3 DEF TodoOK
<1>4. \A j : \A c \in RevocationOf(j) : c.op \notin {"cache", "list"}
  BY DEF RevocationOf, RevokeInRedis, Cmd
<1>5. ASSUME Arrive(p) PROVE TodoOK(req[p])'
  BY <1>2, <1>3, <1>4, <1>5, ArriveTodo
<1>6. ASSUME LoginLimit(p) PROVE TodoOK(req[p])'
  <2> DEFINE u == req[p].user
             todo == IF LimitReached(u) THEN Eviction(Oldest(u)) ELSE {}
  <2>1. \A c \in todo : c.op \in {"revokeRow", "blacklist"}
    BY DEF Eviction, RevokeInRedis, Cmd
  <2>2. Goto(p, "create", todo)
    BY <1>6 DEF LoginLimit
  <2> HIDE DEF todo
  <2>3. req'[p].pc = "create" /\ req'[p].todo = todo
    BY <2>2, GotoRequest
  <2> QED BY <2>1, <2>3 DEF TodoOK
<1>7. ASSUME NEW j \in Jtis, LoginCreate(p, j) PROVE TodoOK(req[p])'
  <2>1. /\ req'[p].pc = "sign" /\ req'[p].jti = j
        /\ req'[p].todo = {Cmd("cache", {j}), Cmd("list", {j})}
    BY <1>7, Created
  <2> QED BY <2>1 DEF TodoOK, Cmd
<1>8. ASSUME RefreshRotate(p) PROVE TodoOK(req[p])'
  <2>1. Goto(p, "sign", {Cmd("cache", {req[p].jti})})
    BY <1>8 DEF RefreshRotate
  <2>2. /\ req'[p].pc = "sign" /\ req'[p].jti = req[p].jti
        /\ req'[p].todo = {Cmd("cache", {req[p].jti})}
    BY <2>1, GotoRequest
  <2> QED BY <2>2 DEF TodoOK, Cmd
<1>9. ASSUME NEW todo, Goto(p, "done", todo), \A c \in todo : c.op \notin {"cache", "list"}
      PROVE  TodoOK(req[p])'
  BY <1>3, <1>9, GotoRequest
<1>10. ASSUME RevokeAll(p) PROVE TodoOK(req[p])'
  BY <1>9, <1>10 DEF RevokeAll, RevokeInRedis, Cmd
<1>11. ASSUME OthersRevoke(p) PROVE TodoOK(req[p])'
  BY <1>9, <1>11 DEF OthersRevoke, RevokeInRedis, Cmd
<1>12. ASSUME ResetApply(p) PROVE TodoOK(req[p])'
  BY <1>9, <1>12 DEF ResetApply, ResetCommands, RevokeInRedis, Cmd
<1>13. ASSUME Perform(p) PROVE TodoOK(req[p])'
  <2>1. PICK c \in req[p].todo : Performed(p, c) \/ PerformReadList(p, c)
    BY <1>13 DEF Perform, PerformRevokeRow, PerformRevokeRows, PerformSetPassword,
       PerformDropToken, PerformBlacklist, PerformCache, PerformWriteList
  <2>2. CASE Performed(p, c)
    BY <1>0, <2>2, Performs DEF TodoOK
  <2>3. CASE PerformReadList(p, c)
    <3> DEFINE W == WritesAfter(c, devices[req[p].user])
    <3>1. \A d \in W : d.op = "writeList"
      BY DEF WritesAfter, WriteList
    <3>2. Goto(p, req[p].pc, (req[p].todo \ {c}) \cup W) /\ c.op \in {"list", "unlist"}
      BY <2>3 DEF PerformReadList
    <3> HIDE DEF W
    <3>3. /\ req'[p].pc = req[p].pc /\ req'[p].jti = req[p].jti
          /\ req'[p].todo = (req[p].todo \ {c}) \cup W
      BY <3>2, GotoRequest
    <3>4. req[p].pc \notin {"idle", "limit", "rotate", "mismatch", "others", "reset", "create"}
      BY <1>0, <3>2 DEF TodoOK
    <3> QED BY <1>0, <3>1, <3>3, <3>4 DEF TodoOK
  <2> QED BY <2>1, <2>2, <2>3
<1>14. ASSUME Sign(p) \/ ClearCookies(p) \/ Finish(p) PROVE TodoOK(req[p])'
  BY <1>2, <1>14, Ended DEF Idle
<1>15. ASSUME Serve(p) PROVE TodoOK(req[p])'
  BY <1>6, <1>7, <1>8, <1>10, <1>11, <1>12, <1>13, <1>14, <1>15 DEF Serve
<1>16. ASSUME Tick \/ (\E u \in Users : IssueResetToken(u)) \/ UNCHANGED vars
       PROVE  req' = req
  BY <1>16 DEF Tick, IssueResetToken, vars
<1> QED BY <1>1, <1>5, <1>15, <1>16, StepKinds

-----------------------------------------------------------------------------
(* Revocation and blacklist. *)

RevokePending(p, j) ==
  \/ Names(p, "revokeRow", j)
  \/ Has(p, "revokeRows") /\ j \in Unrevoked(req[p].user)

Doomed(p, j) == row[j].revoked \/ RevokePending(p, j)

(* RevokedIsBlocked is about the moments between requests: inside one, the *)
(* sessions revoked or about to be are those blacklisted or about to be.   *)
RevokedTogether(p) ==
  \A j \in Jtis :
    /\ Doomed(p, j) => Names(p, "blacklist", j) \/ (j \in dead /\ cached[j] = 0)
    /\ Names(p, "blacklist", j) \/ j \in dead => Doomed(p, j)

(* A token is about to be signed for a good session only, and logout-others *)
(* still finds the sessions it read.                                       *)
SignsForGood(r) == r.pc \in {"rotate", "sign"} => ~row[r.jti].revoked
TargetsStay(r) == r.pc = "others" => r.targets = OthersOf(r)

RevocationOK ==
  /\ HandlersOK /\ RevokedOpened
  /\ \A j \in Jtis : late[j] = 0
  /\ \A p \in Slots : RevokedTogether(p) /\ SignsForGood(req[p]) /\ TargetsStay(req[p])

LEMMA RevocationInit == Init => RevocationOK
  BY DEF Init, RevocationOK, HandlersOK, TodoOK, RevokedOpened, RevokedTogether,
     SignsForGood, TargetsStay, Doomed, RevokePending, Names, Has, NoRow, Idle

(* What RedisService.revokeSession is asked for a set of sessions *)
LEMMA RevokeInRedisNames ==
  ASSUME NEW S
  PROVE  /\ \A c \in RevokeInRedis(S) : c.op = "blacklist"
         /\ \A j : (\E c \in RevokeInRedis(S) : c.op = "blacklist" /\ j \in c.on) <=> j \in S
<1>1. CASE S = {}
  BY <1>1 DEF RevokeInRedis
<1>2. CASE S # {}
  <2> DEFINE d == Cmd("blacklist", S)
  <2>1. RevokeInRedis(S) = {d}
    BY <1>2 DEF RevokeInRedis
  <2>2. d.op = "blacklist" /\ d.on = S
    BY DEF Cmd
  <2> HIDE DEF d
  <2> QED BY <2>1, <2>2
<1> QED BY <1>1, <1>2

(* A step between two waits that touches no revocation *)
LEMMA NothingRevoked ==
  ASSUME NEW p \in Slots, RevokedTogether(p), req[p].todo = {},
         \A j \in Jtis : row'[j].revoked = row[j].revoked,
         \A c \in req'[p].todo : c.op \in {"cache", "list"},
         dead' = dead, cached' = cached
  PROVE  RevokedTogether(p)'
<1>1. ASSUME NEW j \in Jtis
      PROVE  /\ Doomed(p, j) <=> row[j].revoked
             /\ Doomed(p, j)' <=> row[j].revoked
             /\ ~Names(p, "blacklist", j) /\ ~Names(p, "blacklist", j)'
  BY DEF Doomed, RevokePending, Names, Has
<1> QED BY <1>1 DEF RevokedTogether

(* A handler hands over what revokes a set of sessions. *)
LEMMA HandsOver ==
  ASSUME NEW p \in Slots, RevokedTogether(p), req[p].todo = {}, NEW S,
         \A j \in Jtis : Doomed(p, j)' <=> (row[j].revoked \/ j \in S),
         \A j \in Jtis : Names(p, "blacklist", j)' <=> j \in S,
         dead' = dead, cached' = cached
  PROVE  RevokedTogether(p)'
<1>1. ASSUME NEW j \in Jtis
      PROVE  /\ Doomed(p, j) <=> row[j].revoked
             /\ ~Names(p, "blacklist", j)
  BY DEF Doomed, RevokePending, Names, Has
<1> QED BY <1>1 DEF RevokedTogether

(* Performing a command changes no session's fate. *)
LEMMA FateKept ==
  ASSUME TypeOK, NEW p \in Slots, NEW c \in req[p].todo,
         \/ PerformRevokeRow(p, c)
         \/ PerformRevokeRows(p, c)
         \/ Performed(p, c) /\ row' = row /\ ~RevokesRows(c)
         \/ PerformReadList(p, c)
  PROVE  \A j \in Jtis : Doomed(p, j)' <=> Doomed(p, j)
<1> SUFFICES ASSUME NEW j \in Jtis PROVE Doomed(p, j)' <=> Doomed(p, j)
  OBVIOUS
<1>1. CASE PerformRevokeRow(p, c)
  <2>1. /\ req'[p].todo = req[p].todo \ {c} /\ req'[p].user = req[p].user
        /\ c.op = "revokeRow"
    BY <1>1, Performs DEF PerformRevokeRow
  <2>2. \A k \in Jtis : /\ row'[k].user = row[k].user
                        /\ row'[k].revoked = (row[k].revoked \/ k \in c.on)
    BY <1>1, RevokedRows DEF PerformRevokeRow
  <2>3. Names(p, "revokeRow", j) <=> Names(p, "revokeRow", j)' \/ j \in c.on
    BY <2>1 DEF Names
  <2>4. Has(p, "revokeRows")' <=> Has(p, "revokeRows")
    BY <2>1 DEF Has
  <2>5. j \in Unrevoked(req[p].user)' <=> j \in Unrevoked(req[p].user) /\ j \notin c.on
    BY <2>1, <2>2 DEF Unrevoked, Owned
  <2> QED BY <2>2, <2>3, <2>4, <2>5 DEF Doomed, RevokePending
<1>2. CASE PerformRevokeRows(p, c)
  <2>1. /\ req'[p].todo = req[p].todo \ {c} /\ req'[p].user = req[p].user
        /\ c.op = "revokeRows"
    BY <1>2, Performs DEF PerformRevokeRows
  <2>2. \A k \in Jtis :
          /\ row'[k].user = row[k].user
          /\ row'[k].revoked = (row[k].revoked \/ k \in Unrevoked(req[p].user))
    BY <1>2, RevokedRows DEF PerformRevokeRows
  <2>3. Names(p, "revokeRow", j)' <=> Names(p, "revokeRow", j)
    BY <2>1 DEF Names
  <2>4. Has(p, "revokeRows")
    BY <2>1 DEF Has
  <2>5. j \notin Unrevoked(req[p].user)'
    BY <2>1, <2>2 DEF Unrevoked, Owned
  <2> QED BY <2>2, <2>3, <2>4, <2>5 DEF Doomed, RevokePending
<1>3. ASSUME \A d : RevokesRows(d) => (d \in req'[p].todo <=> d \in req[p].todo),
             row' = row, req'[p].user = req[p].user
      PROVE  Doomed(p, j)' <=> Doomed(p, j)
  <2>1. Names(p, "revokeRow", j)' <=> Names(p, "revokeRow", j)
    BY <1>3 DEF Names, RevokesRows
  <2>2. Has(p, "revokeRows")' <=> Has(p, "revokeRows")
    BY <1>3 DEF Has, RevokesRows
  <2>3. j \in Unrevoked(req[p].user)' <=> j \in Unrevoked(req[p].user)
    BY <1>3 DEF Unrevoked, Owned
  <2> QED BY <1>3, <2>1, <2>2, <2>3 DEF Doomed, RevokePending
<1>4. CASE Performed(p, c) /\ row' = row /\ ~RevokesRows(c)
  BY <1>3, <1>4, Performs
<1>5. CASE PerformReadList(p, c)
  <2> DEFINE W == WritesAfter(c, devices[req[p].user])
  <2>1. \A d \in W : ~RevokesRows(d)
    BY DEF WritesAfter, WriteList, RevokesRows
  <2>2. /\ Goto(p, req[p].pc, (req[p].todo \ {c}) \cup W) /\ ~RevokesRows(c)
        /\ row' = row
    BY <1>5 DEF PerformReadList, RevokesRows, stores
  <2> HIDE DEF W
  <2>3. /\ req'[p].user = req[p].user
        /\ req'[p].todo = (req[p].todo \ {c}) \cup W
    BY <2>2, GotoRequest
  <2> QED BY <1>3, <2>1, <2>2, <2>3
<1> QED BY <1>1, <1>2, <1>4, <1>5

(* The commands a store performs, for what revocation is concerned *)
LEMMA PerformKinds ==
  ASSUME NEW p, Perform(p)
  PROVE  \E c \in req[p].todo :
           \/ PerformRevokeRow(p, c) \/ PerformRevokeRows(p, c)
           \/ PerformBlacklist(p, c) /\ row' = row
           \/ PerformCache(p, c) /\ row' = row
           \/ PerformReadList(p, c)
           \/ /\ Performed(p, c) /\ c.op \in {"setPassword", "dropToken", "writeList"}
              /\ UNCHANGED <<row, dead, cached>>
  BY DEF Perform, PerformSetPassword, PerformDropToken, PerformWriteList,
     PerformBlacklist, PerformCache

LEMMA TogetherPerforms ==
  ASSUME TypeOK, RevocationOK, NEW p \in Slots, Perform(p)
  PROVE  RevokedTogether(p)'
<1>0. RevokedTogether(p) /\ TodoOK(req[p]) /\ SignsForGood(req[p])
  BY DEF RevocationOK, HandlersOK
<1>1. PICK c \in req[p].todo :
           \/ PerformRevokeRow(p, c) \/ PerformRevokeRows(p, c)
           \/ PerformBlacklist(p, c) /\ row' = row
           \/ PerformCache(p, c) /\ row' = row
           \/ PerformReadList(p, c)
           \/ /\ Performed(p, c) /\ c.op \in {"setPassword", "dropToken", "writeList"}
              /\ UNCHANGED <<row, dead, cached>>
  BY PerformKinds
<1>2. \A j \in Jtis : Doomed(p, j)' <=> Doomed(p, j)
  BY <1>1, FateKept DEF PerformBlacklist, PerformCache, RevokesRows
<1>3. CASE PerformBlacklist(p, c)
  <2>1. c.op = "blacklist" /\ req'[p].todo = req[p].todo \ {c}
    BY <1>3, Performs DEF PerformBlacklist
  <2>2. /\ dead' = dead \cup c.on
        /\ \A j \in Jtis : cached'[j] = IF j \in c.on THEN 0 ELSE cached[j]
    BY <1>3 DEF PerformBlacklist
  <2>3. \A j \in Jtis : Names(p, "blacklist", j) <=> Names(p, "blacklist", j)' \/ j \in c.on
    BY <2>1 DEF Names
  <2> QED BY <1>0, <1>2, <2>2, <2>3 DEF RevokedTogether
<1>4. ASSUME Performed(p, c) \/ PerformReadList(p, c), c.op # "blacklist"
      PROVE  \A j \in Jtis : Names(p, "blacklist", j)' <=> Names(p, "blacklist", j)
  <2>1. CASE Performed(p, c)
    BY <1>4, <2>1, Performs DEF Names
  <2>2. CASE PerformReadList(p, c)
    <3> DEFINE W == WritesAfter(c, devices[req[p].user])
    <3>1. \A d \in W : d.op # "blacklist"
      BY DEF WritesAfter, WriteList
    <3>2. Goto(p, req[p].pc, (req[p].todo \ {c}) \cup W)
      BY <2>2 DEF PerformReadList
    <3> HIDE DEF W
    <3>3. req'[p].todo = (req[p].todo \ {c}) \cup W
      BY <3>2, GotoRequest
    <3> QED BY <1>4, <3>1, <3>3 DEF Names
  <2> QED BY <1>4, <2>1, <2>2
<1>5. CASE PerformCache(p, c)
  <2>1. c.op = "cache" /\ dead' = dead
    BY <1>5 DEF PerformCache
  <2>2. req[p].pc = "sign" /\ c.on = {req[p].jti}
    BY <1>0, <2>1 DEF TodoOK
  <2>3. \A j \in Jtis : j # req[p].jti => cached'[j] = cached[j]
    BY <1>5, <2>2 DEF PerformCache
  <2>4. ~Doomed(p, req[p].jti)
    BY <1>0, <2>2 DEF TodoOK, SignsForGood, Doomed, RevokePending, Names, Has
  <2>5. \A j \in Jtis : Names(p, "blacklist", j)' <=> Names(p, "blacklist", j)
    BY <1>4, <1>5, <2>1 DEF PerformCache
  <2> QED BY <1>0, <1>2, <2>1, <2>3, <2>4, <2>5 DEF RevokedTogether
<1>6. CASE \/ PerformRevokeRow(p, c) \/ PerformRevokeRows(p, c)
           \/ PerformReadList(p, c)
           \/ /\ Performed(p, c) /\ c.op \in {"setPassword", "dropToken", "writeList"}
              /\ UNCHANGED <<row, dead, cached>>
  <2>1. dead' = dead /\ cached' = cached
    BY <1>6 DEF PerformRevokeRow, PerformRevokeRows, PerformReadList, stores
  <2>2. \A j \in Jtis : Names(p, "blacklist", j)' <=> Names(p, "blacklist", j)
    BY <1>4, <1>6 DEF PerformRevokeRow, PerformRevokeRows, PerformReadList
  <2> QED BY <1>0, <1>2, <2>1, <2>2 DEF RevokedTogether
<1> QED BY <1>1, <1>3, <1>5, <1>6

LEMMA HandsBlacklist ==
  ASSUME NEW p, NEW X, NEW S, req'[p].todo = X \cup RevokeInRedis(S),
         \A c \in X : c.op # "blacklist"
  PROVE  /\ \A j : Names(p, "blacklist", j)' <=> j \in S
         /\ \A c : RevokesRows(c) => (c \in req'[p].todo <=> c \in X)
<1>1. /\ \A c \in RevokeInRedis(S) : c.op = "blacklist"
      /\ \A j : (\E c \in RevokeInRedis(S) : c.op = "blacklist" /\ j \in c.on) <=> j \in S
  BY RevokeInRedisNames
<1>2. ASSUME NEW j PROVE Names(p, "blacklist", j)' <=> j \in S
  BY <1>1 DEF Names
<1> QED BY <1>1, <1>2 DEF RevokesRows

(* logout, revokeSession and an eviction *)
LEMMA HandsRevokeRow ==
  ASSUME NEW p \in Slots, RevokedTogether(p), req[p].todo = {}, NEW S, NEW X,
         req'[p].todo = ({Cmd("revokeRow", S)} \cup X) \cup RevokeInRedis(S),
         \A c \in X : c.op = "unlist",
         row' = row, dead' = dead, cached' = cached
  PROVE  RevokedTogether(p)'
<1> DEFINE Y == {Cmd("revokeRow", S)} \cup X
<1>1. /\ \A c \in Y : c.op # "blacklist"
      /\ \A c \in Y : c.op # "revokeRows"
      /\ \A j : (\E c \in Y : c.op = "revokeRow" /\ j \in c.on) <=> j \in S
  <2> DEFINE d == Cmd("revokeRow", S)
  <2>1. d.op = "revokeRow" /\ d.on = S
    BY DEF Cmd
  <2>2. Y = {d} \cup X
    OBVIOUS
  <2> HIDE DEF d, Y
  <2> QED BY <2>1, <2>2
<1> HIDE DEF Y
<1>2. /\ \A j : Names(p, "blacklist", j)' <=> j \in S
      /\ \A c : RevokesRows(c) => (c \in req'[p].todo <=> c \in Y)
  <2>1. req'[p].todo = Y \cup RevokeInRedis(S)
    BY DEF Y
  <2> QED BY <1>1, <2>1, HandsBlacklist
<1>3. ASSUME NEW j \in Jtis PROVE Doomed(p, j)' <=> (row[j].revoked \/ j \in S)
  <2>1. ~Has(p, "revokeRows")'
    BY <1>1, <1>2 DEF Has, RevokesRows
  <2>2. Names(p, "revokeRow", j)' <=> j \in S
    BY <1>1, <1>2 DEF Names, RevokesRows
  <2> QED BY <2>1, <2>2 DEF Doomed, RevokePending
<1> QED BY <1>2, <1>3, HandsOver

(* revokeAllUserSessions and a password reset *)
LEMMA HandsRevokeRows ==
  ASSUME NEW p \in Slots, RevokedTogether(p), req[p].todo = {}, NEW X,
         req'[p].todo = ({Cmd("revokeRows", {})} \cup X)
                          \cup RevokeInRedis(Unrevoked(req[p].user)),
         req'[p].user = req[p].user,
         \A c \in X : c.op \in {"setPassword", "dropToken"},
         row' = row, dead' = dead, cached' = cached
  PROVE  RevokedTogether(p)'
<1>0. PICK S : S = Unrevoked(req[p].user)
  OBVIOUS
<1> DEFINE Y == {Cmd("revokeRows", {})} \cup X
<1>1. /\ \A c \in Y : c.op # "blacklist"
      /\ \A c \in Y : c.op # "revokeRow"
      /\ \E c \in Y : c.op = "revokeRows"
  <2> DEFINE d == Cmd("revokeRows", {})
  <2>1. d.op = "revokeRows"
    BY DEF Cmd
  <2>2. Y = {d} \cup X
    OBVIOUS
  <2> HIDE DEF d, Y
  <2> QED BY <2>1, <2>2
<1> HIDE DEF Y
<1>2. /\ \A j : Names(p, "blacklist", j)' <=> j \in S
      /\ \A c : RevokesRows(c) => (c \in req'[p].todo <=> c \in Y)
  <2>1. req'[p].todo = Y \cup RevokeInRedis(S)
    BY <1>0 DEF Y
  <2> QED BY <1>1, <2>1, HandsBlacklist
<1>3. ASSUME NEW j \in Jtis PROVE Doomed(p, j)' <=> (row[j].revoked \/ j \in S)
  <2>1. Has(p, "revokeRows")'
    BY <1>1, <1>2 DEF Has, RevokesRows
  <2>2. ~Names(p, "revokeRow", j)'
    BY <1>1, <1>2 DEF Names, RevokesRows
  <2>3. j \in Unrevoked(req[p].user)' <=> j \in S
    BY <1>0 DEF Unrevoked, Owned
  <2> QED BY <2>1, <2>2, <2>3 DEF Doomed, RevokePending
<1> QED BY <1>2, <1>3, HandsOver

LEMMA TogetherStep ==
  ASSUME Serial, Reliable
  PROVE  TypeOK /\ RequestsOwnSessions /\ RevocationOK /\ [Next]_vars
           => \A p \in Slots : RevokedTogether(p)'
<1> SUFFICES ASSUME TypeOK, RequestsOwnSessions, RevocationOK, [Next]_vars, NEW p \in Slots
             PROVE  RevokedTogether(p)'
  OBVIOUS
<1>0. RevokedTogether(p) /\ TodoOK(req[p]) /\ TargetsStay(req[p])
  BY DEF RevocationOK, HandlersOK
<1>1. ASSUME req[p].todo = {}, req'[p].todo = {}, row' = row, dead' = dead, cached' = cached
      PROVE  RevokedTogether(p)'
  BY <1>0, <1>1, NothingRevoked
<1>2. ASSUME Arrive(p) PROVE RevokedTogether(p)'
  <2>1. /\ UNCHANGED <<row, dead, cached>> /\ req[p].todo = {}
        /\ req'[p].todo = {} \/ \E j \in Jtis : req'[p].todo = RevocationOf(j)
    BY <1>2, ArriveTodo DEF RevocationOK
  <2>2. ASSUME NEW j \in Jtis, req'[p].todo = RevocationOf(j) PROVE RevokedTogether(p)'
    <3> DEFINE X == {Cmd("unlist", {j})}
    <3>1. \A c \in X : c.op = "unlist"
      BY DEF Cmd
    <3>2. req'[p].todo = ({Cmd("revokeRow", {j})} \cup X) \cup RevokeInRedis({j})
      BY <2>2 DEF RevocationOf
    <3> HIDE DEF X
    <3> QED BY <1>0, <2>1, <3>1, <3>2, HandsRevokeRow
  <2> QED BY <1>1, <2>1, <2>2
<1>3. ASSUME LoginLimit(p) PROVE RevokedTogether(p)'
  <2>0. UNCHANGED <<row, dead, cached>> /\ req[p].todo = {}
    BY <1>3 DEF LoginLimit, stores, tokens, At
  <2> DEFINE S == Oldest(req[p].user)
             todo == IF LimitReached(req[p].user) THEN Eviction(S) ELSE {}
  <2>1. Goto(p, "create", todo)
    BY <1>3 DEF LoginLimit
  <2>2. todo = {} \/ todo = ({Cmd("revokeRow", S)} \cup {}) \cup RevokeInRedis(S)
    BY DEF Eviction
  <2> HIDE DEF todo, S
  <2>3. req'[p].todo = todo
    BY <2>1, GotoRequest
  <2>4. CASE todo = {}
    BY <1>1, <2>0, <2>3, <2>4
  <2>5. CASE todo = ({Cmd("revokeRow", S)} \cup {}) \cup RevokeInRedis(S)
    <3>1. PICK T : T = S
      OBVIOUS
    <3>2. req'[p].todo = ({Cmd("revokeRow", T)} \cup {}) \cup RevokeInRedis(T)
      BY <2>3, <2>5, <3>1
    <3> QED BY <1>0, <2>0, <3>2, HandsRevokeRow
  <2> QED BY <2>2, <2>4, <2>5
<1>4. ASSUME NEW j \in Jtis, LoginCreate(p, j) PROVE RevokedTogether(p)'
  <2>1. UNCHANGED <<dead, cached>>
    BY <1>4 DEF LoginCreate
  <2>2. /\ req[p].todo = {} /\ req'[p].todo = {Cmd("cache", {j}), Cmd("list", {j})}
        /\ row[j].user = None /\ ~row'[j].revoked
        /\ \A k \in Jtis : k # j => row'[k] = row[k]
    BY <1>4, Created
  <2>3. ~row[j].revoked
    BY <2>2 DEF RevocationOK, RevokedOpened
  <2>4. row[j] \in Row /\ row'[j] \in Row
    BY TypeStep DEF TypeOK
  <2>5. \A k \in Jtis : row'[k].revoked = row[k].revoked
    BY <2>2, <2>3, <2>4 DEF Row
  <2>6. \A c \in req'[p].todo : c.op \in {"cache", "list"}
    BY <2>2 DEF Cmd
  <2> QED BY <1>0, <2>1, <2>2, <2>5, <2>6, NothingRevoked
<1>5. ASSUME Sign(p) \/ ClearCookies(p) \/ Finish(p) PROVE RevokedTogether(p)'
  <2>1. UNCHANGED <<row, dead, cached>>
    BY <1>5 DEF Sign, ClearCookies, Finish, stores, tokens
  <2>2. req[p].todo = {} /\ req'[p].todo = {}
    BY <1>5, Ended DEF Idle
  <2> QED BY <1>1, <2>1, <2>2
<1>6. ASSUME RefreshRotate(p) PROVE RevokedTogether(p)'
  <2>1. /\ UNCHANGED <<dead, cached>> /\ req[p].todo = {}
        /\ row' = [row EXCEPT ![req[p].jti] = Rotated(req[p])]
        /\ Goto(p, "sign", {Cmd("cache", {req[p].jti})})
    BY <1>6 DEF RefreshRotate, tokens, At
  <2>2. req'[p].todo = {Cmd("cache", {req[p].jti})}
    BY <2>1, GotoRequest
  <2>3. \A c \in req'[p].todo : c.op \in {"cache", "list"}
    BY <2>2 DEF Cmd
  <2>4. \A k \in Jtis : row[k] \in Row
    BY DEF TypeOK
  <2>5. \A k \in Jtis : row'[k].revoked = row[k].revoked
    BY <2>1, <2>4 DEF Rotated, TypeOK, Row
  <2> QED BY <1>0, <2>1, <2>3, <2>5, NothingRevoked
<1>7. ASSUME RevokeAll(p) PROVE RevokedTogether(p)'
  <2> DEFINE todo == ({Cmd("revokeRows", {})} \cup {}) \cup RevokeInRedis(Unrevoked(req[p].user))
  <2>1. /\ UNCHANGED <<row, dead, cached>> /\ req[p].todo = {}
        /\ Goto(p, "done", todo)
    BY <1>7 DEF RevokeAll, stores, tokens, At
  <2>2. req'[p].todo = todo /\ req'[p].user = req[p].user
    <3> HIDE DEF todo
    <3> QED BY <2>1, GotoRequest
  <2> QED BY <1>0, <2>1, <2>2, HandsRevokeRows
<1>8. ASSUME ResetApply(p) PROVE RevokedTogether(p)'
  <2> DEFINE X == {Cmd("setPassword", {}), Cmd("dropToken", {})}
             todo == ({Cmd("revokeRows", {})} \cup X) \cup RevokeInRedis(Unrevoked(req[p].user))
  <2>1. /\ UNCHANGED <<row, dead, cached>> /\ req[p].todo = {}
        /\ Goto(p, "done", ResetCommands(req[p].user))
    BY <1>8 DEF ResetApply, stores, tokens, At
  <2>2. ResetCommands(req[p].user) = todo
    BY DEF ResetCommands
  <2>3. req'[p].todo = todo /\ req'[p].user = req[p].user
    <3> HIDE DEF todo
    <3> QED BY <2>1, <2>2, GotoRequest
  <2>4. \A c \in X : c.op \in {"setPassword", "dropToken"}
    BY DEF Cmd
  <2> HIDE DEF X
  <2> QED BY <1>0, <2>1, <2>3, <2>4, HandsRevokeRows
<1>9. ASSUME OthersRevoke(p) PROVE RevokedTogether(p)'
  <2>0. PICK S : S = req[p].targets
    OBVIOUS
  <2> DEFINE X == {Cmd("unlist", S)}
  <2>1. /\ UNCHANGED <<dead, cached>> /\ req[p].todo = {} /\ S = OthersOf(req[p])
        /\ row' = RevokeRows(S) /\ Goto(p, "done", X \cup RevokeInRedis(S))
    BY <1>0, <1>9, <2>0 DEF OthersRevoke, tokens, At, TargetsStay
  <2>2. \A k \in Jtis : row'[k].revoked = (row[k].revoked \/ k \in S)
    BY <2>1, RevokedRows
  <2>3. \A c \in X : c.op = "unlist"
    BY DEF Cmd
  <2> HIDE DEF X
  <2>4. req'[p].todo = X \cup RevokeInRedis(S)
    BY <2>1, GotoRequest
  <2>5. \A c \in X : c.op # "blacklist"
    BY <2>3
  <2>6. /\ \A j : Names(p, "blacklist", j)' <=> j \in S
        /\ \A c : RevokesRows(c) => (c \in req'[p].todo <=> c \in X)
    BY <2>4, <2>5, HandsBlacklist
  <2>7. \A c \in req'[p].todo : ~RevokesRows(c)
    BY <2>3, <2>6 DEF RevokesRows
  <2>8. ASSUME NEW j \in Jtis PROVE Doomed(p, j)' <=> (row[j].revoked \/ j \in S)
    <3>1. ~Has(p, "revokeRows")' /\ ~Names(p, "revokeRow", j)'
      BY <2>7 DEF Has, Names, RevokesRows
    <3> QED BY <2>2, <3>1 DEF Doomed, RevokePending
  <2> QED BY <1>0, <2>1, <2>6, <2>8, HandsOver
<1>10. ASSUME Perform(p) PROVE RevokedTogether(p)'
  BY <1>10, TogetherPerforms
<1>11. ASSUME Serve(p) PROVE RevokedTogether(p)'
  BY <1>3, <1>4, <1>5, <1>6, <1>7, <1>8, <1>9, <1>10, <1>11 DEF Serve
<1>12. ASSUME req' = req, dead' = dead, \A j \in Jtis : cached[j] = 0 => cached'[j] = 0,
              \A j \in Jtis : row'[j].revoked = row[j].revoked /\ row'[j].user = row[j].user
       PROVE  RevokedTogether(p)'
  <2>1. ASSUME NEW j \in Jtis
        PROVE  /\ Doomed(p, j)' <=> Doomed(p, j)
               /\ Names(p, "blacklist", j)' <=> Names(p, "blacklist", j)
    BY <1>12 DEF Doomed, RevokePending, Names, Has, Unrevoked, Owned
  <2> QED BY <1>0, <1>12, <2>1 DEF RevokedTogether
<1>13. ASSUME Tick PROVE RevokedTogether(p)'
  <2>1. \A j \in Jtis : row'[j].revoked = row[j].revoked /\ row'[j].user = row[j].user
    <3>1. \A j \in Jtis : row[j] \in Row
      BY DEF TypeOK
    <3> QED BY <1>13, <3>1 DEF Tick, Row
  <2> QED BY <1>12, <1>13, <2>1 DEF Tick, Dec
<1>14. ASSUME (\E u \in Users : IssueResetToken(u)) \/ UNCHANGED vars PROVE RevokedTogether(p)'
  BY <1>12, <1>14 DEF IssueResetToken, vars, stores, tokens
<1> QED BY <1>2, <1>11, <1>13, <1>14, StepKinds

(* Tokens are signed for good sessions only, *)
LEMMA SignsForGoodStep ==
  ASSUME Serial, Reliable
  PROVE  TypeOK /\ RequestsOwnSessions /\ RevocationOK /\ [Next]_vars
           => \A p \in Slots : SignsForGood(req[p])'
<1> SUFFICES ASSUME TypeOK, RequestsOwnSessions, RevocationOK, [Next]_vars, NEW p \in Slots,
                    req'[p].pc \in {"rotate", "sign"}
             PROVE  ~row'[req'[p].jti].revoked
  BY DEF SignsForGood
<1>0. SignsForGood(req[p]) /\ TodoOK(req[p])
  BY DEF RevocationOK, HandlersOK
<1>a. req[p].pc \in {"rotate", "sign"} => req[p].jti \in Jtis
  BY DEF RequestsOwnSessions, ActsForOneUser, Idle, TypeOK, Request
<1>1. ASSUME Arrive(p) PROVE ~row'[req'[p].jti].revoked
  <2>1. PICK b \in Browsers : RefreshMatch(p, b)
    BY <1>1, ArrivePc
  <2>2. req'[p].jti = jar[b].jti /\ row' = row
    BY <2>1, Started DEF RefreshMatch, Start, TypeOK, Idle, stores
  <2> QED BY <2>1, <2>2 DEF RefreshMatch, Refreshable
<1>2. ASSUME NEW j \in Jtis, LoginCreate(p, j) PROVE ~row'[req'[p].jti].revoked
  BY <1>2, Created
<1>3. ASSUME RefreshRotate(p) PROVE ~row'[req'[p].jti].revoked
  <2>1. /\ row' = [row EXCEPT ![req[p].jti] = Rotated(req[p])] /\ req[p].pc = "rotate"
        /\ Goto(p, "sign", {Cmd("cache", {req[p].jti})})
    BY <1>3 DEF RefreshRotate, At
  <2>2. req'[p].jti = req[p].jti
    BY <2>1, GotoRequest
  <2>3. row[req[p].jti] \in Row
    BY <1>a, <2>1 DEF TypeOK
  <2>4. row'[req[p].jti].revoked = row[req[p].jti].revoked
    BY <1>a, <2>1, <2>3 DEF Rotated, TypeOK, Row
  <2> QED BY <1>0, <2>1, <2>2, <2>4 DEF SignsForGood
<1>4. ASSUME Perform(p) PROVE ~row'[req'[p].jti].revoked
  <2>1. req[p].todo # {} /\ req'[p].pc = req[p].pc /\ req'[p].jti = req[p].jti
    BY <1>4, PerformFields
  <2>2. req[p].pc = "sign" /\ \A c \in req[p].todo : ~RevokesRows(c)
    BY <1>0, <2>1 DEF TodoOK, RevokesRows
  <2>3. row' = row
    BY <1>4, <2>2, PerformKinds
       DEF PerformRevokeRow, PerformRevokeRows, PerformReadList, RevokesRows, stores
  <2> QED BY <1>0, <2>1, <2>2, <2>3 DEF SignsForGood
<1>5. ASSUME Sign(p) \/ ClearCookies(p) \/ Finish(p) PROVE FALSE
  BY <1>5, Ended DEF Idle
<1>6. ASSUME LoginLimit(p) \/ RevokeAll(p) \/ OthersRevoke(p) \/ ResetApply(p) PROVE FALSE
  <2>1. PICK pc \in {"create", "done"} : \E todo : Goto(p, pc, todo)
    BY <1>6 DEF LoginLimit, RevokeAll, OthersRevoke, ResetApply
  <2>2. PICK todo : Goto(p, pc, todo)
    BY <2>1
  <2> QED BY <2>1, <2>2, GotoRequest
<1>7. ASSUME Serve(p) PROVE ~row'[req'[p].jti].revoked
  BY <1>2, <1>3, <1>4, <1>5, <1>6, <1>7 DEF Serve
<1>8. ASSUME Tick \/ (\E u \in Users : IssueResetToken(u)) \/ UNCHANGED vars
      PROVE  ~row'[req'[p].jti].revoked
  <2>1. req' = req
    BY <1>8 DEF Tick, IssueResetToken, vars
  <2>2. row[req[p].jti] \in Row /\ req[p].jti \in Jtis
    BY <1>a, <2>1 DEF TypeOK
  <2>3. row'[req[p].jti].revoked = row[req[p].jti].revoked
    BY <1>8, <2>2 DEF Tick, IssueResetToken, vars, stores, Row
  <2> QED BY <1>0, <2>1, <2>3 DEF SignsForGood
<1> QED BY <1>1, <1>7, <1>8, StepKinds

(* logout-others revokes the sessions it has read, *)
LEMMA TargetsStayStep ==
  ASSUME Serial, Reliable
  PROVE  TypeOK /\ RequestsOwnSessions /\ RevocationOK /\ [Next]_vars
           => \A p \in Slots : TargetsStay(req[p])'
<1> SUFFICES ASSUME TypeOK, RequestsOwnSessions, RevocationOK, [Next]_vars, NEW p \in Slots,
                    req'[p].pc = "others"
             PROVE  req'[p].targets = OthersOf(req[p])'
  BY DEF TargetsStay
<1>0. TargetsStay(req[p]) /\ TodoOK(req[p])
  BY DEF RevocationOK, HandlersOK
<1>1. ASSUME Arrive(p) PROVE req'[p].targets = OthersOf(req[p])'
  <2>1. PICK j \in Jtis : LogoutOthers(p, j)
    BY <1>1, ArrivePc
  <2>2. /\ req'[p].targets = Unrevoked(row[j].user) \ {j}
        /\ req'[p].user = row[j].user /\ req'[p].jti = j /\ row' = row
    BY <2>1 DEF LogoutOthers, Start, TypeOK, Idle, stores
  <2> QED BY <2>2 DEF OthersOf, Unrevoked, Owned
<1>2. ASSUME Serve(p) PROVE FALSE
  <2>1. ASSUME Perform(p) PROVE FALSE
    BY <1>0, <2>1, PerformFields DEF TodoOK
  <2>2. ASSUME NEW j \in Jtis, LoginCreate(p, j) PROVE FALSE
    BY <2>2, Created
  <2>3. ASSUME Sign(p) \/ ClearCookies(p) \/ Finish(p) PROVE FALSE
    BY <2>3, Ended DEF Idle
  <2>4. ASSUME \/ LoginLimit(p) \/ RevokeAll(p) \/ OthersRevoke(p) \/ ResetApply(p)
               \/ RefreshRotate(p)
        PROVE  FALSE
    <3>1. PICK pc \in {"create", "done", "sign"} : \E todo : Goto(p, pc, todo)
      BY <2>4 DEF LoginLimit, RevokeAll, OthersRevoke, ResetApply, RefreshRotate
    <3>2. PICK todo : Goto(p, pc, todo)
      BY <3>1
    <3> QED BY <3>1, <3>2, GotoRequest
  <2> QED BY <1>2, <2>1, <2>2, <2>3, <2>4 DEF Serve
<1>3. ASSUME Tick \/ (\E u \in Users : IssueResetToken(u)) \/ UNCHANGED vars
      PROVE  req'[p].targets = OthersOf(req[p])'
  <2>1. req' = req
    BY <1>3 DEF Tick, IssueResetToken, vars
  <2>2. \A j \in Jtis : row[j] \in Row
    BY DEF TypeOK
  <2>3. \A j \in Jtis : row'[j].revoked = row[j].revoked /\ row'[j].user = row[j].user
    BY <1>3, <2>2 DEF Tick, IssueResetToken, vars, stores, Row
  <2>4. OthersOf(req[p])' = OthersOf(req[p])
    BY <2>1, <2>3 DEF OthersOf, Unrevoked, Owned
  <2> QED BY <1>0, <2>1, <2>4 DEF TargetsStay
<1> QED BY <1>1, <1>2, <1>3, StepKinds

(* and no token is signed after its session was blacklisted. *)
LEMMA NeverLateStep ==
  ASSUME Serial, Reliable
  PROVE  TypeOK /\ RequestsOwnSessions /\ RevocationOK /\ [Next]_vars
           => \A j \in Jtis : late'[j] = 0
<1> SUFFICES ASSUME TypeOK, RequestsOwnSessions, RevocationOK, [Next]_vars
             PROVE  \A j \in Jtis : late'[j] = 0
  OBVIOUS
<1>0. PICK p \in Slots : TRUE
  BY DEF Serial
<1>1. \A j \in Jtis : late[j] = 0
  BY DEF RevocationOK
<1>2. ASSUME Sign(p) PROVE late' = late
  <2>1. req[p].pc = "sign" /\ req[p].todo = {} /\ req[p].jti \in Jtis
    BY <1>2 DEF Sign, At, RequestsOwnSessions, ActsForOneUser, Idle, TypeOK, Request
  <2>2. ~Doomed(p, req[p].jti)
    BY <2>1 DEF RevocationOK, SignsForGood, Doomed, RevokePending, Names, Has
  <2>3. req[p].jti \notin dead
    BY <2>1, <2>2 DEF RevocationOK, RevokedTogether
  <2> QED BY <1>2, <2>3 DEF Sign
<1>3. ASSUME Serve(p) PROVE late' = late
  BY <1>2, <1>3 DEF Serve, LoginLimit, LoginCreate, RefreshRotate, RevokeAll, ClearCookies,
     OthersRevoke, ResetApply, Perform, Finish, tokens
<1>4. ASSUME Arrive(p) PROVE late' = late
  BY <1>4, ArriveTodo DEF RevocationOK
<1>5. ASSUME Tick PROVE \A j \in Jtis : late'[j] = 0
  BY <1>1, <1>5 DEF Tick, Dec
<1>6. ASSUME (\E u \in Users : IssueResetToken(u)) \/ UNCHANGED vars PROVE late' = late
  BY <1>6 DEF IssueResetToken, vars, tokens
<1> QED BY <1>1, <1>3, <1>4, <1>5, <1>6, StepKinds

LEMMA RevocationStep ==
  ASSUME Serial, Reliable
  PROVE  TypeOK /\ RequestsOwnSessions /\ RevocationOK /\ [Next]_vars => RevocationOK'
<1> SUFFICES ASSUME TypeOK, RequestsOwnSessions, RevocationOK, [Next]_vars PROVE RevocationOK'
  OBVIOUS
<1>1. HandlersOK'
  BY HandlersStep DEF RevocationOK
<1>2. RevokedOpened'
  BY RowStepHolds, RevokedOpenedStep DEF RevocationOK
<1>3. \A p \in Slots : RevokedTogether(p)'
  BY TogetherStep
<1>4. \A p \in Slots : SignsForGood(req[p])'
  BY SignsForGoodStep
<1>5. \A p \in Slots : TargetsStay(req[p])'
  BY TargetsStayStep
<1>6. \A j \in Jtis : late'[j] = 0
  BY NeverLateStep
<1> QED BY <1>1, <1>2, <1>3, <1>4, <1>5, <1>6 DEF RevocationOK

LEMMA RevocationAlways ==
  ASSUME Serial, Reliable
  PROVE  Spec => [](TypeOK /\ RequestsOwnSessions /\ RevocationOK)
  BY RevocationInit, RevocationStep, TypeAndOwnership, PTL DEF Spec

(* One request at a time and nothing failing, a revoked session is locked  *)
(* out by the time its request is over: no token of it is accepted and its *)
(* cache entry is gone.                                                    *)
THEOREM RevokedIsBlockedCorrect ==
  ASSUME Serial, Reliable
  PROVE  Spec => []RevokedIsBlocked
<1>1. TypeOK /\ RevocationOK /\ BlacklistOutlivesTokens => RevokedIsBlocked
  <2> SUFFICES ASSUME TypeOK, RevocationOK, BlacklistOutlivesTokens, Quiet,
                      NEW j \in Jtis, row[j].revoked
               PROVE  ~Accepted(j) /\ cached[j] = 0
    BY DEF RevokedIsBlocked
  <2>1. PICK p \in Slots : req[p].todo = {}
    BY DEF Serial, Quiet, Free, RevocationOK, HandlersOK, TodoOK
  <2>2. ~Names(p, "blacklist", j) /\ Doomed(p, j)
    BY <2>1 DEF Names, Doomed
  <2>3. j \in dead /\ cached[j] = 0
    BY <2>2 DEF RevocationOK, RevokedTogether
  <2>4. blacklist[j] = 0 => access[j] = 0
    BY <2>3 DEF BlacklistOutlivesTokens
  <2>5. late[j] = 0
    BY DEF RevocationOK
  <2> QED BY <2>3, <2>4, <2>5 DEF Accepted, Unexpired
<1> QED BY <1>1, RevocationAlways, BlacklistCorrect, PTL

-----------------------------------------------------------------------------
(* Passwords. *)

RowsPending(p, u) == req[p].user = u /\ Has(p, "revokeRows")

(* Inside a reset the password may change before the rows do: a session of *)
(* an old password is then about to be revoked.  A login that is to create *)
(* a session holds the password its user has.                              *)
OldOnesEnd(p) ==
  \A j \in Jtis :
    row[j].user # None /\ ~row[j].revoked =>
      row[j].pwd \in {0, password[row[j].user]} \/ RowsPending(p, row[j].user)
ResetsTogether(p) ==
  Has(p, "setPassword") => Has(p, "revokeRows") \/ Unrevoked(req[p].user) = {}
LogsInWithCurrent(p) ==
  req[p].pc \in {"limit", "create"} => req[p].pwd \in {0, password[req[p].user]}

PasswordOK(p) == OldOnesEnd(p) /\ ResetsTogether(p) /\ LogsInWithCurrent(p)

(* A step that opens no session and changes no password *)
NothingOpened ==
  /\ password' = password
  /\ \A j \in Jtis :
       /\ row'[j].user = row[j].user /\ row'[j].pwd = row[j].pwd
       /\ row[j].revoked => row'[j].revoked

LEMMA WaneOpensNothing ==
  ASSUME RowsWane, password' = password
  PROVE  NothingOpened
  BY DEF RowsWane, NothingOpened

LEMMA OldOnesStay ==
  ASSUME NothingOpened, NEW p \in Slots, OldOnesEnd(p),
         Has(p, "revokeRows") => Has(p, "revokeRows")' /\ req'[p].user = req[p].user
  PROVE  OldOnesEnd(p)'
<1> SUFFICES ASSUME NEW j \in Jtis, row'[j].user # None, ~row'[j].revoked
             PROVE  \/ row'[j].pwd \in {0, password'[row'[j].user]}
                    \/ req'[p].user = row'[j].user /\ Has(p, "revokeRows")'
  BY DEF OldOnesEnd, RowsPending
<1>1. /\ row'[j].user = row[j].user /\ row'[j].pwd = row[j].pwd
      /\ ~row[j].revoked /\ password' = password
  BY DEF NothingOpened
<1>2. \/ row[j].pwd \in {0, password[row[j].user]}
      \/ req[p].user = row[j].user /\ Has(p, "revokeRows")
  BY <1>1 DEF OldOnesEnd, RowsPending
<1> QED BY <1>1, <1>2

(* A request that waited for nothing and does not reset *)
LEMMA PasswordKept ==
  ASSUME NothingOpened, NEW p \in Slots, PasswordOK(p), req[p].todo = {},
         Has(p, "setPassword")' => Has(p, "revokeRows")',
         LogsInWithCurrent(p)'
  PROVE  PasswordOK(p)'
<1>1. ~Has(p, "revokeRows")
  BY DEF Has
<1>2. OldOnesEnd(p)'
  BY <1>1, OldOnesStay DEF PasswordOK
<1> QED BY <1>2 DEF PasswordOK, ResetsTogether

LEMMA PasswordPerforms ==
  ASSUME TypeOK, RequestsOwnSessions, RevocationOK, NEW p \in Slots, PasswordOK(p), Perform(p)
  PROVE  PasswordOK(p)'
<1>0. /\ req'[p].user = req[p].user /\ req'[p].pc = req[p].pc /\ req'[p].pwd = req[p].pwd
      /\ TodoOK(req[p])
  BY PerformFields DEF RevocationOK, HandlersOK
<1>1. PICK c \in req[p].todo :
        \/ PerformRevokeRow(p, c)
        \/ PerformRevokeRows(p, c)
        \/ PerformSetPassword(p, c)
        \/ /\ \/ Performed(p, c) /\ c.op \notin {"revokeRow", "revokeRows", "setPassword"}
              \/ PerformReadList(p, c)
           /\ UNCHANGED <<row, password>>
  BY DEF Perform, PerformDropToken, PerformWriteList, PerformBlacklist, PerformCache,
     PerformReadList, stores
<1>2. CASE PerformRevokeRow(p, c)
  <2>1. req'[p].todo = req[p].todo \ {c} /\ c.op = "revokeRow"
    BY <1>2, Performs DEF PerformRevokeRow
  <2>2. row' = RevokeRows(c.on) /\ password' = password
    BY <1>2 DEF PerformRevokeRow
  <2>3. NothingOpened
    BY <2>2, RevokeRowsWane, WaneOpensNothing
  <2>4. /\ Has(p, "revokeRows")' <=> Has(p, "revokeRows")
        /\ Has(p, "setPassword")' <=> Has(p, "setPassword")
    BY <2>1 DEF Has
  <2>5. OldOnesEnd(p)'
    BY <1>0, <2>3, <2>4, OldOnesStay DEF PasswordOK, RowsPending, Has
  <2>6. Unrevoked(req[p].user) = {} => (Unrevoked(req[p].user) = {})'
    BY <1>0, <2>3 DEF NothingOpened, Unrevoked, Owned
  <2> QED BY <1>0, <2>2, <2>4, <2>5, <2>6 DEF PasswordOK, ResetsTogether, LogsInWithCurrent
<1>3. CASE PerformRevokeRows(p, c)
  <2>1. password' = password
    BY <1>3 DEF PerformRevokeRows
  <2>2. \A k \in Jtis :
          /\ row'[k].user = row[k].user
          /\ row'[k].revoked = (row[k].revoked \/ k \in Unrevoked(req[p].user))
    BY <1>3, RevokedRows DEF PerformRevokeRows
  <2>3. NothingOpened
    BY <1>3, <2>1, RevokeRowsWane, WaneOpensNothing DEF PerformRevokeRows
  <2>4. \A k \in Jtis : ~row'[k].revoked => row[k].user # req[p].user
    BY <2>2 DEF Unrevoked, Owned
  <2>5. OldOnesEnd(p)'
    <3> SUFFICES ASSUME NEW j \in Jtis, row'[j].user # None, ~row'[j].revoked
                 PROVE  row'[j].pwd \in {0, password'[row'[j].user]}
      BY DEF OldOnesEnd
    <3>1. /\ row'[j].user = row[j].user /\ row'[j].pwd = row[j].pwd
          /\ ~row[j].revoked /\ password' = password
      BY <2>3 DEF NothingOpened
    <3>2. ~RowsPending(p, row[j].user)
      BY <2>4 DEF RowsPending
    <3> QED BY <3>1, <3>2 DEF PasswordOK, OldOnesEnd
  <2>6. (Unrevoked(req[p].user) = {})'
    BY <1>0, <2>2, <2>4 DEF Unrevoked, Owned
  <2> QED BY <1>0, <2>1, <2>5, <2>6 DEF PasswordOK, ResetsTogether, LogsInWithCurrent
<1>4. CASE PerformSetPassword(p, c)
  <2>1. req'[p].todo = req[p].todo \ {c} /\ c.op = "setPassword"
    BY <1>4, Performs DEF PerformSetPassword
  <2>2. row' = row /\ \A u \in Users : u # req[p].user => password'[u] = password[u]
    BY <1>4 DEF PerformSetPassword, TypeOK
  <2>3. Has(p, "revokeRows")' <=> Has(p, "revokeRows")
    BY <2>1 DEF Has
  <2>4. Has(p, "revokeRows") \/ Unrevoked(req[p].user) = {}
    BY <2>1 DEF PasswordOK, ResetsTogether, Has
  <2>5. OldOnesEnd(p)'
    <3> SUFFICES ASSUME NEW j \in Jtis, row[j].user # None, ~row[j].revoked
                 PROVE  \/ row[j].pwd \in {0, password'[row[j].user]}
                        \/ req'[p].user = row[j].user /\ Has(p, "revokeRows")'
      BY <2>2 DEF OldOnesEnd, RowsPending, Has
    <3>1. row[j].user \in Users
      BY DEF TypeOK, Row
    <3>2. CASE row[j].user = req[p].user
      <4>1. j \in Unrevoked(req[p].user)
        BY <3>2 DEF Unrevoked, Owned
      <4> QED BY <1>0, <2>3, <2>4, <3>2, <4>1
    <3>3. CASE row[j].user # req[p].user
      BY <2>2, <3>1, <3>3 DEF PasswordOK, OldOnesEnd, RowsPending
    <3> QED BY <3>2, <3>3
  <2>6. Unrevoked(req[p].user) = {} => (Unrevoked(req[p].user) = {})'
    BY <1>0, <2>2 DEF Unrevoked, Owned
  <2>7. req[p].pc \notin {"limit", "create"}
    BY <1>0, <2>1 DEF TodoOK
  <2> QED BY <1>0, <2>3, <2>4, <2>5, <2>6, <2>7 DEF PasswordOK, ResetsTogether, LogsInWithCurrent
<1>5. ASSUME \/ Performed(p, c) /\ c.op \notin {"revokeRow", "revokeRows", "setPassword"}
             \/ PerformReadList(p, c),
             UNCHANGED <<row, password>>
      PROVE  PasswordOK(p)'
  <2>1. \A d : d.op \in {"revokeRows", "setPassword"} => (d \in req'[p].todo <=> d \in req[p].todo)
    <3>1. CASE Performed(p, c) /\ c.op \notin {"revokeRow", "revokeRows", "setPassword"}
      BY <3>1, Performs
    <3>2. CASE PerformReadList(p, c)
      <4> DEFINE W == WritesAfter(c, devices[req[p].user])
      <4>1. \A d \in W : d.op = "writeList"
        BY DEF WritesAfter, WriteList
      <4>2. Goto(p, req[p].pc, (req[p].todo \ {c}) \cup W) /\ c.op \in {"list", "unlist"}
        BY <3>2 DEF PerformReadList
      <4> HIDE DEF W
      <4>3. req'[p].todo = (req[p].todo \ {c}) \cup W
        BY <4>2, GotoRequest
      <4> QED BY <4>1, <4>2, <4>3
    <3> QED BY <1>5, <3>1, <3>2
  <2>2. /\ Has(p, "revokeRows")' <=> Has(p, "revokeRows")
        /\ Has(p, "setPassword")' <=> Has(p, "setPassword")
    BY <2>1 DEF Has
  <2>3. NothingOpened
    BY <1>5 DEF NothingOpened
  <2>4. OldOnesEnd(p)'
    BY <1>0, <2>2, <2>3, OldOnesStay DEF PasswordOK, RowsPending, Has
  <2>5. Unrevoked(req[p].user) = {} => (Unrevoked(req[p].user) = {})'
    BY <1>0, <1>5 DEF Unrevoked, Owned
  <2> QED BY <1>0, <1>5, <2>2, <2>4, <2>5 DEF PasswordOK, ResetsTogether, LogsInWithCurrent
<1> QED BY <1>1, <1>2, <1>3, <1>4, <1>5

LEMMA PasswordStep ==
  ASSUME Serial, Reliable
  PROVE  TypeOK /\ RequestsOwnSessions /\ RevocationOK /\ (\A p \in Slots : PasswordOK(p))
           /\ [Next]_vars => \A p \in Slots : PasswordOK(p)'
<1> SUFFICES ASSUME TypeOK, RequestsOwnSessions, RevocationOK, \A p \in Slots : PasswordOK(p),
                    [Next]_vars, NEW p \in Slots
             PROVE  PasswordOK(p)'
  OBVIOUS
<1>0. PasswordOK(p) /\ TodoOK(req[p]) /\ HandlersOK
  BY DEF RevocationOK, HandlersOK
<1>1. ASSUME req'[p].pc \notin {"limit", "create"} PROVE LogsInWithCurrent(p)'
  BY <1>1 DEF LogsInWithCurrent
<1>2. ASSUME NothingOpened, req[p].todo = {}, \A c \in req'[p].todo : c.op # "setPassword",
             LogsInWithCurrent(p)'
      PROVE  PasswordOK(p)'
  <2>1. ~Has(p, "setPassword")'
    BY <1>2 DEF Has
  <2> QED BY <1>0, <1>2, <2>1, PasswordKept
<1>3. ASSUME row' = row, password' = password PROVE NothingOpened
  BY <1>3 DEF NothingOpened
<1>4. ASSUME Arrive(p) PROVE PasswordOK(p)'
  <2>1. NothingOpened /\ req[p].todo = {}
    BY <1>0, <1>3, <1>4, ArriveTodo
  <2>2. \A c \in req'[p].todo : c.op # "setPassword"
    BY <1>0, <1>4, ArriveTodo DEF RevocationOf, RevokeInRedis, Cmd
  <2>3. LogsInWithCurrent(p)'
    <3>1. CASE req'[p].pc = "limit"
      <4>1. PICK b \in Browsers, u \in Users, by \in {"password", "google"} : LoginStart(p, b, u, by)
        BY <1>4, <3>1, ArrivePc
      <4>2. /\ req'[p].user = u /\ password' = password
            /\ req'[p].pwd = IF by = "password" THEN password[u] ELSE 0
        BY <4>1 DEF LoginStart, Start, TypeOK, Idle, stores
      <4> QED BY <4>2 DEF LogsInWithCurrent
    <3>2. CASE req'[p].pc # "limit"
      BY <1>1, <1>4, <3>2, ArrivePc
    <3> QED BY <3>1, <3>2
  <2> QED BY <1>2, <2>1, <2>2, <2>3
<1>5. ASSUME LoginLimit(p) PROVE PasswordOK(p)'
  <2> DEFINE todo == IF LimitReached(req[p].user) THEN Eviction(Oldest(req[p].user)) ELSE {}
  <2>1. /\ Goto(p, "create", todo) /\ req[p].pc = "limit" /\ req[p].todo = {}
        /\ NothingOpened /\ password' = password
    BY <1>3, <1>5 DEF LoginLimit, At, stores
  <2>2. \A c \in todo : c.op # "setPassword"
    BY DEF Eviction, RevokeInRedis, Cmd
  <2> HIDE DEF todo
  <2>3. req'[p].todo = todo /\ req'[p].user = req[p].user /\ req'[p].pwd = req[p].pwd
    BY <2>1, GotoRequest
  <2>4. LogsInWithCurrent(p)'
    BY <1>0, <2>1, <2>3 DEF PasswordOK, LogsInWithCurrent
  <2> QED BY <1>2, <2>1, <2>2, <2>3, <2>4
<1>6. ASSUME NEW j \in Jtis, LoginCreate(p, j) PROVE PasswordOK(p)'
  <2>1. /\ req[p].todo = {} /\ req[p].pc = "create" /\ req'[p].pc = "sign"
        /\ req'[p].todo = {Cmd("cache", {j}), Cmd("list", {j})}
        /\ row'[j].user = req[p].user /\ row'[j].pwd = req[p].pwd
        /\ \A k \in Jtis : k # j => row'[k] = row[k]
    BY <1>6, Created
  <2>2. password' = password
    BY <1>6 DEF LoginCreate
  <2>3. ~Has(p, "revokeRows") /\ ~Has(p, "setPassword")'
    BY <2>1 DEF Has, Cmd
  <2>4. OldOnesEnd(p)'
    <3> SUFFICES ASSUME NEW k \in Jtis, row'[k].user # None, ~row'[k].revoked
                 PROVE  row'[k].pwd \in {0, password'[row'[k].user]}
      BY DEF OldOnesEnd
    <3>1. CASE k = j
      BY <1>0, <2>1, <2>2, <3>1 DEF PasswordOK, LogsInWithCurrent
    <3>2. CASE k # j
      BY <1>0, <2>1, <2>2, <2>3, <3>2 DEF PasswordOK, OldOnesEnd, RowsPending
    <3> QED BY <3>1, <3>2
  <2>5. LogsInWithCurrent(p)'
    BY <1>1, <2>1
  <2> QED BY <2>3, <2>4, <2>5 DEF PasswordOK, ResetsTogether
<1>7. ASSUME Sign(p) \/ ClearCookies(p) \/ Finish(p) PROVE PasswordOK(p)'
  <2>1. NothingOpened
    BY <1>3, <1>7 DEF Sign, ClearCookies, Finish, stores
  <2>2. req[p].todo = {} /\ req'[p].todo = {} /\ req'[p].pc = "idle"
    BY <1>7, Ended DEF Idle
  <2> QED BY <1>1, <1>2, <2>1, <2>2
<1>8. ASSUME RefreshRotate(p) PROVE PasswordOK(p)'
  <2>1. /\ req[p].todo = {} /\ password' = password
        /\ row' = [row EXCEPT ![req[p].jti] = Rotated(req[p])]
        /\ Goto(p, "sign", {Cmd("cache", {req[p].jti})})
    BY <1>8 DEF RefreshRotate, At
  <2>2. req'[p].todo = {Cmd("cache", {req[p].jti})} /\ req'[p].pc = "sign"
    BY <2>1, GotoRequest
  <2>3. \A k \in Jtis : row[k] \in Row
    BY DEF TypeOK
  <2>4. NothingOpened
    BY <2>1, <2>3 DEF NothingOpened, Rotated, TypeOK, Row
  <2>5. \A c \in req'[p].todo : c.op # "setPassword"
    BY <2>2 DEF Cmd
  <2> QED BY <1>1, <1>2, <2>1, <2>2, <2>4, <2>5
<1>9. ASSUME RevokeAll(p) PROVE PasswordOK(p)'
  <2> DEFINE todo == {Cmd("revokeRows", {})} \cup RevokeInRedis(Unrevoked(req[p].user))
  <2>1. NothingOpened /\ req[p].todo = {} /\ Goto(p, "done", todo)
    BY <1>3, <1>9 DEF RevokeAll, stores, At
  <2>2. \A c \in todo : c.op # "setPassword"
    BY DEF RevokeInRedis, Cmd
  <2> HIDE DEF todo
  <2>3. req'[p].todo = todo /\ req'[p].pc = "done"
    BY <2>1, GotoRequest
  <2> QED BY <1>1, <1>2, <2>1, <2>2, <2>3
<1>10. ASSUME ResetApply(p) PROVE PasswordOK(p)'
  <2> DEFINE todo == ResetCommands(req[p].user)
  <2>1. NothingOpened /\ req[p].todo = {} /\ Goto(p, "done", todo)
    BY <1>3, <1>10 DEF ResetApply, stores, At
  <2>2. \E c \in todo : c.op = "revokeRows"
    <3>1. Cmd("revokeRows", {}) \in todo
      BY DEF ResetCommands
    <3> QED BY <3>1 DEF Cmd
  <2> HIDE DEF todo
  <2>3. req'[p].todo = todo /\ req'[p].pc = "done"
    BY <2>1, GotoRequest
  <2>4. Has(p, "revokeRows")'
    BY <2>2, <2>3 DEF Has
  <2>5. LogsInWithCurrent(p)'
    BY <1>1, <2>3
  <2> QED BY <1>0, <2>1, <2>4, <2>5, PasswordKept
<1>11. ASSUME OthersRevoke(p) PROVE PasswordOK(p)'
  <2> DEFINE todo == {Cmd("unlist", req[p].targets)} \cup RevokeInRedis(req[p].targets)
  <2>1. /\ row' = RevokeRows(OthersOf(req[p])) /\ password' = password
        /\ req[p].todo = {} /\ Goto(p, "done", todo)
    BY <1>11 DEF OthersRevoke, At
  <2>2. NothingOpened
    BY <2>1, RevokeRowsWane, WaneOpensNothing
  <2>3. \A c \in todo : c.op # "setPassword"
    BY DEF RevokeInRedis, Cmd
  <2> HIDE DEF todo
  <2>4. req'[p].todo = todo /\ req'[p].pc = "done"
    BY <2>1, GotoRequest
  <2> QED BY <1>1, <1>2, <2>1, <2>2, <2>3, <2>4
<1>12. ASSUME Perform(p) PROVE PasswordOK(p)'
  BY <1>0, <1>12, PasswordPerforms
<1>13. ASSUME Serve(p) PROVE PasswordOK(p)'
  BY <1>5, <1>6, <1>7, <1>8, <1>9, <1>10, <1>11, <1>12, <1>13 DEF Serve
<1>14. ASSUME Tick \/ (\E u \in Users : IssueResetToken(u)) \/ UNCHANGED vars
       PROVE  PasswordOK(p)'
  <2>1. req' = req /\ password' = password
    BY <1>14 DEF Tick, IssueResetToken, vars, stores
  <2>2. NothingOpened
    BY <1>3, <1>14, <2>1, TickWanes, WaneOpensNothing DEF IssueResetToken, vars, stores
  <2>3. OldOnesEnd(p)'
    BY <1>0, <2>1, <2>2, OldOnesStay DEF PasswordOK, Has
  <2>4. Unrevoked(req[p].user) = {} => (Unrevoked(req[p].user) = {})'
    BY <2>1, <2>2 DEF NothingOpened, Unrevoked, Owned
  <2> QED BY <1>0, <2>1, <2>3, <2>4 DEF PasswordOK, ResetsTogether, LogsInWithCurrent, Has
<1> QED BY <1>4, <1>13, <1>14, StepKinds

(* One request at a time and nothing failing, a password reset ends every  *)
(* session that was opened with the old password.                          *)
THEOREM OldPasswordCorrect ==
  ASSUME Serial, Reliable
  PROVE  Spec => []OldPasswordSessionsEnd
<1> DEFINE I == \A p \in Slots : PasswordOK(p)
<1>1. Init => I
  BY DEF Init, NoRow, Idle, PasswordOK, OldOnesEnd, ResetsTogether, LogsInWithCurrent, Has
<1>2. TypeOK /\ RequestsOwnSessions /\ RevocationOK /\ I /\ [Next]_vars => I'
  BY PasswordStep
<1>3. RevocationOK /\ I => OldPasswordSessionsEnd
  <2> SUFFICES ASSUME RevocationOK, I, Quiet, NEW j \in Opened, ~row[j].revoked
               PROVE  row[j].pwd \in {0, password[row[j].user]}
    BY DEF OldPasswordSessionsEnd
  <2>1. PICK p \in Slots : req[p].todo = {}
    BY DEF Serial, Quiet, Free, RevocationOK, HandlersOK, TodoOK
  <2>2. ~RowsPending(p, row[j].user)
    BY <2>1 DEF RowsPending, Has
  <2> QED BY <2>1, <2>2 DEF PasswordOK, OldOnesEnd, Opened
<1> HIDE DEF I
<1> QED BY <1>1, <1>2, <1>3, RevocationAlways, PTL DEF Spec
-----------------------------------------------------------------------------
(* Device lists. *)

(* A good session is on its user's list, or the request in flight is about *)
(* to put it there: it has yet to read the list or to write back the one   *)
(* it read, on which every good session is.                                *)
GoodOnesListed(p) ==
  \A v \in Users : \A j \in Owned(v) :
    \/ Doomed(p, j) \/ j \in Listed(devices[v])
    \/ req[p].user = v /\ (Names(p, "list", j) \/ Has(p, "writeList"))
WritesGoodOnes(p) ==
  \A c \in req[p].todo : c.op = "writeList" =>
    \A j \in Owned(req[p].user) : Doomed(p, j) \/ j \in c.list
UnlistsDoomed(p) ==
  \A c \in req[p].todo : c.op = "unlist" => \A j \in c.on : Doomed(p, j)
OneListCommand(p) ==
  \A c, d \in req[p].todo :
    c.op \in {"list", "unlist"} /\ d.op \in {"list", "unlist", "writeList"} => c = d

ListsOK(p) ==
  GoodOnesListed(p) /\ WritesGoodOnes(p) /\ UnlistsDoomed(p) /\ OneListCommand(p)

(* A step that opens no session and forgets no revocation *)
NothingListed ==
  /\ devices' = devices
  /\ \A j \in Jtis : row'[j].user = row[j].user /\ (row[j].revoked => row'[j].revoked)

(* A request that waited for nothing hands over what it has to. *)
LEMMA ListsHandedOver ==
  ASSUME NEW p \in Slots, ListsOK(p), req[p].todo = {}, NothingListed,
         \A c \in req'[p].todo : c.op \notin {"list", "writeList"},
         UnlistsDoomed(p)',
         \A c, d \in req'[p].todo : c.op = "unlist" /\ d.op = "unlist" => c = d
  PROVE  ListsOK(p)'
<1>1. GoodOnesListed(p)'
  <2> SUFFICES ASSUME NEW v \in Users, NEW j \in Jtis, row'[j].user = v
               PROVE  Doomed(p, j)' \/ j \in Listed(devices'[v])
    BY DEF GoodOnesListed, Owned
  <2>1. j \in Owned(v) /\ devices' = devices /\ (row[j].revoked => row'[j].revoked)
    BY DEF Owned, NothingListed
  <2>2. ~RevokePending(p, j) /\ ~Names(p, "list", j) /\ ~Has(p, "writeList")
    BY DEF RevokePending, Names, Has
  <2>3. row[j].revoked \/ j \in Listed(devices[v])
    BY <2>1, <2>2 DEF ListsOK, GoodOnesListed, Doomed
  <2> QED BY <2>1, <2>3 DEF Doomed
<1>2. WritesGoodOnes(p)'
  BY DEF WritesGoodOnes
<1>3. OneListCommand(p)'
  BY DEF OneListCommand
<1> QED BY <1>1, <1>2, <1>3 DEF ListsOK

(* addUserSession and removeUserSession have read the list. *)
LEMMA ListRead ==
  ASSUME TypeOK, RequestsOwnSessions, RevocationOK, NEW p \in Slots, ListsOK(p), NEW c \in req[p].todo,
         PerformReadList(p, c)
  PROVE  ListsOK(p)'
<1> DEFINE W == WritesAfter(c, devices[req[p].user])
<1>0. TodoOK(req[p]) /\ c.op \in {"list", "unlist"} /\ row' = row /\ devices' = devices
  BY DEF RevocationOK, HandlersOK, PerformReadList, stores
<1>1. \A d \in W : d.op = "writeList"
  BY DEF WritesAfter, WriteList
<1>2. PICK L : L = Listed(devices[req[p].user])
  OBVIOUS
<1>3. ASSUME c.op = "unlist", NEW d \in W PROVE \E j \in c.on : d.list = L \ {j}
  <2>1. W \subseteq {WriteList(j, L \ {j}) : j \in c.on}
    BY <1>2, <1>3 DEF WritesAfter
  <2> QED BY <1>3, <2>1 DEF WriteList
<1>4. Goto(p, req[p].pc, (req[p].todo \ {c}) \cup W)
  BY DEF PerformReadList
<1>5. ASSUME c.op = "list"
      PROVE  W # {} /\ c.on = {req[p].jti} /\ \A d \in W : d.list = L \cup {req[p].jti}
  <2>1. c.on = {req[p].jti}
    BY <1>0, <1>5 DEF TodoOK
  <2>2. W = {WriteList(j, L \cup {j}) : j \in {req[p].jti}}
    BY <1>2, <1>5, <2>1 DEF WritesAfter
  <2>3. W = {WriteList(req[p].jti, L \cup {req[p].jti})}
    BY <2>2
  <2> QED BY <2>1, <2>3 DEF WriteList
<1> HIDE DEF W
<1>6. req'[p].user = req[p].user /\ req'[p].todo = (req[p].todo \ {c}) \cup W
  BY <1>4, GotoRequest
<1>7. \A j \in Jtis : Doomed(p, j)' <=> Doomed(p, j)
  BY FateKept
<1>8. \A d \in req[p].todo : d.op \in {"list", "unlist", "writeList"} => d = c
  BY <1>0 DEF ListsOK, OneListCommand
<1>9. ~Has(p, "writeList") /\ \A d \in req'[p].todo : d \in W \/ d.op \notin {"list", "unlist", "writeList"}
  BY <1>0, <1>6, <1>8 DEF Has
<1>10. \A v : Owned(v)' = Owned(v) /\ Owned(v) \subseteq Jtis
  BY <1>0 DEF Owned
<1>11. GoodOnesListed(p)'
  <2> SUFFICES ASSUME NEW v \in Users, NEW j \in Owned(v), ~Doomed(p, j),
                      j \notin Listed(devices[v])
               PROVE  req[p].user = v /\ Has(p, "writeList")'
    BY <1>0, <1>6, <1>7, <1>10 DEF GoodOnesListed
  <2>1. req[p].user = v /\ Names(p, "list", j)
    BY <1>9 DEF ListsOK, GoodOnesListed
  <2>2. c.op = "list"
    BY <1>8, <2>1 DEF Names
  <2>3. PICK d : d \in W
    BY <1>5, <2>2
  <2> QED BY <1>1, <1>6, <2>1, <2>3 DEF Has
<1>12. WritesGoodOnes(p)'
  <2> SUFFICES ASSUME NEW d \in W, NEW j \in Owned(req[p].user), ~Doomed(p, j)
               PROVE  j \in d.list
    BY <1>6, <1>7, <1>9, <1>10 DEF WritesGoodOnes
  <2>0. req[p].user \in Users
    BY DEF RequestsOwnSessions, ActsForOneUser, Idle
  <2>1. j \in L \/ Names(p, "list", j)
    BY <1>2, <1>9, <2>0 DEF ListsOK, GoodOnesListed
  <2>2. CASE c.op = "list"
    <3>1. Names(p, "list", j) => j = req[p].jti
      BY <1>5, <1>8, <2>2 DEF Names
    <3> QED BY <1>5, <2>1, <2>2, <3>1
  <2>3. CASE c.op = "unlist"
    <3>1. j \in L
      BY <1>8, <2>1, <2>3 DEF Names
    <3>2. j \notin c.on
      BY <2>3 DEF ListsOK, UnlistsDoomed
    <3> QED BY <1>3, <2>3, <3>1, <3>2
  <2> QED BY <1>0, <2>2, <2>3
<1>13. UnlistsDoomed(p)' /\ OneListCommand(p)'
  BY <1>1, <1>9 DEF UnlistsDoomed, OneListCommand
<1> QED BY <1>11, <1>12, <1>13 DEF ListsOK

(* A store has performed a command; a list is written as it was made up. *)
LEMMA ListsPerform ==
  ASSUME TypeOK, RequestsOwnSessions, RevocationOK, NEW p \in Slots, ListsOK(p), Perform(p)
  PROVE  ListsOK(p)'
<1>1. PICK c \in req[p].todo :
        \/ PerformReadList(p, c)
        \/ PerformWriteList(p, c)
        \/ /\ \/ PerformRevokeRow(p, c) \/ PerformRevokeRows(p, c)
              \/ Performed(p, c) /\ row' = row /\ ~RevokesRows(c)
           /\ Performed(p, c) /\ devices' = devices
           /\ c.op \notin {"list", "unlist", "writeList"}
  BY DEF Perform, PerformRevokeRow, PerformRevokeRows, PerformSetPassword,
     PerformDropToken, PerformBlacklist, PerformCache, RevokesRows
<1>2. CASE PerformReadList(p, c)
  BY <1>2, ListRead
<1>3. ASSUME Performed(p, c), \A j \in Jtis : Doomed(p, j)' <=> Doomed(p, j),
             \A v : Owned(v)' = Owned(v)
      PROVE  WritesGoodOnes(p)' /\ UnlistsDoomed(p)' /\ OneListCommand(p)'
  <2>1. req'[p].todo = req[p].todo \ {c} /\ req'[p].user = req[p].user
    BY <1>3, Performs
  <2>2. UnlistsDoomed(p)'
    <3> SUFFICES ASSUME NEW d \in req[p].todo, d.op = "unlist", NEW j \in d.on
                 PROVE  Doomed(p, j)'
      BY <2>1 DEF UnlistsDoomed
    <3>1. j \in Jtis
      BY DEF TypeOK, Request, Command
    <3> QED BY <1>3, <3>1 DEF ListsOK, UnlistsDoomed
  <2> QED BY <1>3, <2>1, <2>2 DEF ListsOK, WritesGoodOnes, OneListCommand, Owned
<1>4. CASE PerformWriteList(p, c)
  <2>1. /\ Performed(p, c) /\ row' = row /\ ~RevokesRows(c) /\ c.op = "writeList"
        /\ devices' = [devices EXCEPT ![req[p].user] = {c.list}]
    BY <1>4 DEF PerformWriteList, RevokesRows
  <2>2. \A j \in Jtis : Doomed(p, j)' <=> Doomed(p, j)
    BY <2>1, FateKept
  <2>3. \A v : Owned(v)' = Owned(v)
    BY <2>1 DEF Owned
  <2>4. Listed({c.list}) = c.list
    BY Zenon DEF Listed
  <2>5. GoodOnesListed(p)'
    <3> SUFFICES ASSUME NEW v \in Users, NEW j \in Owned(v), ~Doomed(p, j)
                 PROVE  j \in Listed(devices'[v]) \/ (req[p].user = v /\ Has(p, "writeList"))'
      BY <2>2, <2>3 DEF GoodOnesListed, Owned
    <3>1. CASE v = req[p].user
      <4>1. j \in c.list
        BY <2>1, <3>1 DEF ListsOK, WritesGoodOnes
      <4>2. devices'[v] = {c.list}
        BY <2>1, <3>1 DEF TypeOK
      <4> QED BY <2>4, <4>1, <4>2
    <3>2. CASE v # req[p].user
      BY <2>1, <3>2 DEF ListsOK, GoodOnesListed, TypeOK
    <3> QED BY <3>1, <3>2
  <2> QED BY <1>3, <2>1, <2>2, <2>3, <2>5 DEF ListsOK
<1>5. CASE /\ \/ PerformRevokeRow(p, c) \/ PerformRevokeRows(p, c)
              \/ Performed(p, c) /\ row' = row /\ ~RevokesRows(c)
           /\ Performed(p, c) /\ devices' = devices
           /\ c.op \notin {"list", "unlist", "writeList"}
  <2>1. \A j \in Jtis : Doomed(p, j)' <=> Doomed(p, j)
    BY <1>5, FateKept
  <2>2. \A v : Owned(v)' = Owned(v)
    BY <1>5, RevokeRowsKeepsUsers DEF PerformRevokeRow, PerformRevokeRows, Owned
  <2>3. req'[p].todo = req[p].todo \ {c} /\ req'[p].user = req[p].user
    BY <1>5, Performs
  <2>4. /\ \A j : Names(p, "list", j)' <=> Names(p, "list", j)
        /\ Has(p, "writeList")' <=> Has(p, "writeList")
    BY <1>5, <2>3 DEF Names, Has
  <2>5. GoodOnesListed(p)'
    <3> SUFFICES ASSUME NEW v \in Users, NEW j \in Owned(v)
                 PROVE  \/ Doomed(p, j)' \/ j \in Listed(devices'[v])
                        \/ req'[p].user = v /\ (Names(p, "list", j)' \/ Has(p, "writeList")')
      BY <2>2 DEF GoodOnesListed
    <3>1. j \in Jtis
      BY DEF Owned
    <3> QED BY <1>5, <2>1, <2>3, <2>4, <3>1 DEF ListsOK, GoodOnesListed
  <2> QED BY <1>3, <1>5, <2>1, <2>2, <2>5 DEF ListsOK
<1> QED BY <1>1, <1>2, <1>4, <1>5

(* A login has created its row and is about to list it. *)
LEMMA ListsCreate ==
  ASSUME TypeOK, NEW p \in Slots, ListsOK(p), NEW j \in Jtis, LoginCreate(p, j)
  PROVE  ListsOK(p)'
<1>1. /\ req[p].todo = {} /\ req'[p].user = req[p].user
      /\ req'[p].todo = {Cmd("cache", {j}), Cmd("list", {j})}
      /\ row'[j].user = req[p].user
      /\ \A k \in Jtis : k # j => row'[k] = row[k]
  BY Created
<1>2. devices' = devices
  BY DEF LoginCreate
<1>3. /\ Names(p, "list", j)'
      /\ \A c \in req'[p].todo : c.op \notin {"unlist", "writeList"}
      /\ OneListCommand(p)'
  <2>1. /\ Cmd("cache", {j}).op = "cache"
        /\ Cmd("list", {j}).op = "list" /\ Cmd("list", {j}).on = {j}
    BY DEF Cmd
  <2> QED BY <1>1, <2>1 DEF Names, OneListCommand
<1>4. GoodOnesListed(p)'
  <2> SUFFICES ASSUME NEW v \in Users, NEW k \in Jtis, row'[k].user = v, k # j
               PROVE  Doomed(p, k)' \/ k \in Listed(devices'[v])
    BY <1>1, <1>3 DEF GoodOnesListed, Owned
  <2>1. row'[k] = row[k] /\ k \in Owned(v)
    BY <1>1 DEF Owned
  <2>2. row[k].revoked \/ k \in Listed(devices[v])
    BY <1>1, <2>1 DEF ListsOK, GoodOnesListed, Doomed, RevokePending, Names, Has
  <2> QED BY <1>2, <2>1, <2>2 DEF Doomed
<1> QED BY <1>3, <1>4 DEF ListsOK, WritesGoodOnes, UnlistsDoomed

LEMMA ListsStep ==
  ASSUME Serial, Reliable
  PROVE  TypeOK /\ RequestsOwnSessions /\ RevocationOK /\ (\A p \in Slots : ListsOK(p))
           /\ [Next]_vars => \A p \in Slots : ListsOK(p)'
<1> SUFFICES ASSUME TypeOK, RequestsOwnSessions, RevocationOK, \A p \in Slots : ListsOK(p),
                    [Next]_vars, NEW p \in Slots
             PROVE  ListsOK(p)'
  OBVIOUS
<1>0. ListsOK(p) /\ TargetsStay(req[p]) /\ HandlersOK
  BY DEF RevocationOK
<1>1. ASSUME NothingListed, req[p].todo = {},
             \A c \in req'[p].todo : c.op \notin {"list", "unlist", "writeList"}
      PROVE  ListsOK(p)'
  <2>1. UnlistsDoomed(p)'
    BY <1>1 DEF UnlistsDoomed
  <2> QED BY <1>0, <1>1, <2>1, ListsHandedOver
<1>2. ASSUME row' = row, devices' = devices PROVE NothingListed
  BY <1>2 DEF NothingListed
<1>3. ASSUME Arrive(p) PROVE ListsOK(p)'
  <2>1. /\ NothingListed /\ req[p].todo = {}
        /\ req'[p].todo = {} \/ \E j \in Jtis : req'[p].todo = RevocationOf(j)
    BY <1>0, <1>2, <1>3, ArriveTodo
  <2>2. ASSUME NEW j \in Jtis, req'[p].todo = RevocationOf(j) PROVE ListsOK(p)'
    <3> DEFINE a == Cmd("revokeRow", {j})
               d == Cmd("unlist", {j})
               e == Cmd("blacklist", {j})
    <3>1. /\ a.op = "revokeRow" /\ a.on = {j} /\ d.op = "unlist" /\ d.on = {j}
          /\ e.op = "blacklist"
      BY DEF Cmd
    <3>2. req'[p].todo = {a, d, e}
      BY <2>2 DEF RevocationOf, RevokeInRedis
    <3> HIDE DEF a, d, e
    <3>3. Doomed(p, j)'
      BY <3>1, <3>2 DEF Doomed, RevokePending, Names
    <3>4. UnlistsDoomed(p)'
      BY <3>1, <3>2, <3>3 DEF UnlistsDoomed
    <3> QED BY <1>0, <2>1, <3>1, <3>2, <3>4, ListsHandedOver
  <2> QED BY <1>1, <2>1, <2>2
<1>4. ASSUME NEW pc, NEW todo, Goto(p, pc, todo), req[p].todo = {}, NothingListed,
             \A c \in todo : c.op \notin {"list", "unlist", "writeList"}
      PROVE  ListsOK(p)'
  BY <1>1, <1>4, GotoRequest
<1>5. ASSUME LoginLimit(p) PROVE ListsOK(p)'
  <2> DEFINE todo == IF LimitReached(req[p].user) THEN Eviction(Oldest(req[p].user)) ELSE {}
  <2>1. Goto(p, "create", todo) /\ req[p].todo = {} /\ NothingListed
    BY <1>2, <1>5 DEF LoginLimit, At, stores
  <2>2. \A c \in todo : c.op \notin {"list", "unlist", "writeList"}
    BY DEF Eviction, RevokeInRedis, Cmd
  <2> HIDE DEF todo
  <2> QED BY <1>4, <2>1, <2>2
<1>6. ASSUME NEW j \in Jtis, LoginCreate(p, j) PROVE ListsOK(p)'
  BY <1>0, <1>6, ListsCreate
<1>7. ASSUME Sign(p) \/ ClearCookies(p) \/ Finish(p) PROVE ListsOK(p)'
  <2>1. NothingListed
    BY <1>2, <1>7 DEF Sign, ClearCookies, Finish, stores
  <2>2. req[p].todo = {} /\ req'[p].todo = {}
    BY <1>7, Ended DEF Idle
  <2> QED BY <1>1, <2>1, <2>2
<1>8. ASSUME RefreshRotate(p) PROVE ListsOK(p)'
  <2> DEFINE todo == {Cmd("cache", {req[p].jti})}
  <2>1. /\ req[p].todo = {} /\ devices' = devices
        /\ row' = [row EXCEPT ![req[p].jti] = Rotated(req[p])]
        /\ Goto(p, "sign", todo)
    BY <1>8 DEF RefreshRotate, At
  <2>2. \A k \in Jtis : row[k] \in Row
    BY DEF TypeOK
  <2>3. NothingListed
    BY <2>1, <2>2 DEF NothingListed, Rotated, TypeOK, Row
  <2>4. \A c \in todo : c.op = "cache"
    BY DEF Cmd
  <2> HIDE DEF todo
  <2> QED BY <1>4, <2>1, <2>3, <2>4
<1>9. ASSUME RevokeAll(p) PROVE ListsOK(p)'
  <2> DEFINE todo == {Cmd("revokeRows", {})} \cup RevokeInRedis(Unrevoked(req[p].user))
  <2>1. NothingListed /\ req[p].todo = {} /\ Goto(p, "done", todo)
    BY <1>2, <1>9 DEF RevokeAll, stores, At
  <2>2. \A c \in todo : c.op \notin {"list", "unlist", "writeList"}
    BY DEF RevokeInRedis, Cmd
  <2> HIDE DEF todo
  <2> QED BY <1>4, <2>1, <2>2
<1>10. ASSUME ResetApply(p) PROVE ListsOK(p)'
  <2> DEFINE todo == ResetCommands(req[p].user)
  <2>1. NothingListed /\ req[p].todo = {} /\ Goto(p, "done", todo)
    BY <1>2, <1>10 DEF ResetApply, stores, At
  <2>2. \A c \in todo : c.op \notin {"list", "unlist", "writeList"}
    BY DEF ResetCommands, RevokeInRedis, Cmd
  <2> HIDE DEF todo
  <2> QED BY <1>4, <2>1, <2>2
<1>11. ASSUME OthersRevoke(p) PROVE ListsOK(p)'
  <2>0. PICK S : S = req[p].targets
    OBVIOUS
  <2> DEFINE d == Cmd("unlist", S)
  <2>1. /\ devices' = devices /\ req[p].todo = {} /\ S = OthersOf(req[p])
        /\ row' = RevokeRows(S) /\ Goto(p, "done", {d} \cup RevokeInRedis(S))
    BY <1>0, <1>11, <2>0 DEF OthersRevoke, At, TargetsStay
  <2>2. d.op = "unlist" /\ d.on = S /\ \A c \in RevokeInRedis(S) : c.op = "blacklist"
    BY RevokeInRedisNames DEF Cmd
  <2> HIDE DEF d
  <2>3. req'[p].todo = {d} \cup RevokeInRedis(S)
    BY <2>1, GotoRequest
  <2>4. \A k \in Jtis : /\ row'[k].user = row[k].user
                        /\ row'[k].revoked = (row[k].revoked \/ k \in S)
    BY <2>1, RevokedRows
  <2>5. S \subseteq Jtis
    BY <2>1 DEF OthersOf, Unrevoked, Owned
  <2>6. UnlistsDoomed(p)'
    BY <2>2, <2>3, <2>4, <2>5 DEF UnlistsDoomed, Doomed
  <2>7. NothingListed
    BY <2>1, <2>4 DEF NothingListed
  <2> QED BY <1>0, <2>1, <2>2, <2>3, <2>6, <2>7, ListsHandedOver
<1>12. ASSUME Perform(p) PROVE ListsOK(p)'
  BY <1>0, <1>12, ListsPerform
<1>13. ASSUME Serve(p) PROVE ListsOK(p)'
  BY <1>5, <1>6, <1>7, <1>8, <1>9, <1>10, <1>11, <1>12, <1>13 DEF Serve
<1>14. ASSUME Tick \/ (\E u \in Users : IssueResetToken(u)) \/ UNCHANGED vars
       PROVE  ListsOK(p)'
  <2>1. req' = req /\ devices' = devices
    BY <1>14 DEF Tick, IssueResetToken, vars, stores
  <2>2. \A j \in Jtis : row[j] \in Row
    BY DEF TypeOK
  <2>3. \A j \in Jtis : row'[j].revoked = row[j].revoked /\ row'[j].user = row[j].user
    BY <1>14, <2>2 DEF Tick, IssueResetToken, vars, stores, Row
  <2>4. \A v : Owned(v)' = Owned(v) /\ Owned(v) \subseteq Jtis
    BY <2>3 DEF Owned
  <2>5. \A j \in Jtis : Doomed(p, j)' <=> Doomed(p, j)
    BY <2>1, <2>3 DEF Doomed, RevokePending, Names, Has, Unrevoked, Owned
  <2>6. GoodOnesListed(p)' /\ WritesGoodOnes(p)'
    BY <1>0, <2>1, <2>4, <2>5 DEF ListsOK, GoodOnesListed, WritesGoodOnes, Names, Has
  <2>7. UnlistsDoomed(p)'
    <3> SUFFICES ASSUME NEW d \in req[p].todo, d.op = "unlist", NEW j \in d.on
                 PROVE  Doomed(p, j)'
      BY <2>1 DEF UnlistsDoomed
    <3>1. j \in Jtis
      BY DEF TypeOK, Request, Command
    <3> QED BY <1>0, <2>5, <3>1 DEF ListsOK, UnlistsDoomed
  <2> QED BY <1>0, <2>1, <2>6, <2>7 DEF ListsOK, OneListCommand
<1> QED BY <1>3, <1>13, <1>14, StepKinds

(* One request at a time and nothing failing, the device list of a user    *)
(* has every session that is still good, however many the removals of a    *)
(* logout-others write back.                                               *)
THEOREM DevicesCorrect ==
  ASSUME Serial, Reliable
  PROVE  Spec => []DevicesListed
<1> DEFINE I == \A p \in Slots : ListsOK(p)
<1>1. Init => I
  BY NoneAssumption DEF Init, NoRow, Idle, Owned, ListsOK, GoodOnesListed, WritesGoodOnes,
     UnlistsDoomed, OneListCommand
<1>2. TypeOK /\ RequestsOwnSessions /\ RevocationOK /\ I /\ [Next]_vars => I'
  BY ListsStep
<1>3. RevocationOK /\ I => DevicesListed
  <2> SUFFICES ASSUME RevocationOK, I, Quiet, NEW u \in Users, NEW j \in Active(u)
               PROVE  j \in Listed(devices[u])
    BY DEF DevicesListed
  <2>1. PICK p \in Slots : req[p].todo = {}
    BY DEF Serial, Quiet, Free, RevocationOK, HandlersOK, TodoOK
  <2>2. j \in Owned(u) /\ ~row[j].revoked
    BY DEF Active, Unrevoked
  <2>3. ~Doomed(p, j) /\ ~Names(p, "list", j) /\ ~Has(p, "writeList")
    BY <2>1, <2>2 DEF Doomed, RevokePending, Names, Has
  <2> QED BY <2>2, <2>3 DEF ListsOK, GoodOnesListed
<1> HIDE DEF I
<1> QED BY <1>1, <1>2, <1>3, RevocationAlways, PTL DEF Spec

-----------------------------------------------------------------------------
(* The theft alarm. *)

(* Inside a refresh the row is ahead of the browser: the new token is the  *)
(* one stored, the old one the one held.  That the browser of the request  *)
(* is the only one to fall behind takes that no two browsers hold tokens   *)
(* of one session, and that the answer on its way has the stored token.    *)
Renewing(p, b) ==
  req[p].pc = "sign" /\ req[p].browser = b /\ req[p].jti = jar[b].refresh.jti
TokenStored(p, b) ==
  LET t == jar[b].refresh IN
  t # NoToken =>
    /\ t.jti \in Opened
    /\ jar[b].jti \in {t.jti, None}
    /\ Renewing(p, b) \/ t.n = row[t.jti].hash
HeldOnce ==
  \A b, c \in Browsers :
    jar[b].refresh # NoToken /\ jar[b].refresh.jti = jar[c].refresh.jti => b = c
HeldByItsBrowser(r) ==
  r.pc \in {"rotate", "sign"} =>
    \A b \in Browsers : jar[b].refresh.jti = r.jti => b = r.browser
SignsStored(r) == r.pc = "sign" => row[r.jti].hash = r.tok

TokensOK(p) ==
  /\ \A b \in Browsers : TokenStored(p, b)
  /\ HeldOnce
  /\ HeldByItsBrowser(req[p])
  /\ SignsStored(req[p])
  /\ req[p].by # "google"

(* Cookies may go, rows may wane, and the request waits on or is another's. *)
LEMMA TokensKept ==
  ASSUME TypeOK, RequestsOwnSessions, NEW p \in Slots, TokensOK(p),
         \A b \in Browsers : /\ jar'[b].refresh \in {jar[b].refresh, NoToken}
                             /\ jar'[b].jti \in {jar[b].jti, None},
         \A j \in Opened : j \in Opened' /\ row'[j].hash = row[j].hash,
         req'[p].by # "google",
         \/ /\ req'[p].pc = req[p].pc /\ req'[p].browser = req[p].browser
            /\ req'[p].jti = req[p].jti /\ req'[p].tok = req[p].tok
         \/ req[p].pc # "sign" /\ req'[p].pc \notin {"rotate", "sign"}
  PROVE  TokensOK(p)'
<1>1. \A b \in Browsers : jar'[b].refresh # NoToken =>
        /\ jar'[b].refresh = jar[b].refresh
        /\ jar[b].refresh.jti \in Opened /\ jar[b].refresh.jti # None
  BY NoneAssumption DEF TokensOK, TokenStored, Opened
<1>2. NoToken.jti = None
  BY DEF NoToken
<1>3. ASSUME NEW b \in Browsers PROVE TokenStored(p, b)'
  BY <1>1 DEF TokensOK, TokenStored, Renewing
<1>4. HeldOnce'
  <2> SUFFICES ASSUME NEW b \in Browsers, NEW c \in Browsers, jar'[b].refresh # NoToken,
                      jar'[b].refresh.jti = jar'[c].refresh.jti
               PROVE  b = c
    BY DEF HeldOnce
  <2>1. jar'[c].refresh # NoToken
    BY <1>1, <1>2
  <2> QED BY <1>1, <2>1 DEF TokensOK, HeldOnce
<1>5. HeldByItsBrowser(req[p])'
  <2> SUFFICES ASSUME req'[p].pc \in {"rotate", "sign"}, NEW b \in Browsers,
                      jar'[b].refresh.jti = req'[p].jti
               PROVE  b = req'[p].browser
    BY DEF HeldByItsBrowser
  <2>1. req[p].jti # None
    BY NamesOpened, NoneAssumption
  <2>2. jar'[b].refresh # NoToken
    BY <1>2, <2>1
  <2> QED BY <1>1, <2>2 DEF TokensOK, HeldByItsBrowser
<1>6. SignsStored(req[p])'
  BY NamesOpened DEF TokensOK, SignsStored
<1> QED BY <1>3, <1>4, <1>5, <1>6 DEF TokensOK

(* A browser sends the token that is stored: no other has one to send. *)
LEMMA TokensMatched ==
  ASSUME TypeOK, NEW p \in Slots, TokensOK(p), NEW b \in Browsers, RefreshMatch(p, b)
  PROVE  TokensOK(p)'
<1>1. /\ req'[p].pc = "rotate" /\ req'[p].by = "refresh" /\ req'[p].browser = b
      /\ req'[p].jti = jar[b].jti
  BY MatchStarts
<1>2. jar' = jar /\ row' = row /\ req[p].pc = "idle"
  BY DEF RefreshMatch, stores, Start, Free
<1>3. jar[b].refresh # NoToken /\ jar[b].refresh.jti = jar[b].jti
  BY DEF RefreshMatch, Refreshable, Matches
<1>4. HeldByItsBrowser(req[p])'
  BY <1>1, <1>2, <1>3 DEF TokensOK, HeldOnce, HeldByItsBrowser
<1> QED BY <1>1, <1>2, <1>4 DEF TokensOK, TokenStored, HeldOnce, SignsStored, Renewing, Opened

(* A new session's token is nobody's yet. *)
LEMMA TokensCreate ==
  ASSUME TypeOK, RequestsOwnSessions, OpenedStay, NEW p \in Slots, TokensOK(p),
         NEW j \in Jtis, LoginCreate(p, j)
  PROVE  TokensOK(p)'
<1>1. /\ req[p].pc = "create" /\ req'[p].pc = "sign" /\ req'[p].jti = j
      /\ req'[p].by = req[p].by /\ req'[p].tok = 1
      /\ row[j].user = None /\ row'[j].hash = 1
      /\ \A k \in Jtis : k # j => row'[k] = row[k]
  BY Created
<1>2. jar' = jar
  BY DEF LoginCreate
<1>3. NoToken.jti = None
  BY DEF NoToken
<1>4. \A b \in Browsers : jar[b].refresh.jti # j
  BY <1>1, <1>3, NoneAssumption DEF TokensOK, TokenStored, Opened
<1>5. ASSUME NEW b \in Browsers, jar[b].refresh # NoToken
      PROVE  /\ jar[b].refresh.jti \in Opened /\ jar[b].refresh.jti \in Jtis
             /\ jar[b].refresh.n = row[jar[b].refresh.jti].hash
  BY <1>1, <1>5 DEF TokensOK, TokenStored, Renewing, Opened
<1>6. \A b \in Browsers : TokenStored(p, b)'
  BY <1>1, <1>2, <1>4, <1>5 DEF TokensOK, TokenStored, OpenedStay
<1> QED BY <1>1, <1>2, <1>4, <1>6 DEF TokensOK, HeldOnce, HeldByItsBrowser, SignsStored

(* The row runs ahead of the only browser that has a token of it. *)
LEMMA TokensRotate ==
  ASSUME TypeOK, RequestsOwnSessions, OpenedStay, NEW p \in Slots, TokensOK(p), RefreshRotate(p)
  PROVE  TokensOK(p)'
<1>1. /\ req[p].pc = "rotate" /\ jar' = jar
      /\ row' = [row EXCEPT ![req[p].jti] = Rotated(req[p])]
      /\ Goto(p, "sign", {Cmd("cache", {req[p].jti})})
  BY DEF RefreshRotate, At
<1>2. /\ req'[p].pc = "sign" /\ req'[p].jti = req[p].jti /\ req'[p].tok = req[p].tok
      /\ req'[p].browser = req[p].browser /\ req'[p].by = req[p].by
  BY <1>1, GotoRequest
<1>3. req[p].jti \in Jtis
  BY <1>1, NamesOpened
<1>4. /\ row'[req[p].jti].hash = req[p].tok
      /\ \A k \in Jtis : k # req[p].jti => row'[k] = row[k]
  <2>1. row[req[p].jti] \in Row
    BY <1>3 DEF TypeOK
  <2> QED BY <1>1, <1>3, <2>1 DEF Rotated, TypeOK, Row
<1>5. ASSUME NEW b \in Browsers, jar[b].refresh # NoToken PROVE TokenStored(p, b)'
  <2>1. /\ jar[b].refresh.jti \in Opened /\ jar[b].refresh.jti \in Jtis
        /\ jar[b].jti \in {jar[b].refresh.jti, None}
        /\ jar[b].refresh.n = row[jar[b].refresh.jti].hash
    BY <1>1, <1>5 DEF TokensOK, TokenStored, Renewing, Opened
  <2>2. jar[b].refresh.jti \in Opened'
    BY <2>1 DEF OpenedStay
  <2>3. CASE jar[b].refresh.jti = req[p].jti
    <3>1. b = req[p].browser
      BY <1>1, <2>3 DEF TokensOK, HeldByItsBrowser
    <3> QED BY <1>1, <1>2, <2>1, <2>2, <2>3, <3>1 DEF TokenStored, Renewing
  <2>4. CASE jar[b].refresh.jti # req[p].jti
    BY <1>1, <1>4, <2>1, <2>2, <2>4 DEF TokenStored
  <2> QED BY <2>3, <2>4
<1>6. \A b \in Browsers : TokenStored(p, b)'
  <2>1. ASSUME NEW b \in Browsers, jar[b].refresh = NoToken PROVE TokenStored(p, b)'
    BY <1>1, <2>1 DEF TokenStored
  <2> QED BY <1>5, <2>1
<1> QED BY <1>1, <1>2, <1>4, <1>6 DEF TokensOK, HeldOnce, HeldByItsBrowser, SignsStored

(* The answer brings the browser the stored token. *)
LEMMA TokensSign ==
  ASSUME Reliable, TypeOK, RequestsOwnSessions, CookiesOK, NEW p \in Slots, TokensOK(p), Sign(p)
  PROVE  TokensOK(p)'
<1> DEFINE r == req[p]
           c == SetCookies(jar[r.browser], r)
<1>1. /\ r.pc = "sign" /\ row' = row /\ req'[p].pc = "idle" /\ req'[p].by = "none"
      /\ jar' = [jar EXCEPT ![r.browser] = c]
  <2>1. Respond(r.browser, c)
    BY DEF Sign
  <2>2. jar' = [jar EXCEPT ![r.browser] = c]
    <3> HIDE DEF r, c
    <3>1. PICK b, cookies : Respond(b, cookies) /\ b = r.browser /\ cookies = c
      BY <2>1
    <3> QED BY <3>1, Delivered
  <2>3. req'[p] = Idle
    BY Ended
  <2> QED BY <2>2, <2>3 DEF Sign, At, stores, Idle
<1>2. r.jti \in Jtis /\ r.jti \in Opened /\ r.jti # None
  BY <1>1, NamesOpened, NoneAssumption
<1>3. /\ c.refresh.jti = r.jti /\ c.refresh.n = r.tok /\ c.refresh # NoToken
      /\ r.browser \in Browsers => c.jti \in {r.jti, None}
  <2>1. r.by \in {"password", "refresh"}
    BY <1>1 DEF CookiesOK, AnswerFits, TokensOK
  <2>2. c.refresh = [jti |-> r.jti, n |-> r.tok]
    BY DEF SetCookies
  <2>3. r.by = "refresh" => jar[r.browser].jti \in {r.jti, None}
    BY <1>1 DEF CookiesOK, AnswerFits
  <2> QED BY <1>2, <2>1, <2>2, <2>3 DEF SetCookies, NoToken
<1>4. \A b \in Browsers : jar'[b] = IF b = r.browser THEN c ELSE jar[b]
  BY <1>1 DEF TypeOK
<1>5. row[r.jti].hash = r.tok
  BY <1>1 DEF TokensOK, SignsStored
<1>6. Opened' = Opened
  BY <1>1 DEF Opened
<1>7. \A b \in Browsers : b # r.browser =>
        /\ ~Renewing(p, b) /\ jar[b].refresh.jti # r.jti
  BY <1>1 DEF TokensOK, HeldByItsBrowser, Renewing
<1> HIDE DEF r, c
<1>8. ASSUME NEW b \in Browsers PROVE TokenStored(p, b)'
  <2>1. CASE b = r.browser
    BY <1>1, <1>2, <1>3, <1>4, <1>5, <1>6, <2>1 DEF TokenStored
  <2>2. CASE b # r.browser
    BY <1>1, <1>4, <1>6, <1>7, <2>2 DEF TokensOK, TokenStored
  <2> QED BY <2>1, <2>2
<1>9. HeldOnce'
  BY <1>3, <1>4, <1>7 DEF TokensOK, HeldOnce
<1> QED BY <1>1, <1>8, <1>9 DEF TokensOK, HeldByItsBrowser, SignsStored

LEMMA ArriveBy ==
  ASSUME NoGoogle, TypeOK, NEW p \in Slots, Arrive(p)
  PROVE  req'[p].by # "google"
<1>1. ASSUME NEW r, Start(p, r), r.by # "google" PROVE req'[p].by # "google"
  BY <1>1, Started
<1>2. ASSUME NEW b \in Browsers, RefreshMatch(p, b) PROVE req'[p].by # "google"
  BY <1>2, MatchStarts
<1>3. ASSUME NEW b \in Browsers, RefreshMismatch(p, b) PROVE req'[p].by # "google"
  BY <1>1, <1>3 DEF RefreshMismatch, Idle
<1>4. ASSUME NEW b \in Browsers, NEW u \in Users, NEW by \in {"password", "google"},
             LoginStart(p, b, u, by)
      PROVE  req'[p].by # "google"
  BY <1>1, <1>4 DEF LoginStart, Idle, NoGoogle
<1>5. ASSUME NEW b \in Browsers, Logout(p, b) PROVE req'[p].by # "google"
  BY <1>1, <1>5 DEF Logout, Idle
<1>6. ASSUME NEW j \in Jtis, NEW target \in Jtis, RevokeSession(p, j, target)
      PROVE  req'[p].by # "google"
  BY <1>1, <1>6 DEF RevokeSession, Idle
<1>7. ASSUME NEW j \in Jtis, LogoutOthers(p, j) PROVE req'[p].by # "google"
  BY <1>1, <1>7 DEF LogoutOthers, Idle
<1>8. ASSUME NEW u \in Users, ResetStart(p, u) PROVE req'[p].by # "google"
  BY <1>1, <1>8 DEF ResetStart, Idle
<1> QED BY <1>2, <1>3, <1>4, <1>5, <1>6, <1>7, <1>8 DEF Arrive

LEMMA AlarmStep ==
  ASSUME Serial, Reliable, NoGoogle
  PROVE  TypeOK /\ RequestsOwnSessions /\ CookiesOK /\ RevocationOK
           /\ (\A p \in Slots : TokensOK(p)) /\ [Next]_vars => \A p \in Slots : TokensOK(p)'
<1> SUFFICES ASSUME TypeOK, RequestsOwnSessions, CookiesOK, RevocationOK,
                    \A p \in Slots : TokensOK(p), [Next]_vars, NEW p \in Slots
             PROVE  TokensOK(p)'
  OBVIOUS
<1>0. TokensOK(p) /\ HandlersOK /\ OpenedStay /\ \A q \in Slots : q = p
  BY OpenedStayStep DEF RevocationOK, Serial
<1>1. ASSUME NEW j \in Jtis, LoginCreate(p, j) PROVE TokensOK(p)'
  BY <1>0, <1>1, TokensCreate
<1>2. ASSUME RefreshRotate(p) PROVE TokensOK(p)'
  BY <1>0, <1>2, TokensRotate
<1>3. ASSUME Sign(p) PROVE TokensOK(p)'
  BY <1>0, <1>3, TokensSign
<1>4. ASSUME NEW b \in Browsers, RefreshMatch(p, b) PROVE TokensOK(p)'
  BY <1>0, <1>4, TokensMatched
<1>5. CASE RowsWane
  <2>1. \A j \in Opened : j \in Opened' /\ row'[j].hash = row[j].hash
    BY <1>0, <1>5 DEF RowsWane, OpenedStay, Opened
  <2>2. ASSUME jar' = jar, req'[p].by # "google",
               \/ /\ req'[p].pc = req[p].pc /\ req'[p].browser = req[p].browser
                  /\ req'[p].jti = req[p].jti /\ req'[p].tok = req[p].tok
               \/ req[p].pc # "sign" /\ req'[p].pc \notin {"rotate", "sign"}
        PROVE  TokensOK(p)'
    BY <1>0, <2>1, <2>2, TokensKept
  <2>3. ASSUME Arrive(p), \A b \in Browsers : ~RefreshMatch(p, b) PROVE TokensOK(p)'
    <3>1. req[p].pc = "idle" /\ jar' = jar
      BY <1>0, <2>3, ArriveTodo
    <3>2. req'[p].pc \notin {"rotate", "sign"}
      BY <2>3, ArrivePc
    <3>3. req'[p].by # "google"
      BY <2>3, ArriveBy
    <3> QED BY <2>2, <3>1, <3>2, <3>3
  <2>4. ASSUME NEW pc \in {"create", "done"}, NEW todo, Goto(p, pc, todo), jar' = jar,
               req[p].pc # "sign"
        PROVE  TokensOK(p)'
    BY <1>0, <2>2, <2>4, GotoRequest DEF TokensOK
  <2>5. ASSUME LoginLimit(p) PROVE TokensOK(p)'
    BY <2>4, <2>5 DEF LoginLimit, At
  <2>6. ASSUME RevokeAll(p) PROVE TokensOK(p)'
    BY <2>4, <2>6 DEF RevokeAll, At
  <2>7. ASSUME OthersRevoke(p) PROVE TokensOK(p)'
    BY <2>4, <2>7 DEF OthersRevoke, At
  <2>8. ASSUME ResetApply(p) PROVE TokensOK(p)'
    BY <2>4, <2>8 DEF ResetApply, At
  <2>9. ASSUME Perform(p) PROVE TokensOK(p)'
    BY <1>0, <2>2, <2>9, PerformFields DEF TokensOK
  <2>10. ASSUME Finish(p) PROVE TokensOK(p)'
    <3>1. req'[p] = Idle
      BY <2>10, Ended
    <3>2. req[p].pc \in {"done", "gone"} /\ jar' = jar
      BY <2>10 DEF Finish, At
    <3> QED BY <2>2, <3>1, <3>2 DEF Idle
  <2>11. ASSUME ClearCookies(p) PROVE TokensOK(p)'
    <3>1. /\ req[p].pc = "clear" /\ req'[p].pc = "idle" /\ req'[p].by = "none"
          /\ jar' = [jar EXCEPT ![req[p].browser] = EmptyJar]
      <4>1. PICK b : b = req[p].browser
        OBVIOUS
      <4>2. Respond(b, EmptyJar) /\ req[p].pc = "clear"
        BY <2>11, <4>1 DEF ClearCookies, At
      <4>3. jar' = [jar EXCEPT ![b] = EmptyJar]
        BY <4>2, Delivered
      <4>4. req'[p] = Idle
        BY <2>11, Ended
      <4> QED BY <4>1, <4>2, <4>3, <4>4 DEF Idle
    <3>2. \A b \in Browsers : jar'[b] \in {jar[b], EmptyJar}
      BY <3>1 DEF TypeOK
    <3>3. EmptyJar.refresh = NoToken /\ EmptyJar.jti = None
      BY DEF EmptyJar
    <3> QED BY <1>0, <2>1, <3>1, <3>2, <3>3, TokensKept
  <2>12. ASSUME Tick PROVE TokensOK(p)'
    <3>1. ASSUME NEW b \in Browsers
          PROVE  /\ jar'[b].refresh \in {jar[b].refresh, NoToken}
                 /\ jar'[b].jti \in {jar[b].jti, None}
      <4>1. jar'[b] = Aged(jar[b]) /\ jar[b] \in Jar
        BY <2>12 DEF Tick, TypeOK
      <4> QED BY <4>1 DEF Aged, Jar
    <3>2. req' = req
      BY <2>12 DEF Tick
    <3> QED BY <1>0, <2>1, <3>1, <3>2, TokensKept DEF TokensOK
  <2>13. ASSUME (\E u \in Users : IssueResetToken(u)) \/ UNCHANGED vars PROVE TokensOK(p)'
    BY <1>0, <2>2, <2>13 DEF IssueResetToken, vars, TokensOK
  <2>14. ASSUME Serve(p) PROVE TokensOK(p)'
    BY <1>1, <1>2, <1>3, <2>5, <2>6, <2>7, <2>8, <2>9, <2>10, <2>11, <2>14 DEF Serve
  <2> QED BY <1>4, <2>3, <2>12, <2>13, <2>14, StepKinds
<1>6. \/ RowsWane
      \/ \E j \in Jtis : LoginCreate(p, j)
      \/ RefreshRotate(p)
  BY <1>0, RowKinds
<1> QED BY <1>1, <1>2, <1>5, <1>6

(* One request at a time and nothing failing, where nobody logs in through *)
(* Google, the theft alarm is never raised against the browser that holds  *)
(* a session's newest token.                                               *)
THEOREM AlarmCorrect ==
  ASSUME Serial, Reliable, NoGoogle
  PROVE  Spec => []NoFalseAlarm
<1> DEFINE I == \A p \in Slots : TokensOK(p)
<1>1. Init => I
  BY DEF Init, EmptyJar, Idle, TokensOK, TokenStored, HeldOnce, HeldByItsBrowser, SignsStored
<1>2. TypeOK /\ RequestsOwnSessions /\ CookiesOK /\ RevocationOK /\ I /\ [Next]_vars => I'
  BY AlarmStep
<1>3. TypeOK /\ I => NoFalseAlarm
  <2> SUFFICES ASSUME TypeOK, I, Quiet, NEW b \in Browsers, Refreshable(b)
               PROVE  Matches(b)
    BY DEF NoFalseAlarm
  <2>1. PICK p \in Slots : TokensOK(p) /\ req[p].pc = "idle"
    BY DEF Serial, Quiet, Free
  <2>2. jar[b].refresh # NoToken /\ jar[b].jti # None /\ ~Renewing(p, b)
    BY <2>1 DEF Refreshable, Renewing
  <2>3. jar[b].jti = jar[b].refresh.jti /\ jar[b].refresh.n = row[jar[b].refresh.jti].hash
    BY <2>1, <2>2 DEF TokensOK, TokenStored
  <2>4. jar[b].refresh \in RefreshToken
    BY DEF TypeOK, Jar
  <2> QED BY <2>3, <2>4 DEF Matches, RefreshToken
<1>4. TypeOK /\ RequestsOwnSessions /\ CookiesOK /\ [Next]_vars => CookiesOK'
  BY JarsStep, OpenedMintedStep, AnswerStep DEF CookiesOK
<1> HIDE DEF I
<1> QED BY <1>1, <1>2, <1>3, <1>4, CookiesInit, RevocationAlways, PTL DEF Spec
=============================================================================

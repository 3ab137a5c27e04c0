------------------------------ MODULE Sessions ------------------------------
(***************************************************************************)
(* Login sessions: the session handlers of AuthService and AuthController, *)
(* the session keys of RedisService and the token check of JwtStrategy.    *)
(*                                                                         *)
(* A request runs in a slot.  Between two awaits a handler is atomic; the  *)
(* statements it hands to one Promise.all are its `todo' commands, which   *)
(* MySQL and Redis perform one at a time, in any order and interleaved     *)
(* with those of the other slot.  Lifetimes are countdowns that Tick       *)
(* lowers together, so the clock itself needs no variable.                 *)
(*                                                                         *)
(* Left out: the action log, lastLoginAt and device names (no handler      *)
(* reads them), the account status (Registration's business: the users     *)
(* here are ACTIVE), and the 30-day lifetime of the device list, which     *)
(* outlasts every run's horizon.                                           *)
(***************************************************************************)
EXTENDS Naturals, FiniteSets

CONSTANTS
  Users, Browsers, Jtis, Slots,
  None,           \* "no user", "no session", "no browser"
  MAX_SESSIONS,   \* auth.service.ts: 5 devices
  ACCESS_TTL,     \* lifetime of an access token, in ticks (15 minutes)
  REFRESH_TTL,    \* lifetime of a session and its cookies, in ticks (7 days)
  Ops,            \* the endpoints that take part in this instance
  MaxTokens,      \* bound: refresh tokens generated for one session
  MaxPasswords,   \* bound: passwords a user has had
  MaxFaults       \* bound: rejected statements, crashes and lost responses

AllOps ==
  {"password", "google", "refresh", "logout", "revoke", "others", "reset"}

ASSUME NoneAssumption == None \notin Users \cup Browsers \cup Jtis
ASSUME FiniteAssumption == IsFiniteSet(Jtis)
ASSUME TtlAssumption ==
  /\ ACCESS_TTL \in Nat \ {0}
  /\ REFRESH_TTL \in Nat
  /\ ACCESS_TTL <= REFRESH_TTL
ASSUME LimitAssumption == MAX_SESSIONS \in Nat \ {0}
ASSUME OpsAssumption == Ops \subseteq AllOps
ASSUME BoundsAssumption ==
  MaxTokens \in Nat /\ MaxPasswords \in Nat /\ MaxFaults \in Nat

VARIABLES
  row,        \* MySQL sessions, by jti
  password,   \* MySQL users: which of its passwords the user has (an epoch)
  resetToken, \* Redis reset:token:*, the users holding a valid one
  blacklist,  \* Redis revoked:<jti>, remaining lifetime
  cached,     \* Redis session:<jti>, remaining lifetime
  devices,    \* Redis user:sessions:<user>: {} no key, {L} the list L
  access,     \* remaining lifetime of a session's newest access token ...
  late,       \* ... and of its newest one signed after its blacklisting
  dead,       \* history: the sessions ever blacklisted
  minted,     \* refresh tokens generated for a session so far
  jar,        \* the cookies of a browser
  req,        \* the request in each slot
  faults      \* faults so far

stores == <<row, password, resetToken, blacklist, cached, devices>>
tokens == <<access, late, dead, minted>>
vars == <<stores, tokens, jar, req, faults>>

-----------------------------------------------------------------------------
(* The shapes of the state. *)

NoRow ==
  [user |-> None, ver |-> 0, hash |-> 0, left |-> 0, revoked |-> FALSE,
   pwd |-> 0, born |-> 0]

(* `hash' names the refresh token whose hash is stored, `pwd' is a history *)
(* field: the password the session was opened with, 0 for Google.          *)
Row ==
  [user : Users \cup {None}, ver : Nat, hash : Nat, left : 0..REFRESH_TTL,
   revoked : BOOLEAN, pwd : Nat, born : Nat]

NoToken == [jti |-> None, n |-> 0]
RefreshToken == [jti : Jtis \cup {None}, n : Nat]

EmptyJar ==
  [access |-> None, jti |-> None, jtiLeft |-> 0,
   refresh |-> NoToken, refreshLeft |-> 0]

Jar ==
  [access : Jtis \cup {None}, jti : Jtis \cup {None},
   jtiLeft : 0..REFRESH_TTL,
   refresh : RefreshToken, refreshLeft : 0..REFRESH_TTL]

CommandNames ==
  {"revokeRow", "revokeRows", "setPassword", "dropToken",
   "blacklist", "cache", "list", "unlist", "writeList"}

(* `on': the sessions the command names, `list': the device list to write *)
Command == [op : CommandNames, on : SUBSET Jtis, list : SUBSET Jtis]

Cmd(op, S) == [op |-> op, on |-> S, list |-> {}]

Idle ==
  [pc |-> "idle", by |-> "none", browser |-> None, user |-> None,
   jti |-> None, tok |-> 0, ver |-> 0, pwd |-> 0,
   targets |-> {}, todo |-> {}]

PCs ==
  {"idle", "limit", "create", "rotate", "sign", "mismatch", "clear",
   "others", "reset", "done", "gone"}

Request ==
  [pc : PCs, by : AllOps \cup {"none"}, browser : Browsers \cup {None},
   user : Users \cup {None}, jti : Jtis \cup {None}, tok : Nat, ver : Nat,
   pwd : Nat, targets : SUBSET Jtis, todo : SUBSET Command]

-----------------------------------------------------------------------------
(* What the handlers read. *)

Opened == {j \in Jtis : row[j].user # None}

Owned(u) == {j \in Jtis : row[j].user = u}

Unrevoked(u) == {j \in Owned(u) : ~row[j].revoked}

(* where: { userId, revokedAt: null, expiresAt: { gt: now } } *)
ActiveOfAnyone(u) == {j \in Opened : ~row[j].revoked /\ row[j].left > 0}
Active(u) == {j \in Unrevoked(u) : row[j].left > 0}

(* orderBy: { createdAt: 'asc' }, the first of the list *)
Oldest(u) == {j \in Active(u) : \A k \in Active(u) : row[j].born <= row[k].born}

LimitPassed(u) == Cardinality(Active(u)) > MAX_SESSIONS
LimitReached(u) == Cardinality(Active(u)) >= MAX_SESSIONS

(* JwtStrategy: the signature holds, the token has not expired, and the    *)
(* jti is not on the blacklist.  Nothing looks at the session's row.       *)
Unexpired(j) == access[j] > 0 \/ late[j] > 0
AcceptedUntilRevoked(j) == blacklist[j] = 0 /\ j \in Opened
Accepted(j) == blacklist[j] = 0 /\ Unexpired(j)

(* RedisService.revokeSession and removeUserSession for each session of S. *)
(* One process talks to Redis over one connection: commands sent in one    *)
(* turn of the event loop are performed together, so that they are one     *)
(* command here.                                                           *)
NoBlacklist(S) == {}
RevokeInRedis(S) == IF S = {} THEN {} ELSE {Cmd("blacklist", S)}

(* Requests about to open a session: the instance has Jtis for so many.    *)
LoggingIn == {p \in Slots : req[p].pc \in {"limit", "create"}}

Free(p) == req[p].pc = "idle"

(* A request takes the free slot p; its handler goes on to `pc', having     *)
(* handed `todo' to a Promise.all.                                         *)
Start(p, r) == Free(p) /\ req' = [req EXCEPT ![p] = r]
Goto(p, pc, todo) == req' = [req EXCEPT ![p].pc = pc, ![p].todo = todo]

(* The handler waits at `pc' and all it handed to a Promise.all is done. *)
At(p, pc) == req[p].pc = pc /\ req[p].todo = {}

(* updateMany or update: revokedAt of the rows it finds *)
RevokeRows(S) == [j \in Jtis |->
  IF j \in S THEN [row[j] EXCEPT !.revoked = TRUE] ELSE row[j]]

-----------------------------------------------------------------------------
Init ==
  /\ row = [j \in Jtis |-> NoRow]
  /\ password = [u \in Users |-> 1]
  /\ resetToken = {}
  /\ blacklist = [j \in Jtis |-> 0]
  /\ cached = [j \in Jtis |-> 0]
  /\ devices = [u \in Users |-> {}]
  /\ access = [j \in Jtis |-> 0]
  /\ late = [j \in Jtis |-> 0]
  /\ dead = {}
  /\ minted = [j \in Jtis |-> 0]
  /\ jar = [b \in Browsers |-> EmptyJar]
  /\ req = [p \in Slots |-> Idle]
  /\ faults = 0

-----------------------------------------------------------------------------
(* POST /auth/login and GET /auth/google/callback.  Both end in the same   *)
(* steps: read the sessions and evict the oldest at the limit, create the  *)
(* row, cache it and list it, sign.                                        *)

(* The user is read and the password compared: bcrypt works on the hash    *)
(* read here, however long it takes.                                       *)
LoginStart(p, b, u, by) ==
  /\ by \in Ops \cap {"password", "google"}
  /\ Cardinality(Opened) + Cardinality(LoggingIn) < Cardinality(Jtis)
  /\ Start(p, [Idle EXCEPT
       !.pc = "limit", !.by = by, !.browser = b, !.user = u,
       !.pwd = IF by = "password" THEN password[u] ELSE 0])
  /\ UNCHANGED <<stores, tokens, jar, faults>>

Eviction(S) == {Cmd("revokeRow", S)} \cup RevokeInRedis(S)

(* enforceSessionLimit *)
LoginLimit(p) ==
  /\ At(p, "limit")
  /\ Goto(p, "create", IF LimitReached(req[p].user)
                         THEN Eviction(Oldest(req[p].user)) ELSE {})
  /\ UNCHANGED <<stores, tokens, jar, faults>>

(* session.create, then cacheSession and addUserSession side by side *)
LoginCreate(p, j) ==
  /\ At(p, "create")
  /\ row[j].user = None
  /\ row' = [row EXCEPT ![j] =
       [user |-> req[p].user, ver |-> 1, hash |-> 1, left |-> REFRESH_TTL,
        revoked |-> FALSE, pwd |-> req[p].pwd,
        born |-> Cardinality(Opened)]]
  /\ minted' = [minted EXCEPT ![j] = 1]
  /\ req' = [req EXCEPT
       ![p].pc = "sign", ![p].jti = j, ![p].tok = 1,
       ![p].todo = {Cmd("cache", {j}), Cmd("list", {j})}]
  /\ UNCHANGED <<password, resetToken, blacklist, cached, devices,
                 access, late, dead, jar, faults>>

(* The cookies a response sets: only the password login sets jti. *)
KeepRefreshCookie(cookies, r) ==
  [access |-> r.jti,
   jti |-> IF r.by = "password" THEN r.jti ELSE cookies.jti,
   jtiLeft |-> IF r.by = "password" THEN REFRESH_TTL ELSE cookies.jtiLeft,
   refresh |-> IF r.by = "refresh" THEN cookies.refresh
               ELSE [jti |-> r.jti, n |-> r.tok],
   refreshLeft |-> REFRESH_TTL]
KeepJtiCookie(cookies, r) ==
  [access |-> r.jti,
   jti |-> IF r.by = "password" /\ cookies.jti = None THEN r.jti ELSE cookies.jti,
   jtiLeft |-> IF r.by = "password" THEN REFRESH_TTL ELSE cookies.jtiLeft,
   refresh |-> [jti |-> r.jti, n |-> r.tok],
   refreshLeft |-> REFRESH_TTL]
SetCookies(cookies, r) ==
  [access |-> r.jti,
   jti |-> IF r.by = "password" THEN r.jti ELSE cookies.jti,
   jtiLeft |-> IF r.by = "password" THEN REFRESH_TTL ELSE cookies.jtiLeft,
   refresh |-> [jti |-> r.jti, n |-> r.tok],
   refreshLeft |-> REFRESH_TTL]

(* A response reaches the browser, or is lost on the way. *)
Respond(b, cookies) ==
  \/ /\ jar' = [jar EXCEPT ![b] = cookies]
     /\ UNCHANGED faults
  \/ /\ faults < MaxFaults
     /\ faults' = faults + 1
     /\ UNCHANGED jar

(* signAccessToken and the response of login, google and refresh *)
Sign(p) ==
  /\ At(p, "sign")
  /\ LET r == req[p] IN
       /\ IF r.jti \in dead
            THEN late' = [late EXCEPT ![r.jti] = ACCESS_TTL] /\ UNCHANGED access
            ELSE access' = [access EXCEPT ![r.jti] = ACCESS_TTL] /\ UNCHANGED late
       /\ Respond(r.browser, SetCookies(jar[r.browser], r))
  /\ req' = [req EXCEPT ![p] = Idle]
  /\ UNCHANGED <<stores, dead, minted>>

-----------------------------------------------------------------------------
(* POST /auth/refresh *)

(* Both cookies came with the request, and the row found by the jti cookie *)
(* is neither revoked nor expired.                                         *)
Refreshable(b) ==
  LET j == jar[b].jti IN
    /\ j # None
    /\ jar[b].refresh # NoToken
    /\ row[j].user # None
    /\ ~row[j].revoked
    /\ row[j].left > 0

Matches(b) ==
  jar[b].refresh = [jti |-> jar[b].jti, n |-> row[jar[b].jti].hash]

NextVersion(v) == v + 1

RefreshMatch(p, b) ==
  LET j == jar[b].jti IN
  /\ "refresh" \in Ops
  /\ Refreshable(b)
  /\ Matches(b)
  /\ minted[j] < MaxTokens
  /\ minted' = [minted EXCEPT ![j] = @ + 1]
  /\ Start(p, [Idle EXCEPT
       !.pc = "rotate", !.by = "refresh", !.browser = b,
       !.user = row[j].user, !.jti = j, !.tok = minted[j] + 1,
       !.ver = NextVersion(row[j].ver)])
  /\ UNCHANGED <<stores, access, late, dead, jar, faults>>

(* The three columns session.update sets, whatever became of the row since *)
(* it was read                                                             *)
RotatedUnrevoked(r) ==
  [row[r.jti] EXCEPT !.hash = r.tok, !.ver = r.ver, !.left = REFRESH_TTL,
                     !.revoked = FALSE]
RotatedKeepsHash(r) ==
  [row[r.jti] EXCEPT !.ver = r.ver, !.left = REFRESH_TTL]
Rotated(r) ==
  [row[r.jti] EXCEPT !.hash = r.tok, !.ver = r.ver, !.left = REFRESH_TTL]

(* session.update by jti, then cacheSession *)
RefreshRotate(p) ==
  LET r == req[p] IN
  /\ At(p, "rotate")
  /\ row' = [row EXCEPT ![r.jti] = Rotated(r)]
  /\ Goto(p, "sign", {Cmd("cache", {r.jti})})
  /\ UNCHANGED <<password, resetToken, blacklist, cached, devices, tokens,
                 jar, faults>>

(* The token is not the stored one: on to revokeAllUserSessions. *)
RefreshMismatch(p, b) ==
  LET j == jar[b].jti IN
  /\ "refresh" \in Ops
  /\ Refreshable(b)
  /\ ~Matches(b)
  /\ Start(p, [Idle EXCEPT !.pc = "mismatch", !.by = "refresh", !.browser = b,
                           !.user = row[j].user, !.jti = j])
  /\ UNCHANGED <<stores, tokens, jar, faults>>

(* revokeAllUserSessions: the blacklist commands name the sessions read    *)
(* here, the row update takes those it finds when MySQL performs it.       *)
RevokeAll(p) ==
  /\ At(p, "mismatch")
  /\ Goto(p, "done", {Cmd("revokeRows", {})}
                        \cup RevokeInRedis(Unrevoked(req[p].user)))
  /\ UNCHANGED <<stores, tokens, jar, faults>>

-----------------------------------------------------------------------------
(* logout and revokeSession: the row, the blacklist and the device list    *)
RevocationOf(j) ==
  {Cmd("revokeRow", {j}), Cmd("unlist", {j})} \cup RevokeInRedis({j})

(* POST /auth/logout: the access cookie passed the guard *)
Logout(p, b) ==
  LET j == jar[b].access IN
  /\ "logout" \in Ops
  /\ j # None
  /\ Accepted(j)
  /\ Start(p, [Idle EXCEPT !.pc = "clear", !.by = "logout", !.browser = b,
                           !.user = row[j].user, !.todo = RevocationOf(j)])
  /\ UNCHANGED <<stores, tokens, jar, faults>>

(* res.clearCookie, three times *)
ClearCookies(p) ==
  /\ At(p, "clear")
  /\ Respond(req[p].browser, EmptyJar)
  /\ req' = [req EXCEPT ![p] = Idle]
  /\ UNCHANGED <<stores, tokens>>

(* DELETE /auth/sessions/:id, by the holder of a token of session j: the   *)
(* target is looked up among the caller's sessions.                        *)
RevocableTargets(j) == {k \in Owned(row[j].user) : ~row[k].revoked}

RevokeSession(p, j, target) ==
  /\ "revoke" \in Ops
  /\ Accepted(j)
  /\ target \in RevocableTargets(j)
  /\ Start(p, [Idle EXCEPT !.pc = "done", !.by = "revoke",
                           !.user = row[j].user, !.todo = RevocationOf(target)])
  /\ UNCHANGED <<stores, tokens, jar, faults>>

(* POST /auth/logout-others, first read *)
LogoutOthers(p, j) ==
  LET others == Unrevoked(row[j].user) \ {j} IN
  /\ "others" \in Ops
  /\ Accepted(j)
  /\ others # {}
  /\ Start(p, [Idle EXCEPT !.pc = "others", !.by = "others",
                           !.user = row[j].user, !.jti = j,
                           !.targets = others])
  /\ UNCHANGED <<stores, tokens, jar, faults>>

(* where: { userId, revokedAt: null, NOT: { jti: currentJti } } *)
EveryOneOf(r) == Unrevoked(r.user)
OthersOf(r) == Unrevoked(r.user) \ {r.jti}

(* updateMany takes every other session it finds now; Redis is told of     *)
(* those read before.                                                      *)
OthersRevoke(p) ==
  LET r == req[p] IN
  /\ At(p, "others")
  /\ row' = RevokeRows(OthersOf(r))
  /\ Goto(p, "done", {Cmd("unlist", r.targets)} \cup RevokeInRedis(r.targets))
  /\ UNCHANGED <<password, resetToken, blacklist, cached, devices, tokens,
                 jar, faults>>

-----------------------------------------------------------------------------
(* POST /auth/reset-password *)

(* verifyResetOtp has mailed and checked an OTP: PasswordReset's business  *)
IssueResetToken(u) ==
  /\ "reset" \in Ops
  /\ u \notin resetToken
  /\ resetToken' = resetToken \cup {u}
  /\ UNCHANGED <<row, password, blacklist, cached, devices, tokens, jar, req,
                 faults>>

ResetStart(p, u) ==
  /\ "reset" \in Ops
  /\ u \in resetToken
  /\ password[u] < MaxPasswords
  /\ Start(p, [Idle EXCEPT !.pc = "reset", !.by = "reset", !.user = u])
  /\ UNCHANGED <<stores, tokens, jar, faults>>

(* The sessions are read after the new password is hashed; then the        *)
(* password, the rows, the blacklist and the token change side by side.    *)
ResetPasswordOnly(u) ==
  {Cmd("setPassword", {}), Cmd("dropToken", {})} \cup RevokeInRedis(Unrevoked(u))
ResetCommands(u) ==
  {Cmd("setPassword", {}), Cmd("revokeRows", {}), Cmd("dropToken", {})}
    \cup RevokeInRedis(Unrevoked(u))

ResetApply(p) ==
  /\ At(p, "reset")
  /\ Goto(p, "done", ResetCommands(req[p].user))
  /\ UNCHANGED <<stores, tokens, jar, faults>>

-----------------------------------------------------------------------------
(* The stores perform the commands of a slot. *)

Performed(p, c) == Goto(p, req[p].pc, req[p].todo \ {c})

PerformRevokeRow(p, c) ==
  /\ c.op = "revokeRow"
  /\ row' = RevokeRows(c.on)
  /\ Performed(p, c)
  /\ UNCHANGED <<password, resetToken, blacklist, cached, devices, dead>>

PerformRevokeRows(p, c) ==
  /\ c.op = "revokeRows"
  /\ row' = RevokeRows(Unrevoked(req[p].user))
  /\ Performed(p, c)
  /\ UNCHANGED <<password, resetToken, blacklist, cached, devices, dead>>

PerformSetPassword(p, c) ==
  /\ c.op = "setPassword"
  /\ password' = [password EXCEPT ![req[p].user] = @ + 1]
  /\ Performed(p, c)
  /\ UNCHANGED <<row, resetToken, blacklist, cached, devices, dead>>

PerformDropToken(p, c) ==
  /\ c.op = "dropToken"
  /\ resetToken' = resetToken \ {req[p].user}
  /\ Performed(p, c)
  /\ UNCHANGED <<row, password, blacklist, cached, devices, dead>>

(* revokeSession(jti, this.ACCESS_TTL), in milliseconds for the store *)
RevokedKeyMilliseconds == ACCESS_TTL * 1000
RevokedKeyOneShort == ACCESS_TTL - 1
RevokedKeyTtl == ACCESS_TTL

PerformBlacklist(p, c) ==
  /\ c.op = "blacklist"
  /\ blacklist' = [j \in Jtis |->
                     IF j \in c.on THEN RevokedKeyTtl ELSE blacklist[j]]
  /\ cached' = [j \in Jtis |-> IF j \in c.on THEN 0 ELSE cached[j]]
  /\ dead' = dead \cup c.on
  /\ Performed(p, c)
  /\ UNCHANGED <<row, password, resetToken, devices>>

PerformCache(p, c) ==
  /\ c.op = "cache"
  /\ cached' = [j \in Jtis |-> IF j \in c.on THEN REFRESH_TTL ELSE cached[j]]
  /\ Performed(p, c)
  /\ UNCHANGED <<row, password, resetToken, blacklist, devices, dead>>

(* addUserSession and removeUserSession read the list (there may be none,  *)
(* and then there is nothing to remove); each session of an `unlist' gets  *)
(* the same answer ...                                                     *)
WriteList(j, L) == [op |-> "writeList", on |-> {j}, list |-> L]

Listed(lists) == UNION lists

WritesOfEmptied(c, lists) ==
  IF c.op = "list" THEN {WriteList(j, Listed(lists) \cup {j}) : j \in c.on}
  ELSE IF lists = {} THEN {}
  ELSE {WriteList(j, {}) : j \in c.on}

WritesAfter(c, lists) ==
  IF c.op = "list" THEN {WriteList(j, Listed(lists) \cup {j}) : j \in c.on}
  ELSE IF lists = {} THEN {}
  ELSE {WriteList(j, Listed(lists) \ {j}) : j \in c.on}

PerformReadList(p, c) ==
  /\ c.op \in {"list", "unlist"}
  /\ Goto(p, req[p].pc,
          (req[p].todo \ {c}) \cup WritesAfter(c, devices[req[p].user]))
  /\ UNCHANGED <<stores, dead>>

(* ... and write back what they made of it. *)
PerformWriteList(p, c) ==
  /\ c.op = "writeList"
  /\ devices' = [devices EXCEPT ![req[p].user] = {c.list}]
  /\ Performed(p, c)
  /\ UNCHANGED <<row, password, resetToken, blacklist, cached, dead>>

Perform(p) ==
  /\ \E c \in req[p].todo :
       \/ PerformRevokeRow(p, c)
       \/ PerformRevokeRows(p, c)
       \/ PerformSetPassword(p, c)
       \/ PerformDropToken(p, c)
       \/ PerformBlacklist(p, c)
       \/ PerformCache(p, c)
       \/ PerformReadList(p, c)
       \/ PerformWriteList(p, c)
  /\ UNCHANGED <<access, late, minted, jar, faults>>

-----------------------------------------------------------------------------
(* The handler has returned or thrown and none of its commands is left. *)
Finish(p) ==
  /\ At(p, "done") \/ At(p, "gone")
  /\ req' = [req EXCEPT ![p] = Idle]
  /\ UNCHANGED <<stores, tokens, jar, faults>>

(* The one statement the handler awaits is rejected, or some of those of   *)
(* its Promise.all: the handler throws, while the other commands, already  *)
(* sent, are still performed.                                              *)
Reject(p) ==
  /\ faults < MaxFaults
  /\ faults' = faults + 1
  /\ \/ \E pc \in {"limit", "create", "rotate", "mismatch", "others", "reset"} :
          At(p, pc) /\ Goto(p, "gone", {})
     \/ \E failed \in (SUBSET req[p].todo) \ {{}} :
          Goto(p, "gone", req[p].todo \ failed)
  /\ UNCHANGED <<stores, tokens, jar>>

(* The node process dies: every request in it is gone. *)
Crash ==
  /\ \E p \in Slots : ~Free(p)
  /\ faults < MaxFaults
  /\ faults' = faults + 1
  /\ req' = [p \in Slots |-> Idle]
  /\ UNCHANGED <<stores, tokens, jar>>

Dec(n) == IF n = 0 THEN 0 ELSE n - 1

Aged(cookies) ==
  [cookies EXCEPT
     !.jtiLeft = Dec(@),
     !.refreshLeft = Dec(@),
     !.jti = IF cookies.jtiLeft > 1 THEN @ ELSE None,
     !.refresh = IF cookies.refreshLeft > 1 THEN @ ELSE NoToken]

Tick ==
  /\ row' = [j \in Jtis |-> [row[j] EXCEPT !.left = Dec(@)]]
  /\ blacklist' = [j \in Jtis |-> Dec(blacklist[j])]
  /\ cached' = [j \in Jtis |-> Dec(cached[j])]
  /\ access' = [j \in Jtis |-> Dec(access[j])]
  /\ late' = [j \in Jtis |-> Dec(late[j])]
  /\ jar' = [b \in Browsers |-> Aged(jar[b])]
  /\ UNCHANGED <<password, resetToken, devices, dead, minted, req, faults>>

-----------------------------------------------------------------------------
(* A new request takes a free slot. *)
Arrive(p) ==
  \/ \E b \in Browsers :
       \/ \E u \in Users, by \in {"password", "google"} : LoginStart(p, b, u, by)
       \/ RefreshMatch(p, b)
       \/ RefreshMismatch(p, b)
       \/ Logout(p, b)
  \/ \E j \in Jtis :
       \/ \E target \in Jtis : RevokeSession(p, j, target)
       \/ LogoutOthers(p, j)
  \/ \E u \in Users : ResetStart(p, u)

(* A handler moves on, or a store performs one of its commands. *)
Serve(p) ==
  \/ LoginLimit(p)
  \/ \E j \in Jtis : LoginCreate(p, j)
  \/ Sign(p)
  \/ RefreshRotate(p)
  \/ RevokeAll(p)
  \/ ClearCookies(p)
  \/ OthersRevoke(p)
  \/ ResetApply(p)
  \/ Perform(p)
  \/ Finish(p)

Next ==
  \/ \E p \in Slots : Arrive(p) \/ Serve(p) \/ Reject(p)
  \/ \E u \in Users : IssueResetToken(u)
  \/ Crash
  \/ Tick

Spec == Init /\ [][Next]_vars

(* The event loop runs every callback that is ready, the stores answer     *)
(* every statement, and time passes.                                       *)
Fairness == WF_vars(Tick) /\ \A p \in Slots : WF_vars(Serve(p))
FairSpec == Spec /\ Fairness

-----------------------------------------------------------------------------
(* Properties. *)

Quiet == \A p \in Slots : Free(p)

(* Every variable keeps the shape its store, cookie or token has; the      *)
(* lifetimes never exceed the TTLs the code gives them.                    *)
TypeOK ==
  /\ row \in [Jtis -> Row]
  /\ password \in [Users -> Nat]
  /\ resetToken \subseteq Users
  /\ blacklist \in [Jtis -> 0..ACCESS_TTL]
  /\ cached \in [Jtis -> 0..REFRESH_TTL]
  /\ devices \in [Users -> SUBSET SUBSET Jtis]
  /\ access \in [Jtis -> 0..ACCESS_TTL]
  /\ late \in [Jtis -> 0..ACCESS_TTL]
  /\ dead \subseteq Jtis
  /\ minted \in [Jtis -> Nat]
  /\ jar \in [Browsers -> Jar]
  /\ req \in [Slots -> Request]
  /\ faults \in Nat

(* Access tokens exist for opened sessions only, and a request acts for    *)
(* one user on that user's sessions, whatever else it waits for: the       *)
(* updates by id or jti carry no user (auth.service.ts:122, 545, 628), so  *)
(* what was read before them must still hold.  A logout-others in flight   *)
(* holds no statement that could reach the session it keeps.               *)
TokensOfOpened == \A j \in Jtis : Unexpired(j) => j \in Opened

RevokesRows(c) == c.op \in {"revokeRow", "revokeRows"}

ActsForOneUser(r) ==
  /\ r.user \in Users
  /\ r.jti # None => row[r.jti].user = r.user
  /\ r.pc \in {"rotate", "sign", "others"} => r.jti # None
  /\ \A c \in r.todo : c.op = "revokeRow" => c.on \subseteq Owned(r.user)
  /\ r.by = "others" => /\ r.pc \in {"others", "done", "gone"}
                        /\ \A c \in r.todo : ~RevokesRows(c)

RequestsOwnSessions ==
  /\ TokensOfOpened
  /\ \A p \in Slots : req[p] = Idle \/ ActsForOneUser(req[p])

(* The 15-minute blacklist entry is enough for every access token signed   *)
(* before it was written: when the entry has gone, so have they            *)
(* (redis.service.ts:111).                                                 *)
BlacklistOutlivesTokens ==
  \A j \in dead : blacklist[j] = 0 => access[j] = 0

(* A row is revoked only by a request of the session's own user, and       *)
(* logout-others never revokes the session it was called from, whichever   *)
(* requests run beside it (auth.service.ts:620, 645, 675).                 *)
RevocationScope ==
  [][\A j \in Jtis : (row'[j].revoked /\ ~row[j].revoked) =>
       \E p \in Slots :
         /\ req'[p] # req[p]
         /\ req[p].user = row[j].user
         /\ req[p].by = "others" => req[p].jti # j]_vars

(* The rows implement the promise of SessionLifecycle. *)
Lifecycle == INSTANCE SessionLifecycle WITH
  owner <- [j \in Jtis |-> row[j].user],
  revoked <- {j \in Jtis : row[j].revoked}
LifecycleSpec == Lifecycle!Spec

(* A user never has more than MAX_SESSIONS live sessions                   *)
(* (auth.service.ts:55, "Tối đa 5 thiết bị").                              *)
SessionLimit == \A u \in Users : Cardinality(Active(u)) <= MAX_SESSIONS

(* When no request is running, a revoked session has no token that the     *)
(* guard accepts and no entry in the session cache.                        *)
RevokedIsBlocked ==
  Quiet => \A j \in Jtis : row[j].revoked => ~Accepted(j) /\ cached[j] = 0

(* A blacklist entry need only live as long as an access token             *)
(* (redis.service.ts:111): once it has gone no token of the session is     *)
(* left.  Unlike BlacklistOutlivesTokens this counts the tokens signed by  *)
(* requests that were in flight when the entry was written.                *)
EntryOutlivesEveryToken ==
  \A j \in dead : blacklist[j] = 0 => ~Unexpired(j)

(* After a password reset no session opened with the old password is left  *)
(* (auth.service.ts:866, 897).                                             *)
OldPasswordSessionsEnd ==
  Quiet => \A j \in Opened :
             ~row[j].revoked => row[j].pwd \in {0, password[row[j].user]}

(* A browser whose cookies lead to a live session holds the refresh token  *)
(* that session expects: the theft alarm of auth.service.ts:531 never      *)
(* sounds at an honest client.                                             *)
NoFalseAlarm == Quiet => \A b \in Browsers : Refreshable(b) => Matches(b)

(* When requests overlap the alarm may sound at an honest browser (line    *)
(* 531), but without faults for one of two causes only: its cookies come   *)
(* from two sessions, because a Google login or the late answer of a       *)
(* refresh replaced one of them; or two refreshes of the session           *)
(* overlapped.  Both then wrote the same tokenVersion (line 544), so that  *)
(* the row counts fewer rotations than there were tokens; a session whose  *)
(* version accounts for every token knows the one its browser holds.       *)
AlarmHasCause ==
  Quiet /\ faults = 0 =>
    \A b \in Browsers : Refreshable(b) /\ ~Matches(b) =>
      \/ jar[b].refresh.jti # jar[b].jti
      \/ row[jar[b].jti].ver < minted[jar[b].jti]

(* The device list has every session that is still good                    *)
(* (redis.service.ts:122, "để hiển thị danh sách thiết bị"): the            *)
(* removals of logouts, which write back the list they read, never take    *)
(* another device off it.                                                  *)
DevicesListed ==
  Quiet => \A u \in Users : Active(u) \subseteq Listed(devices[u])

(* After a password login the jti cookie goes with the refresh cookie      *)
(* that refresh demands it for (auth.controller.ts:131): a browser is left *)
(* with the latter alone only when a refresh has renewed it since, which   *)
(* does not renew the former (auth.controller.ts:144).                     *)
JtiCookieKept ==
  \A b \in Browsers :
    LET t == jar[b].refresh IN
    t # NoToken /\ row[t.jti].pwd # 0 =>
      \/ jar[b].jti = t.jti
      \/ jar[b].jti = None /\ t.n > 1

(* Once revoked, a session is in the end locked out for good, even when a  *)
(* token was signed for it meanwhile.                                      *)
RevokedDies ==
  \A j \in Jtis : row[j].revoked ~> [](~Accepted(j))
=============================================================================

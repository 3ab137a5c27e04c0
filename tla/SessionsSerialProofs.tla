------------------------ MODULE SessionsSerialProofs ------------------------
(***************************************************************************)
(* Proofs about Sessions, continued: what holds while requests do not      *)
(* overlap, for any number of users, browsers and sessions and for any     *)
(* limits and lifetimes.  The runs of the races show that each of these    *)
(* properties needs the hypothesis.                                        *)
(***************************************************************************)
EXTENDS SessionsProofs, WellFoundedInduction

(* One request at a time: there is one slot. *)
Serial == \E p : Slots = {p}

-----------------------------------------------------------------------------
(* The session limit. *)

LEMMA JtisCount ==
  ASSUME NEW S \in SUBSET Jtis
  PROVE  IsFiniteSet(S) /\ Cardinality(S) \in Nat
  BY FiniteAssumption, FS_Subset, FS_CardinalityType

LEMMA FewerJtis ==
  ASSUME NEW S \in SUBSET Jtis, NEW T \in SUBSET S
  PROVE  Cardinality(T) <= Cardinality(S) /\ Cardinality(T) \in Nat /\ Cardinality(S) \in Nat
  BY JtisCount, FS_Subset

LEMMA OneMoreJti ==
  ASSUME NEW S \in SUBSET Jtis, NEW j \in Jtis
  PROVE  Cardinality(S \cup {j}) <= Cardinality(S) + 1
  BY JtisCount, FS_AddElement

(* The oldest sessions of a user that has any *)
LEMMA OldestExists ==
  ASSUME TypeOK, NEW u, Active(u) # {}
  PROVE  Oldest(u) # {}
<1> DEFINE B == {row[j].born : j \in Active(u)}
<1>1. \A j \in Active(u) : row[j].born \in Nat
  BY DEF Active, Unrevoked, Owned, TypeOK, Row
<1>2. B \subseteq Nat /\ B # {}
  BY <1>1
<1> DEFINE Less == {ss \in Nat \X Nat : ss[1] < ss[2]}
<1>3. IsWellFoundedOn(Less, Nat)
  BY NatLessThanWellFounded DEF OpToRel
<1>4. \A m, n \in Nat : m < n => <<m, n>> \in Less
  OBVIOUS
<1> HIDE DEF Less
<1>5. PICK x \in B : \A y \in B : ~(<<y, x>> \in Less)
  <2> HIDE DEF B
  <2> QED BY <1>2, <1>3, WFMin
<1>6. PICK j \in Active(u) : x = row[j].born
  OBVIOUS
<1>7. ASSUME NEW k \in Active(u) PROVE row[j].born <= row[k].born
  <2>1. row[k].born \in B /\ row[k].born \in Nat /\ row[j].born \in Nat
    BY <1>1
  <2> HIDE DEF B
  <2>2. <<row[k].born, row[j].born>> \notin Less
    BY <1>5, <1>6, <2>1
  <2>3. ~(row[k].born < row[j].born)
    BY <1>4, <2>1, <2>2
  <2> QED BY <2>1, <2>3
<1> QED BY <1>7 DEF Oldest

(* SessionLimit is not inductive: a login that has evicted must have made  *)
(* room, or be about to, and a refresh may revive an expired session.      *)
EvictedBy(r) == UNION {c.on : c \in {d \in r.todo : d.op = "revokeRow"}}

LimitAhead(r) ==
  /\ r.pc = "create" => Cardinality(Active(r.user) \ EvictedBy(r)) < MAX_SESSIONS
  /\ r.pc = "rotate" => Cardinality(Active(r.user) \cup {r.jti}) <= MAX_SESSIONS

LimitKept == SessionLimit /\ \A p \in Slots : LimitAhead(req[p])

LEMMA ActiveWanes ==
  ASSUME RowsWane, NEW u
  PROVE  Active(u)' \in SUBSET Active(u)
  BY DEF RowsWane, Active, Unrevoked, Owned

LEMMA ActiveType == ASSUME NEW u PROVE Active(u) \in SUBSET Jtis
  BY DEF Active, Unrevoked, Owned

(* What is ahead of a request stays ahead of it while the rows wane. *)
LEMMA AheadWanes ==
  ASSUME RowsWane, TypeOK, NEW p \in Slots, NEW u, LimitAhead(req[p]), req[p].user = u,
         req'[p].pc = req[p].pc, req'[p].user = u, req'[p].jti = req[p].jti,
         req[p].pc = "rotate" => req[p].jti # None,
         Active(u)' \ EvictedBy(req'[p]) \subseteq Active(u) \ EvictedBy(req[p])
  PROVE  LimitAhead(req[p])'
<1>1. CASE req[p].pc = "create"
  <2>1. Active(u) \ EvictedBy(req[p]) \in SUBSET Jtis
    BY ActiveType
  <2>2. Cardinality(Active(u) \ EvictedBy(req[p])) < MAX_SESSIONS
    BY <1>1 DEF LimitAhead
  <2>3. Cardinality(Active(u)' \ EvictedBy(req'[p])) < MAX_SESSIONS
    BY <2>1, <2>2, FewerJtis, LimitAssumption
  <2>4. req'[p].pc # "rotate"
    BY <1>1
  <2>5. Cardinality((Active(req[p].user) \ EvictedBy(req[p]))') < MAX_SESSIONS
    BY <2>3 DEF Active, Unrevoked, Owned, EvictedBy
  <2> QED BY <2>4, <2>5 DEF LimitAhead
<1>2. CASE req[p].pc = "rotate"
  <2>1. req[p].jti \in Jtis
    BY <1>2 DEF TypeOK, Request
  <2>2. Active(u) \cup {req[p].jti} \in SUBSET Jtis
    BY <2>1, ActiveType
  <2>3. Active(u)' \cup {req[p].jti} \in SUBSET (Active(u) \cup {req[p].jti})
    BY ActiveWanes
  <2>4. Cardinality(Active(u) \cup {req[p].jti}) <= MAX_SESSIONS
    BY <1>2 DEF LimitAhead
  <2>5. Cardinality(Active(u)' \cup {req[p].jti}) <= MAX_SESSIONS
    BY <2>2, <2>3, <2>4, FewerJtis, LimitAssumption
  <2>6. req'[p].pc # "create"
    BY <1>2
  <2>7. Cardinality((Active(req[p].user) \cup {req[p].jti})') <= MAX_SESSIONS
    BY <2>5 DEF Active, Unrevoked, Owned
  <2> QED BY <2>6, <2>7 DEF LimitAhead
<1>3. CASE req[p].pc \notin {"create", "rotate"}
  BY <1>3 DEF LimitAhead
<1> QED BY <1>1, <1>2, <1>3

(* No step leaves a user with too many live sessions ... *)
LEMMA LimitHeld == TypeOK /\ RequestsOwnSessions /\ LimitKept /\ [Next]_vars => SessionLimit'
<1> SUFFICES ASSUME TypeOK, RequestsOwnSessions, LimitKept, [Next]_vars, NEW v \in Users
             PROVE  Cardinality(Active(v)') <= MAX_SESSIONS
  BY DEF SessionLimit
<1>1. Cardinality(Active(v)) <= MAX_SESSIONS /\ Active(v) \in SUBSET Jtis
  BY ActiveType DEF LimitKept, SessionLimit
<1>2. ASSUME Active(v)' \in SUBSET Active(v)
      PROVE  Cardinality(Active(v)') <= MAX_SESSIONS
  BY <1>1, <1>2, FewerJtis, LimitAssumption
<1>3. CASE RowsWane
  BY <1>2, <1>3, ActiveWanes
<1>4. ASSUME NEW p \in Slots, NEW j \in Jtis, LoginCreate(p, j)
      PROVE  Cardinality(Active(v)') <= MAX_SESSIONS
  <2>1. /\ row' = [row EXCEPT ![j] =
              [user |-> req[p].user, ver |-> 1, hash |-> 1, left |-> REFRESH_TTL,
               revoked |-> FALSE, pwd |-> req[p].pwd,
               born |-> Cardinality(Opened)]]
        /\ req[p].pc = "create" /\ req[p].todo = {}
    BY <1>4 DEF LoginCreate, At
  <2>2. CASE v # req[p].user
    <3>1. \A k \in Jtis : row'[k].user = v => row'[k] = row[k]
      BY <2>1, <2>2 DEF TypeOK
    <3>2. Active(v)' \in SUBSET Active(v)
      BY <3>1 DEF Active, Unrevoked, Owned
    <3> QED BY <1>2, <3>2
  <2>3. CASE v = req[p].user
    <3>1. EvictedBy(req[p]) = {}
      BY <2>1 DEF EvictedBy
    <3>2. Cardinality(Active(v)) < MAX_SESSIONS
      BY <2>1, <2>3, <3>1 DEF LimitKept, LimitAhead
    <3>3. \A k \in Jtis : k # j => row'[k] = row[k]
      BY <2>1 DEF TypeOK
    <3>4. Active(v)' \in SUBSET (Active(v) \cup {j}) /\ Active(v) \cup {j} \in SUBSET Jtis
      BY <3>3 DEF Active, Unrevoked, Owned
    <3>5. Cardinality(Active(v)') <= Cardinality(Active(v) \cup {j})
          /\ Cardinality(Active(v) \cup {j}) <= Cardinality(Active(v)) + 1
          /\ Cardinality(Active(v)) \in Nat /\ Cardinality(Active(v)') \in Nat
          /\ Cardinality(Active(v) \cup {j}) \in Nat
      BY <1>1, <3>4, FewerJtis, OneMoreJti, JtisCount
    <3> QED BY <3>2, <3>5, LimitAssumption
  <2> QED BY <2>2, <2>3
<1>5. ASSUME NEW p \in Slots, RefreshRotate(p)
      PROVE  Cardinality(Active(v)') <= MAX_SESSIONS
  <2>1. req[p].pc = "rotate" /\ row' = [row EXCEPT ![req[p].jti] = Rotated(req[p])]
    BY <1>5 DEF RefreshRotate, At
  <2>2. req[p].jti \in Jtis /\ row[req[p].jti].user = req[p].user
    BY <2>1 DEF RequestsOwnSessions, ActsForOneUser, Idle, TypeOK, Request
  <2>3. row[req[p].jti] \in Row
    BY <2>2 DEF TypeOK
  <2>4. Rotated(req[p]).user = req[p].user
    BY <2>2, <2>3 DEF Rotated, Row
  <2>5. CASE v # req[p].user
    <3>1. \A k \in Jtis : row'[k].user = v => row'[k] = row[k]
      BY <2>1, <2>2, <2>4, <2>5 DEF TypeOK
    <3>2. Active(v)' \in SUBSET Active(v)
      BY <3>1 DEF Active, Unrevoked, Owned
    <3> QED BY <1>2, <3>2
  <2>6. CASE v = req[p].user
    <3>1. Cardinality(Active(v) \cup {req[p].jti}) <= MAX_SESSIONS
      BY <2>1, <2>6 DEF LimitKept, LimitAhead
    <3>2. \A k \in Jtis : k # req[p].jti => row'[k] = row[k]
      BY <2>1 DEF TypeOK
    <3>3. Active(v)' \in SUBSET (Active(v) \cup {req[p].jti})
          /\ Active(v) \cup {req[p].jti} \in SUBSET Jtis
      BY <2>2, <3>2 DEF Active, Unrevoked, Owned
    <3> QED BY <3>1, <3>3, FewerJtis, LimitAssumption
  <2> QED BY <2>5, <2>6
<1> QED BY <1>3, <1>4, <1>5, RowKinds

(* ... and the one request there is keeps what it has ahead of it. *)
LEMMA LimitAheadHeld ==
  ASSUME Serial
  PROVE  TypeOK /\ RequestsOwnSessions /\ LimitKept /\ [Next]_vars
           => \A p \in Slots : LimitAhead(req[p])'
<1> SUFFICES ASSUME TypeOK, RequestsOwnSessions, LimitKept, [Next]_vars, NEW p \in Slots,
                    req'[p].pc \in {"create", "rotate"}
             PROVE  LimitAhead(req[p])'
  BY DEF LimitAhead
<1>0. /\ \A q \in Slots : q = p
      /\ LimitAhead(req[p])
      /\ req[p] \in Request
      /\ req[p].pc = "rotate" => req[p].jti # None
  BY DEF Serial, LimitKept, TypeOK, RequestsOwnSessions, ActsForOneUser, Idle
<1>a. ASSUME NEW r, Start(p, r) PROVE req'[p] = r
  BY <1>a DEF Start, TypeOK
<1>1. ASSUME NEW b \in Browsers, RefreshMatch(p, b) PROVE LimitAhead(req[p])'
  <2> DEFINE j == jar[b].jti
             u == row[j].user
  <2>1. /\ req'[p].pc = "rotate" /\ req'[p].user = u /\ req'[p].jti = j
        /\ row' = row
    BY <1>1, <1>a DEF RefreshMatch, Idle, stores
  <2>2. j \in Jtis /\ row[j].user # None /\ ~row[j].revoked /\ row[j].left > 0
    BY <1>1 DEF RefreshMatch, Refreshable, TypeOK, Jar
  <2>3. row[j].user \in Users
    BY <2>2 DEF TypeOK, Row
  <2>4. j \in Active(u)
    BY <2>2 DEF Active, Unrevoked, Owned
  <2>5. Cardinality(Active(u)) <= MAX_SESSIONS
    BY <2>3 DEF LimitKept, SessionLimit
  <2>6. Active(u) \cup {j} = Active(u)
    BY <2>4
  <2>7. (Active(req[p].user) \cup {req[p].jti})' = Active(u)
    BY <2>1, <2>6 DEF Active, Unrevoked, Owned
  <2>8. Cardinality((Active(req[p].user) \cup {req[p].jti})') <= MAX_SESSIONS
    BY <2>5, <2>7
  <2> QED BY <2>1, <2>8 DEF LimitAhead
<1>2. ASSUME Arrive(p) PROVE LimitAhead(req[p])'
  <2>1. ASSUME NEW b \in Browsers, RefreshMismatch(p, b) \/ Logout(p, b) PROVE FALSE
    BY <2>1, <1>a DEF RefreshMismatch, Logout, Idle
  <2>2. ASSUME NEW b \in Browsers, NEW u \in Users, NEW by, LoginStart(p, b, u, by) PROVE FALSE
    BY <2>2, <1>a DEF LoginStart, Idle
  <2>3. ASSUME NEW j \in Jtis, NEW target \in Jtis, RevokeSession(p, j, target) PROVE FALSE
    BY <2>3, <1>a DEF RevokeSession, Idle
  <2>4. ASSUME NEW j \in Jtis, LogoutOthers(p, j) PROVE FALSE
    BY <2>4, <1>a DEF LogoutOthers, Idle
  <2>5. ASSUME NEW u \in Users, ResetStart(p, u) PROVE FALSE
    BY <2>5, <1>a DEF ResetStart, Idle
  <2> QED BY <1>1, <1>2, <2>1, <2>2, <2>3, <2>4, <2>5 DEF Arrive
<1>3. ASSUME LoginLimit(p) PROVE LimitAhead(req[p])'
  <2> DEFINE u == req[p].user
             todo == IF LimitReached(u) THEN Eviction(Oldest(u)) ELSE {}
  <2>1. Goto(p, "create", todo) /\ req[p].pc = "limit" /\ row' = row
    BY <1>3 DEF LoginLimit, At, stores
  <2>2. req'[p].pc = "create" /\ req'[p].todo = todo /\ req'[p].user = u
    <3> HIDE DEF todo
    <3> QED BY <2>1, GotoRequest
  <2>3. u \in Users
    BY <2>1 DEF RequestsOwnSessions, ActsForOneUser, Idle
  <2>4. Cardinality(Active(u)) <= MAX_SESSIONS /\ Active(u) \in SUBSET Jtis
        /\ IsFiniteSet(Active(u)) /\ Cardinality(Active(u)) \in Nat
    BY <2>3, ActiveType, JtisCount DEF LimitKept, SessionLimit
  <2>5. Cardinality(Active(u) \ EvictedBy(req'[p])) < MAX_SESSIONS
    <3>1. CASE ~LimitReached(u)
      <4>1. EvictedBy(req'[p]) = {}
        BY <2>2, <3>1 DEF EvictedBy
      <4>2. Active(u) \ EvictedBy(req'[p]) = Active(u)
        BY <4>1
      <4> QED BY <2>4, <3>1, <4>2, LimitAssumption DEF LimitReached
    <3>2. CASE LimitReached(u)
      <4>1. Active(u) # {}
        <5> SUFFICES ASSUME Active(u) = {} PROVE FALSE
          OBVIOUS
        <5>1. Cardinality(Active(u)) = 0
          BY FS_EmptySet
        <5> QED BY <3>2, <5>1, LimitAssumption DEF LimitReached
      <4>2. PICK j \in Oldest(u) : TRUE
        BY <4>1, OldestExists
      <4>3. j \in Active(u)
        BY DEF Oldest
      <4>4. Cmd("revokeRow", Oldest(u)) \in req'[p].todo
        BY <2>2, <3>2 DEF Eviction
      <4>5. j \in EvictedBy(req'[p])
        BY <4>2, <4>4 DEF EvictedBy, Cmd
      <4>6. /\ Active(u) \ EvictedBy(req'[p]) \in SUBSET (Active(u) \ {j})
            /\ Active(u) \ {j} \in SUBSET Jtis
        BY <2>4, <4>5
      <4>7. Cardinality(Active(u) \ {j}) = Cardinality(Active(u)) - 1
        BY <2>4, <4>3, FS_RemoveElement
      <4>8. Cardinality(Active(u) \ EvictedBy(req'[p])) <= Cardinality(Active(u) \ {j})
            /\ Cardinality(Active(u) \ EvictedBy(req'[p])) \in Nat
        BY <4>6, FewerJtis
      <4> QED BY <2>4, <4>7, <4>8, LimitAssumption
    <3> QED BY <3>1, <3>2
  <2>6. (Active(req[p].user) \ EvictedBy(req[p]))' = Active(u) \ EvictedBy(req'[p])
    BY <2>1, <2>2 DEF Active, Unrevoked, Owned, EvictedBy
  <2>7. Cardinality((Active(req[p].user) \ EvictedBy(req[p]))') < MAX_SESSIONS
    BY <2>5, <2>6
  <2> QED BY <2>2, <2>7 DEF LimitAhead
<1>4. ASSUME Perform(p) PROVE LimitAhead(req[p])'
  <2>0. PICK u : u = req[p].user
    OBVIOUS
  <2>1. PICK c \in req[p].todo :
          \/ PerformRevokeRow(p, c)
          \/ Performed(p, c) /\ c.op # "revokeRow" 
          \/ PerformReadList(p, c)
    BY <1>4 DEF Perform, PerformRevokeRow, PerformRevokeRows, PerformSetPassword,
       PerformDropToken, PerformBlacklist, PerformCache, PerformWriteList
  <2>2. PICK todo : Goto(p, req[p].pc, todo) /\ req[p].todo \ {c} \subseteq todo
    BY <2>1 DEF PerformRevokeRow, Performed, PerformReadList
  <2>3. /\ req'[p].pc = req[p].pc /\ req'[p].user = u /\ req'[p].jti = req[p].jti
        /\ req'[p].todo = todo
    BY <2>0, <2>2, GotoRequest
  <2>4. RowsWane
    <3>1. row' = row \/ \E S : row' = RevokeRows(S)
      BY <1>4 DEF Perform, PerformRevokeRow, PerformRevokeRows, PerformSetPassword,
         PerformDropToken, PerformBlacklist, PerformCache, PerformReadList,
         PerformWriteList, stores
    <3>2. CASE row' = row
      BY <3>2 DEF RowsWane
    <3> QED BY <3>1, <3>2, RevokeRowsWane
  <2>5. Active(u)' \subseteq Active(u)
    BY <2>4, ActiveWanes
  <2>6. c.op = "revokeRow" => Active(u)' \cap c.on = {}
    <3> SUFFICES ASSUME c.op = "revokeRow", NEW k \in Active(u)', k \in c.on PROVE FALSE
      OBVIOUS
    <3>1. row' = RevokeRows(c.on) /\ k \in Jtis
      BY <2>1, ActiveType DEF PerformRevokeRow, PerformReadList, Active, Unrevoked, Owned
    <3>2. row[k] \in Row
      BY <3>1 DEF TypeOK
    <3>3. row'[k].revoked
      BY <3>1, <3>2 DEF RevokeRows, Row
    <3> QED BY <3>3 DEF Active, Unrevoked
  <2>7. Active(u)' \ EvictedBy(req'[p]) \subseteq Active(u) \ EvictedBy(req[p])
    <3> SUFFICES ASSUME NEW k \in Active(u)', k \notin EvictedBy(req'[p]), k \in EvictedBy(req[p])
                 PROVE  FALSE
      BY <2>5
    <3>1. PICK d \in req[p].todo : d.op = "revokeRow" /\ k \in d.on
      BY DEF EvictedBy
    <3>2. d # c
      BY <2>6, <3>1
    <3>3. d \in req'[p].todo
      BY <2>2, <2>3, <3>2
    <3> QED BY <3>1, <3>3 DEF EvictedBy
  <2> QED BY <1>0, <2>0, <2>3, <2>4, <2>7, AheadWanes
<1>5. ASSUME RowsWane, req' = req PROVE LimitAhead(req[p])'
  <2> DEFINE u == req[p].user
  <2>1. Active(u)' \ EvictedBy(req'[p]) \subseteq Active(u) \ EvictedBy(req[p])
    BY <1>5, ActiveWanes DEF EvictedBy
  <2> QED BY <1>0, <1>5, <2>1, AheadWanes
<1>6. CASE Tick \/ (\E u \in Users : IssueResetToken(u)) \/ UNCHANGED vars
  <2>1. req' = req
    BY <1>6 DEF Tick, IssueResetToken, vars
  <2>2. RowsWane
    BY <1>6, TickWanes DEF RowsWane, IssueResetToken, vars, stores
  <2> QED BY <1>5, <2>1, <2>2
<1>7. ASSUME NEW pc, NEW todo, Goto(p, pc, todo), pc \notin {"create", "rotate"} PROVE FALSE
  BY <1>7, GotoRequest
<1>8. ASSUME req'[p] = Idle PROVE FALSE
  BY <1>8 DEF Idle
<1>9. ASSUME Serve(p) PROVE LimitAhead(req[p])'
  <2>1. ASSUME NEW j \in Jtis, LoginCreate(p, j) PROVE FALSE
    BY <2>1 DEF LoginCreate, TypeOK, Request
  <2>2. ASSUME Sign(p) \/ ClearCookies(p) \/ Finish(p) PROVE FALSE
    BY <2>2, <1>8 DEF Sign, ClearCookies, Finish, TypeOK
  <2>3. ASSUME RefreshRotate(p) \/ RevokeAll(p) \/ OthersRevoke(p) \/ ResetApply(p) PROVE FALSE
    BY <2>3, <1>7 DEF RefreshRotate, RevokeAll, OthersRevoke, ResetApply
  <2> QED BY <1>3, <1>4, <1>9, <2>1, <2>2, <2>3 DEF Serve
<1>10. ASSUME Reject(p) PROVE FALSE
  <2>1. PICK todo : Goto(p, "gone", todo)
    BY <1>10 DEF Reject
  <2> QED BY <1>7, <2>1
<1>11. ASSUME Crash PROVE FALSE
  BY <1>8, <1>11 DEF Crash
<1> QED BY <1>0, <1>2, <1>6, <1>9, <1>10, <1>11 DEF Next

(* One request at a time, no user ever has more than MAX_SESSIONS live     *)
(* sessions, through any faults: a login whose eviction was rejected never *)
(* creates its session, and expired sessions cannot be refreshed.          *)
THEOREM LimitCorrect ==
  ASSUME Serial
  PROVE  Spec => []SessionLimit
<1>1. Init => LimitKept
  <2> SUFFICES ASSUME Init PROVE LimitKept
    OBVIOUS
  <2>1. ASSUME NEW u \in Users PROVE Active(u) = {}
    BY <2>1, NoneAssumption DEF Init, NoRow, Active, Unrevoked, Owned
  <2>2. SessionLimit
    BY <2>1, FS_EmptySet, LimitAssumption DEF SessionLimit
  <2>3. \A p \in Slots : LimitAhead(req[p])
    BY DEF Init, Idle, LimitAhead
  <2> QED BY <2>2, <2>3 DEF LimitKept
<1>2. TypeOK /\ RequestsOwnSessions /\ LimitKept /\ [Next]_vars => LimitKept'
  BY LimitHeld, LimitAheadHeld DEF LimitKept
<1>3. LimitKept => SessionLimit
  BY DEF LimitKept
<1> QED BY <1>1, <1>2, <1>3, TypeAndOwnership, PTL DEF Spec

-----------------------------------------------------------------------------
(* The jti cookie. *)

(* JtiCookieKept is not inductive: cookies age, so the jti cookie must not *)
(* run out before a refresh cookie that has not been renewed ...           *)
JarOK(b) ==
  LET t == jar[b].refresh IN
  t # NoToken =>
    /\ t.jti \in Opened
    /\ row[t.jti].pwd # 0 =>
         \/ jar[b].jti = t.jti /\ (t.n <= 1 => jar[b].refreshLeft <= jar[b].jtiLeft)
         \/ jar[b].jti = None /\ t.n > 1

(* ... and the answer of a request in flight must fit the jar it goes to.  *)
AnswerFits(r) ==
  /\ r.pc \in {"limit", "create"} => r.by \in {"password", "google"}
  /\ r.pc \in {"limit", "create"} /\ r.by = "google" => r.pwd = 0
  /\ r.pc = "rotate" => r.by = "refresh"
  /\ r.pc = "sign" => r.by \in {"password", "google", "refresh"}
  /\ r.pc = "sign" /\ r.by = "google" => row[r.jti].pwd = 0
  /\ r.pc \in {"rotate", "sign"} /\ r.by = "refresh" =>
       r.tok > 1 /\ r.browser \in Browsers /\ jar[r.browser].jti \in {r.jti, None}

OpenedMinted == \A j \in Opened : minted[j] >= 1

CookiesOK ==
  /\ OpenedMinted
  /\ \A b \in Browsers : JarOK(b)
  /\ \A p \in Slots : AnswerFits(req[p])

LEMMA CookiesInit == Init => CookiesOK
  BY NoneAssumption
     DEF Init, CookiesOK, OpenedMinted, JarOK, AnswerFits, Opened, NoRow, EmptyJar, Idle

(* An opened session stays opened, with the password it was opened with. *)
OpenedStay == \A j \in Opened : j \in Opened' /\ row'[j].pwd = row[j].pwd

LEMMA OpenedStayStep == TypeOK /\ RequestsOwnSessions /\ [Next]_vars => OpenedStay
<1> SUFFICES ASSUME TypeOK, RequestsOwnSessions, [Next]_vars, NEW j \in Opened
             PROVE  j \in Opened' /\ row'[j].pwd = row[j].pwd
  BY DEF OpenedStay
<1>1. j \in Jtis /\ row[j].user # None /\ row[j] \in Row
  BY DEF Opened, TypeOK
<1>2. j \in Opened'
  BY <1>1, OwnersStayStep DEF OwnersStay, Opened
<1>3. CASE RowsWane
  BY <1>1, <1>2, <1>3 DEF RowsWane
<1>4. ASSUME NEW p \in Slots, NEW k \in Jtis, LoginCreate(p, k) PROVE row'[j].pwd = row[j].pwd
  BY <1>1, <1>4 DEF LoginCreate, TypeOK
<1>5. ASSUME NEW p \in Slots, RefreshRotate(p) PROVE row'[j].pwd = row[j].pwd
  <2>1. row' = [row EXCEPT ![req[p].jti] = Rotated(req[p])]
    BY <1>5 DEF RefreshRotate
  <2> QED BY <1>1, <2>1 DEF Rotated, TypeOK, Row
<1> QED BY <1>2, <1>3, <1>4, <1>5, RowKinds

(* The cookies a request sets fit together. *)
LEMMA SignedJar ==
  ASSUME TypeOK, RequestsOwnSessions, CookiesOK, OpenedStay,
         NEW p \in Slots, Sign(p)
  PROVE  \A b \in Browsers : JarOK(b)'
<1> SUFFICES ASSUME NEW b \in Browsers PROVE JarOK(b)'
  OBVIOUS
<1> DEFINE r == req[p]
<1>0. JarOK(b) /\ r \in Request /\ jar[b] \in Jar /\ AnswerFits(r)
  BY DEF CookiesOK, TypeOK
<1>1. ASSUME jar'[b] = jar[b] PROVE JarOK(b)'
  BY <1>0, <1>1 DEF JarOK, OpenedStay
<1>2. /\ r.pc = "sign" /\ r.jti \in Jtis /\ r.jti \in Opened
      /\ row' = row
  BY <1>0, NoneAssumption DEF Sign, At, RequestsOwnSessions, ActsForOneUser, Idle, Request, Opened, stores
<1>3. ASSUME jar'[b] = SetCookies(jar[b], r), b = r.browser PROVE JarOK(b)'
  <2>1. /\ jar'[b].refresh = [jti |-> r.jti, n |-> r.tok]
        /\ jar'[b].refreshLeft = REFRESH_TTL
        /\ jar'[b].jti = IF r.by = "password" THEN r.jti ELSE jar[b].jti
        /\ jar'[b].jtiLeft = IF r.by = "password" THEN REFRESH_TTL ELSE jar[b].jtiLeft
    BY <1>3 DEF SetCookies
  <2>2. r.jti \in Opened'
    BY <1>2 DEF OpenedStay
  <2>3. r.by = "refresh" => r.tok > 1 /\ jar[b].jti \in {r.jti, None}
    BY <1>0, <1>2, <1>3 DEF AnswerFits
  <2>4. r.by = "google" => row[r.jti].pwd = 0
    BY <1>0, <1>2 DEF AnswerFits
  <2>5. r.by \in {"password", "google", "refresh"}
    BY <1>0, <1>2 DEF AnswerFits
  <2> HIDE DEF r
  <2>6. REFRESH_TTL <= REFRESH_TTL
    BY TtlAssumption
  <2>7. /\ jar'[b].refresh.jti = r.jti /\ jar'[b].refresh.n = r.tok
    BY <2>1
  <2>8. row[r.jti].pwd # 0 =>
          \/ jar'[b].jti = r.jti /\ (r.tok <= 1 => jar'[b].refreshLeft <= jar'[b].jtiLeft)
          \/ jar'[b].jti = None /\ r.tok > 1
    <3>1. CASE r.by = "password"
      BY <2>1, <2>6, <3>1
    <3>2. CASE r.by = "refresh"
      <4>1. ~(r.tok <= 1)
        BY <1>0, <2>3, <3>2 DEF Request
      <4> QED BY <2>1, <2>3, <3>2, <4>1
    <3>3. CASE r.by = "google"
      BY <2>4, <3>3
    <3> QED BY <2>5, <3>1, <3>2, <3>3
  <2> QED BY <1>2, <2>2, <2>7, <2>8 DEF JarOK
<1>4. jar'[b] = jar[b] \/ (jar'[b] = SetCookies(jar[b], r) /\ b = r.browser)
  BY DEF Sign, Respond, TypeOK
<1> QED BY <1>1, <1>3, <1>4

(* Cookies that fit together still do when they have aged. *)
LEMMA AgedJar ==
  ASSUME TypeOK, CookiesOK, OpenedStay, Tick
  PROVE  \A b \in Browsers : JarOK(b)'
<1> SUFFICES ASSUME NEW b \in Browsers PROVE JarOK(b)'
  OBVIOUS
<1>1. JarOK(b) /\ jar[b] \in Jar /\ jar'[b] = Aged(jar[b])
  BY DEF CookiesOK, TypeOK, Tick
<1>2. /\ jar[b].jtiLeft \in Nat /\ jar[b].refreshLeft \in Nat
      /\ jar[b].refresh # NoToken => jar[b].refresh.jti \in Jtis \cup {None} /\ jar[b].refresh.n \in Nat
  BY <1>1, TtlAssumption DEF Jar, RefreshToken
<1>3. /\ jar'[b].jtiLeft = Dec(jar[b].jtiLeft)
      /\ jar'[b].refreshLeft = Dec(jar[b].refreshLeft)
      /\ jar'[b].jti = IF jar[b].jtiLeft > 1 THEN jar[b].jti ELSE None
      /\ jar'[b].refresh = IF jar[b].refreshLeft > 1 THEN jar[b].refresh ELSE NoToken
  BY <1>1 DEF Aged, Jar
<1>4. CASE jar[b].refreshLeft > 1 /\ jar[b].refresh # NoToken
  <2> DEFINE t == jar[b].refresh
  <2>1. jar'[b].refresh = t
    BY <1>3, <1>4
  <2>2. t.jti \in Opened /\ t.jti \in Opened' /\ row'[t.jti].pwd = row[t.jti].pwd
    BY <1>1, <1>4 DEF JarOK, OpenedStay
  <2>3. ASSUME row[t.jti].pwd # 0, jar[b].jti = t.jti, t.n <= 1 => jar[b].refreshLeft <= jar[b].jtiLeft
        PROVE  \/ jar'[b].jti = t.jti /\ (t.n <= 1 => jar'[b].refreshLeft <= jar'[b].jtiLeft)
               \/ jar'[b].jti = None /\ t.n > 1
    <3>1. CASE t.n <= 1
      BY <1>2, <1>3, <1>4, <2>3, <3>1 DEF Dec
    <3>2. CASE t.n > 1
      BY <1>2, <1>3, <1>4, <2>3, <3>2
    <3>3. t.n <= 1 \/ t.n > 1
      BY <1>2, <1>4
    <3> QED BY <3>1, <3>2, <3>3
  <2>4. ASSUME jar[b].jti = None, t.n > 1 PROVE jar'[b].jti = None /\ t.n > 1
    BY <1>3, <2>4
  <2> QED BY <1>1, <1>4, <2>1, <2>2, <2>3, <2>4 DEF JarOK
<1>5. CASE ~(jar[b].refreshLeft > 1 /\ jar[b].refresh # NoToken)
  BY <1>3, <1>5 DEF JarOK
<1> QED BY <1>4, <1>5

LEMMA JarsStep == TypeOK /\ RequestsOwnSessions /\ CookiesOK /\ [Next]_vars
                    => \A b \in Browsers : JarOK(b)'
<1> SUFFICES ASSUME TypeOK, RequestsOwnSessions, CookiesOK, [Next]_vars
             PROVE  \A b \in Browsers : JarOK(b)'
  OBVIOUS
<1>0. OpenedStay
  BY OpenedStayStep
<1>1. ASSUME NEW p \in Slots, Sign(p) PROVE \A b \in Browsers : JarOK(b)'
  BY <1>0, <1>1, SignedJar
<1>2. CASE Tick
  BY <1>0, <1>2, AgedJar
<1>3. ASSUME \A b \in Browsers : jar'[b] = jar[b] \/ jar'[b] = EmptyJar
      PROVE  \A b \in Browsers : JarOK(b)'
  <2> SUFFICES ASSUME NEW b \in Browsers PROVE JarOK(b)'
    OBVIOUS
  <2>1. CASE jar'[b] = jar[b]
    BY <1>0, <2>1 DEF CookiesOK, JarOK, OpenedStay
  <2>2. CASE jar'[b] = EmptyJar
    BY <2>2 DEF JarOK, EmptyJar
  <2> QED BY <1>3, <2>1, <2>2
<1>4. ASSUME jar' = jar PROVE \A b \in Browsers : JarOK(b)'
  BY <1>3, <1>4
<1>5. ASSUME NEW p \in Slots, ClearCookies(p) PROVE \A b \in Browsers : JarOK(b)'
  <2>1. jar' = jar \/ jar' = [jar EXCEPT ![req[p].browser] = EmptyJar]
    BY <1>5 DEF ClearCookies, Respond
  <2> QED BY <1>3, <2>1 DEF TypeOK
<1>6. ASSUME NEW p \in Slots, Arrive(p) PROVE jar' = jar
  BY <1>6 DEF Arrive, LoginStart, RefreshMatch, RefreshMismatch, Logout, RevokeSession,
     LogoutOthers, ResetStart
<1>7. ASSUME NEW p \in Slots, Serve(p) PROVE \A b \in Browsers : JarOK(b)'
  BY <1>1, <1>4, <1>5, <1>7 DEF Serve, LoginLimit, LoginCreate, RefreshRotate, RevokeAll,
     OthersRevoke, ResetApply, Perform, Finish
<1>8. ASSUME \/ \E p \in Slots : Reject(p)
             \/ \E u \in Users : IssueResetToken(u)
             \/ Crash
             \/ UNCHANGED vars
      PROVE  jar' = jar
  BY <1>8 DEF Reject, IssueResetToken, Crash, vars
<1> QED BY <1>2, <1>4, <1>6, <1>7, <1>8 DEF Next

(* A session counts a refresh token from the moment it is opened. *)
LEMMA OpenedMintedStep ==
  TypeOK /\ RequestsOwnSessions /\ CookiesOK /\ [Next]_vars => OpenedMinted'
<1> SUFFICES ASSUME TypeOK, RequestsOwnSessions, CookiesOK, [Next]_vars,
                    NEW j \in Jtis, j \in Opened'
             PROVE  minted'[j] >= 1
  BY DEF OpenedMinted, Opened
<1>1. \A p \in Slots, k \in Jtis : LoginCreate(p, k) /\ k = j => minted'[j] >= 1
  BY DEF LoginCreate, TypeOK
<1>2. ASSUME minted'[j] >= minted[j] \/ minted' = minted, j \in Opened PROVE minted'[j] >= 1
  <2>1. minted[j] >= 1 /\ minted[j] \in Nat /\ (minted'[j] >= minted[j] \/ minted'[j] = minted[j])
    BY <1>2 DEF CookiesOK, OpenedMinted, TypeOK
  <2>2. minted'[j] \in Nat
    BY TypeStep DEF TypeOK
  <2> QED BY <2>1, <2>2
<1>3. j \in Opened \/ \E p \in Slots : LoginCreate(p, j)
  <2>1. CASE RowsWane
    BY <2>1 DEF RowsWane, Opened
  <2>2. ASSUME NEW p \in Slots, NEW k \in Jtis, LoginCreate(p, k), k # j PROVE j \in Opened
    BY <2>2 DEF LoginCreate, Opened, TypeOK
  <2>3. ASSUME NEW p \in Slots, RefreshRotate(p) PROVE j \in Opened
    <3>1. row' = [row EXCEPT ![req[p].jti] = Rotated(req[p])] /\ row[j] \in Row
      BY <2>3 DEF RefreshRotate, TypeOK
    <3> QED BY <3>1 DEF Rotated, TypeOK, Row, Opened
  <2> QED BY <2>1, <2>2, <2>3, RowKinds
<1>4. minted'[j] >= minted[j] \/ minted' = minted \/ \E p \in Slots : LoginCreate(p, j)
  <2>1. ASSUME NEW p \in Slots, NEW b \in Browsers, RefreshMatch(p, b) PROVE minted'[j] >= minted[j]
    <3>1. minted' = [minted EXCEPT ![jar[b].jti] = @ + 1] /\ minted[j] \in Nat
      BY <2>1 DEF RefreshMatch, TypeOK
    <3> QED BY <3>1 DEF TypeOK
  <2>2. ASSUME NEW p \in Slots, NEW k \in Jtis, LoginCreate(p, k), k # j
        PROVE  minted'[j] >= minted[j]
    BY <2>2 DEF LoginCreate, TypeOK
  <2>3. ASSUME NEW p \in Slots, Arrive(p) PROVE minted'[j] >= minted[j] \/ minted' = minted
    BY <2>1, <2>3 DEF Arrive, LoginStart, RefreshMismatch, Logout, RevokeSession,
       LogoutOthers, ResetStart, tokens
  <2>4. ASSUME NEW p \in Slots, Serve(p), \A k \in Jtis : ~LoginCreate(p, k)
        PROVE  minted' = minted
    BY <2>4 DEF Serve, LoginLimit, Sign, RefreshRotate, RevokeAll, ClearCookies,
       OthersRevoke, ResetApply, Perform, Finish, tokens
  <2>5. ASSUME \/ \E p \in Slots : Reject(p)
               \/ \E u \in Users : IssueResetToken(u)
               \/ Crash \/ Tick
               \/ UNCHANGED vars
        PROVE  minted' = minted
    BY <2>5 DEF Reject, IssueResetToken, Crash, Tick, vars, tokens
  <2> QED BY <2>2, <2>3, <2>4, <2>5 DEF Next
<1> QED BY <1>1, <1>2, <1>3, <1>4

(* The answer of a request that waits still fits the jar it goes to. *)
LEMMA AnswerStays ==
  ASSUME TypeOK, RequestsOwnSessions, OpenedStay, NEW p \in Slots, AnswerFits(req[p]),
         req'[p].pc = req[p].pc, req'[p].by = req[p].by, req'[p].pwd = req[p].pwd,
         req'[p].jti = req[p].jti, req'[p].tok = req[p].tok,
         req'[p].browser = req[p].browser,
         \A b \in Browsers : jar'[b].jti \in {jar[b].jti, None}
  PROVE  AnswerFits(req[p])'
<1>1. req[p].pc = "sign" => req[p].jti \in Opened
  BY NoneAssumption DEF RequestsOwnSessions, ActsForOneUser, Idle, TypeOK, Request, Opened
<1>2. req[p].pc = "sign" => row'[req[p].jti].pwd = row[req[p].jti].pwd
  BY <1>1 DEF OpenedStay
<1> QED BY <1>2 DEF AnswerFits

LEMMA AnswerStep ==
  ASSUME Serial
  PROVE  TypeOK /\ RequestsOwnSessions /\ CookiesOK /\ [Next]_vars
           => \A p \in Slots : AnswerFits(req[p])'
<1> SUFFICES ASSUME TypeOK, RequestsOwnSessions, CookiesOK, [Next]_vars, NEW p \in Slots
             PROVE  AnswerFits(req[p])'
  OBVIOUS
<1>0. /\ OpenedStay
      /\ \A q \in Slots : q = p
      /\ req[p] \in Request /\ AnswerFits(req[p])
  BY OpenedStayStep DEF Serial, TypeOK, CookiesOK
<1>1. ASSUME req'[p].pc \notin {"limit", "create", "rotate", "sign"} PROVE AnswerFits(req[p])'
  BY <1>1 DEF AnswerFits
<1>2. ASSUME NEW r, Start(p, r) PROVE req'[p] = r
  BY <1>2 DEF Start, TypeOK
<1>3. ASSUME NEW pc, NEW todo, Goto(p, pc, todo), pc \notin {"limit", "create", "rotate", "sign"}
      PROVE  AnswerFits(req[p])'
  BY <1>1, <1>3, GotoRequest
<1>4. ASSUME req'[p] = Idle PROVE AnswerFits(req[p])'
  BY <1>1, <1>4 DEF Idle
<1>5. ASSUME NEW b \in Browsers, RefreshMatch(p, b) PROVE AnswerFits(req[p])'
  <2> DEFINE j == jar[b].jti
  <2>1. /\ req'[p].pc = "rotate" /\ req'[p].by = "refresh" /\ req'[p].browser = b
        /\ req'[p].jti = j /\ req'[p].tok = minted[j] + 1 /\ jar' = jar
    BY <1>2, <1>5 DEF RefreshMatch, Idle
  <2>2. j \in Opened
    BY <1>5 DEF RefreshMatch, Refreshable, TypeOK, Jar, Opened
  <2>3. minted[j] + 1 > 1
    <3>1. minted[j] \in Nat /\ minted[j] >= 1
      BY <2>2 DEF CookiesOK, OpenedMinted, TypeOK, Opened
    <3> QED BY <3>1
  <2> QED BY <2>1, <2>3 DEF AnswerFits
<1>6. ASSUME NEW b \in Browsers, NEW u \in Users, NEW by \in {"password", "google"},
             LoginStart(p, b, u, by)
      PROVE  AnswerFits(req[p])'
  <2>1. /\ req'[p].pc = "limit" /\ req'[p].by = by
        /\ req'[p].pwd = IF by = "password" THEN password[u] ELSE 0
    BY <1>2, <1>6 DEF LoginStart, Idle
  <2> QED BY <1>6, <2>1 DEF AnswerFits
<1>7. ASSUME Arrive(p) PROVE AnswerFits(req[p])'
  <2>1. ASSUME NEW b \in Browsers, RefreshMismatch(p, b) \/ Logout(p, b) PROVE AnswerFits(req[p])'
    BY <2>1, <1>1, <1>2 DEF RefreshMismatch, Logout, Idle
  <2>2. ASSUME NEW j \in Jtis, NEW target \in Jtis, RevokeSession(p, j, target) PROVE AnswerFits(req[p])'
    BY <2>2, <1>1, <1>2 DEF RevokeSession, Idle
  <2>3. ASSUME NEW j \in Jtis, LogoutOthers(p, j) PROVE AnswerFits(req[p])'
    BY <2>3, <1>1, <1>2 DEF LogoutOthers, Idle
  <2>4. ASSUME NEW u \in Users, ResetStart(p, u) PROVE AnswerFits(req[p])'
    BY <2>4, <1>1, <1>2 DEF ResetStart, Idle
  <2> QED BY <1>5, <1>6, <1>7, <2>1, <2>2, <2>3, <2>4 DEF Arrive
<1>8. ASSUME LoginLimit(p) PROVE AnswerFits(req[p])'
  <2>1. PICK todo : Goto(p, "create", todo)
    BY <1>8 DEF LoginLimit
  <2>2. /\ req'[p].pc = "create" /\ req'[p].by = req[p].by /\ req'[p].pwd = req[p].pwd
        /\ req[p].pc = "limit"
    BY <1>8, <2>1, GotoRequest DEF LoginLimit, At
  <2> QED BY <1>0, <2>2 DEF AnswerFits
<1>9. ASSUME NEW j \in Jtis, LoginCreate(p, j) PROVE AnswerFits(req[p])'
  <2>1. /\ req'[p].pc = "sign" /\ req'[p].by = req[p].by /\ req'[p].jti = j
        /\ req[p].pc = "create" /\ row'[j].pwd = req[p].pwd
    BY <1>0, <1>9 DEF LoginCreate, At, TypeOK, Request
  <2> QED BY <1>0, <2>1 DEF AnswerFits
<1>10. ASSUME RefreshRotate(p) PROVE AnswerFits(req[p])'
  <2>1. PICK todo : Goto(p, "sign", todo)
    BY <1>10 DEF RefreshRotate
  <2>2. /\ req'[p].pc = "sign" /\ req'[p].by = req[p].by /\ req'[p].jti = req[p].jti
        /\ req'[p].tok = req[p].tok /\ req'[p].browser = req[p].browser
        /\ req[p].pc = "rotate" /\ jar' = jar
    BY <1>10, <2>1, GotoRequest DEF RefreshRotate, At
  <2> QED BY <1>0, <2>2 DEF AnswerFits
<1>11. ASSUME Perform(p) PROVE AnswerFits(req[p])'
  <2>1. PICK todo : Goto(p, req[p].pc, todo)
    BY <1>11 DEF Perform, PerformRevokeRow, PerformRevokeRows, PerformSetPassword,
       PerformDropToken, PerformBlacklist, PerformCache, PerformReadList,
       PerformWriteList, Performed
  <2>2. jar' = jar
    BY <1>11 DEF Perform
  <2>3. /\ req'[p].pc = req[p].pc /\ req'[p].by = req[p].by /\ req'[p].pwd = req[p].pwd
        /\ req'[p].jti = req[p].jti /\ req'[p].tok = req[p].tok
        /\ req'[p].browser = req[p].browser
    BY <2>1, GotoRequest
  <2> QED BY <1>0, <2>2, <2>3, AnswerStays
<1>12. ASSUME Serve(p) PROVE AnswerFits(req[p])'
  <2>1. ASSUME Sign(p) \/ ClearCookies(p) \/ Finish(p) PROVE AnswerFits(req[p])'
    BY <2>1, <1>4 DEF Sign, ClearCookies, Finish, TypeOK
  <2>2. ASSUME RevokeAll(p) \/ OthersRevoke(p) \/ ResetApply(p) PROVE AnswerFits(req[p])'
    BY <2>2, <1>3 DEF RevokeAll, OthersRevoke, ResetApply
  <2> QED BY <1>8, <1>9, <1>10, <1>11, <1>12, <2>1, <2>2 DEF Serve
<1>13. ASSUME Reject(p) PROVE AnswerFits(req[p])'
  <2>1. PICK todo : Goto(p, "gone", todo)
    BY <1>13 DEF Reject
  <2> QED BY <1>3, <2>1
<1>14. ASSUME Crash PROVE AnswerFits(req[p])'
  BY <1>4, <1>14 DEF Crash
<1>15. ASSUME Tick \/ (\E u \in Users : IssueResetToken(u)) \/ UNCHANGED vars
       PROVE  AnswerFits(req[p])'
  <2>1. req' = req
    BY <1>15 DEF Tick, IssueResetToken, vars
  <2>2. \A b \in Browsers : jar'[b].jti \in {jar[b].jti, None}
    <3>1. CASE Tick
      <4> SUFFICES ASSUME NEW b \in Browsers PROVE jar'[b].jti \in {jar[b].jti, None}
        OBVIOUS
      <4>1. jar'[b] = Aged(jar[b]) /\ jar[b] \in Jar
        BY <3>1 DEF Tick, TypeOK
      <4> QED BY <4>1 DEF Aged, Jar
    <3>2. CASE jar' = jar
      BY <3>2
    <3> QED BY <1>15, <3>1, <3>2 DEF IssueResetToken, vars
  <2> QED BY <1>0, <2>1, <2>2, AnswerStays
<1> QED BY <1>0, <1>7, <1>12, <1>13, <1>14, <1>15 DEF Next

(* One request at a time, a browser loses the jti cookie that came with    *)
(* its refresh cookie only after a refresh has renewed the latter alone.   *)
THEOREM JtiCookieCorrect ==
  ASSUME Serial
  PROVE  Spec => []JtiCookieKept
<1>1. TypeOK /\ RequestsOwnSessions /\ CookiesOK /\ [Next]_vars => CookiesOK'
  BY JarsStep, OpenedMintedStep, AnswerStep DEF CookiesOK
<1>2. CookiesOK => JtiCookieKept
  BY DEF CookiesOK, JarOK, JtiCookieKept
<1> QED BY <1>1, <1>2, CookiesInit, TypeAndOwnership, PTL DEF Spec
=============================================================================

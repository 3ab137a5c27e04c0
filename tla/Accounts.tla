------------------------------ MODULE Accounts ------------------------------
(***************************************************************************)
(* The account of one e-mail address: register, verifyEmail, resendOtp,    *)
(* loginWithGoogle up to the session, forgotPassword and verifyResetOtp of *)
(* AuthService, with the keys RedisService keeps for the address.          *)
(*                                                                         *)
(* A request runs in a slot, atomic between two awaits.  The statements of *)
(* one Promise.all, or a single one, are the slot's todo: they are         *)
(* performed in any order, and the request goes on at pc once none is left. *)
(*                                                                         *)
(* An OTP is not spelt out: a caller answers right or wrong, and every     *)
(* setOtp stores a fresh code.  A key of Redis is its remaining lifetime,  *)
(* 0 when there is none.  A counter above its maximum counts as the        *)
(* maximum, which is all the comparisons tell apart.                       *)
(*                                                                         *)
(* The session a Google login opens and the reset that consumes the token  *)
(* are in Sessions.  Left out: phone, avatar, names, the action log, and   *)
(* the mails of registration, whose fate no handler learns.                *)
(***************************************************************************)
EXTENDS Naturals, FiniteSets

CONSTANTS
  Slots,
  MAX_OTP_ATTEMPTS,   \* wrong answers before an OTP is locked (5)
  MAX_RESET_ATTEMPTS, \* the same for the reset OTP (5)
  TTL,                \* lifetime of each key, in ticks
  MaxFaults           \* bound: rejected statements, lost mails, crashes

Counters == {"attempts", "resetAttempts"}
Keys == Counters \cup {"otp", "known", "resetOtp", "cooldown", "resetToken"}

ASSUME TtlAssumption == TTL \in [Keys -> Nat \ {0}]
ASSUME MaxAssumption ==
  MAX_OTP_ATTEMPTS \in Nat \ {0} /\ MAX_RESET_ATTEMPTS \in 1..MAX_OTP_ATTEMPTS
ASSUME BoundsAssumption == MaxFaults \in Nat
ASSUME SlotsAssumption == IsFiniteSet(Slots)
(* The counter of an OTP lives at least as long as the OTP: 15 minutes     *)
(* (redis.service.ts:40) against 5 (auth.service.ts:39).                   *)
ASSUME LifetimesAssumption == TTL["otp"] <= TTL["attempts"]

VARIABLES
  status,   \* MySQL users.status: "NONE" without a row
  linked,   \* users.providerId is set
  left,     \* Redis: the remaining lifetime of each key of the address
  count,    \* Redis: the value of each counter, 0 without the key
  answered, \* history: somebody gave the right registration OTP
  guesses,  \* history: wrong answers to the registration OTP now stored
  lost,     \* history: a race or a fault lost the count of one of them
  opened,   \* history: right answers to the reset OTP now stored
  req,      \* the request in each slot
  faults

account == <<status, linked>>
history == <<answered, guesses, lost, opened>>
vars == <<account, left, count, history, req, faults>>

-----------------------------------------------------------------------------
Activation == <<"update", "ACTIVE">>
SetKey(k) == <<"set", k>>
DelKey(k) == <<"del", k>>

Commands == ({"set", "del"} \X Keys) \cup {Activation}

PCs == {"idle", "done", "lookup", "create", "answer", "user", "count", "bump",
        "resend", "forgot", "code", "mail", "unmailed", "resetAnswer",
        "findUser", "createGoogle", "link", "linkActivate"}

Idle == [pc |-> "idle", key |-> "attempts", n |-> 0, todo |-> {}]

Maximum == [k \in Counters |->
  IF k = "attempts" THEN MAX_OTP_ATTEMPTS ELSE MAX_RESET_ATTEMPTS]

Request ==
  [pc : PCs, key : Counters, n : Nat, todo : SUBSET Commands]

Free(p) == req[p].pc = "idle"

(* The request is at pc and has nothing left to perform. *)
At(p, pc) == req[p].pc = pc /\ req[p].todo = {}
Goto(p, pc, todo) == req' = [req EXCEPT ![p] = [Idle EXCEPT !.pc = pc, !.todo = todo]]
Start(p, pc) == Free(p) /\ Goto(p, pc, {})
End(p) == req' = [req EXCEPT ![p] = Idle]

NoAccount == status = "NONE"
Stored(k) == left[k] > 0

-----------------------------------------------------------------------------
(* Nothing under way, nothing in Redis *)
Fresh ==
  /\ left = [k \in Keys |-> 0]
  /\ count = [k \in Counters |-> 0]
  /\ answered = FALSE
  /\ guesses = 0
  /\ lost = FALSE
  /\ opened = 0
  /\ req = [p \in Slots |-> Idle]
  /\ faults = 0

Init ==
  /\ status = "NONE"
  /\ linked = FALSE
  /\ Fresh

-----------------------------------------------------------------------------
(* register *)

(* The e-mail cache spares the query. *)
Register(p) ==
  /\ ~Stored("known")
  /\ Start(p, "lookup")
  /\ UNCHANGED <<account, left, count, history, faults>>

RegisterLookup(p) ==
  /\ At(p, "lookup")
  /\ IF NoAccount THEN Goto(p, "create", {})
                  ELSE Goto(p, "done", {SetKey("known")})
  /\ UNCHANGED <<account, left, count, history, faults>>

RegisterCommands == {SetKey("otp"), SetKey("known")}

RegisterUpsert(p) ==
  /\ At(p, "create")
  /\ status' = "PENDING"
  /\ Goto(p, "done", RegisterCommands)
  /\ UNCHANGED <<linked, left, count, history, faults>>

(* user.create, unless the phone number, or by now the address, is taken   *)
RegisterCreate(p) ==
  /\ At(p, "create")
  /\ \/ NoAccount /\ status' = "PENDING" /\ Goto(p, "done", RegisterCommands)
     \/ UNCHANGED status /\ End(p)
  /\ UNCHANGED <<linked, left, count, history, faults>>

-----------------------------------------------------------------------------
(* verifyEmail and verifyResetOtp, both locked by the counter of the       *)
(* registration OTP *)

UnlockedOnceMore == count["attempts"] <= MAX_OTP_ATTEMPTS
Unlocked == count["attempts"] < MAX_OTP_ATTEMPTS
ResetUnlocked == count["attempts"] < MAX_RESET_ATTEMPTS

VerifyEmail(p) ==
  /\ Unlocked
  /\ Start(p, "answer")
  /\ UNCHANGED <<account, left, count, history, faults>>

VerifyGone(p) ==
  /\ \/ At(p, "answer") /\ ~Stored("otp")
     \/ At(p, "resetAnswer") /\ ~Stored("resetOtp")
  /\ End(p)
  /\ UNCHANGED <<account, left, count, history, faults>>

VerifyRight(p) ==
  /\ At(p, "answer")
  /\ Stored("otp")
  /\ answered' = TRUE
  /\ Goto(p, "user", {})
  /\ UNCHANGED <<account, left, count, guesses, lost, opened, faults>>

(* The history need not grow past what is forbidden, nor once it is lost.  *)
GuessLimit == MAX_OTP_ATTEMPTS + Cardinality(Slots) - 1
Guessed == IF lost \/ guesses > GuessLimit THEN guesses ELSE guesses + 1

(* A wrong answer to the registration OTP whose count has not arrived yet *)
Counting(p) == req[p].pc \in {"count", "bump"} /\ req[p].key = "attempts"

(* Once a count is lost, there is no point in counting on. *)
LoseIf(b) == lost' = (lost \/ b) /\ guesses' = IF lost' THEN 0 ELSE guesses

Increment(p, k) == req' = [req EXCEPT ![p] = [Idle EXCEPT !.pc = "count", !.key = k]]

VerifyWrong(p) ==
  /\ At(p, "answer")
  /\ Stored("otp")
  /\ guesses' = Guessed
  /\ Increment(p, "attempts")
  /\ UNCHANGED <<account, left, count, answered, lost, opened, faults>>

(* incrementOtpAttempts, incrementResetOtpAttempts: get, then set *)
CountRead(p) ==
  /\ At(p, "count")
  /\ req' = [req EXCEPT ![p].pc = "bump", ![p].n = count[req[p].key]]
  /\ UNCHANGED <<account, left, count, history, faults>>

Successor(k, n) == IF n < Maximum[k] THEN n + 1 ELSE n

(* 15 * 60 * 1000: the store takes milliseconds. *)
CounterMilliseconds(k) == TTL[k] * 1000
CounterTtl(k) == TTL[k]

CountWrite(p) ==
  LET k == req[p].key IN
  /\ At(p, "bump")
  /\ count' = [count EXCEPT ![k] = Successor(k, req[p].n)]
  /\ left' = [left EXCEPT ![k] = CounterTtl(k)]
  /\ LoseIf(k = "attempts" /\ count[k] # req[p].n)
  /\ End(p)
  /\ UNCHANGED <<account, answered, opened, faults>>

ClearOtp == {DelKey("otp"), DelKey("attempts")}

VerifyUser(p) ==
  /\ At(p, "user")
  /\ CASE status = "NONE" -> End(p)
       [] status = "ACTIVE" -> Goto(p, "done", ClearOtp)
       [] OTHER -> Goto(p, "done", ClearOtp \cup {Activation, DelKey("known")})
  /\ UNCHANGED <<account, left, count, history, faults>>

VerifyResetOtp(p) ==
  /\ ResetUnlocked
  /\ Start(p, "resetAnswer")
  /\ UNCHANGED <<account, left, count, history, faults>>

ResetOtpKept == {DelKey("resetAttempts"), SetKey("resetToken")}
ResetCommands ==
  {DelKey("resetOtp"), DelKey("resetAttempts"), SetKey("resetToken")}

VerifyResetRight(p) ==
  /\ At(p, "resetAnswer")
  /\ Stored("resetOtp")
  /\ opened' = opened + 1
  /\ Goto(p, "done", ResetCommands)
  /\ UNCHANGED <<account, left, count, answered, guesses, lost, faults>>

VerifyResetWrong(p) ==
  /\ At(p, "resetAnswer")
  /\ Stored("resetOtp")
  /\ Increment(p, "resetAttempts")
  /\ UNCHANGED <<account, left, count, history, faults>>

-----------------------------------------------------------------------------
(* resendOtp *)

ResendOtp(p) ==
  /\ ~Stored("otp")
  /\ Start(p, "resend")
  /\ UNCHANGED <<account, left, count, history, faults>>

ResendLookup(p) ==
  /\ At(p, "resend")
  /\ IF status = "PENDING"
       THEN Goto(p, "done", {SetKey("otp"), DelKey("attempts")})
       ELSE End(p)
  /\ UNCHANGED <<account, left, count, history, faults>>

-----------------------------------------------------------------------------
(* forgotPassword *)

ForgotPassword(p) ==
  /\ ~Stored("cooldown")
  /\ Start(p, "forgot")
  /\ UNCHANGED <<account, left, count, history, faults>>

(* getResetOtpCooldown takes a failed read for "no cooldown". *)
ForgotUnreadable(p) ==
  /\ faults < MaxFaults
  /\ faults' = faults + 1
  /\ Start(p, "forgot")
  /\ UNCHANGED <<account, left, count, history>>

ForgotAnyone(p) ==
  /\ At(p, "forgot")
  /\ Goto(p, "code", {})
  /\ UNCHANGED <<account, left, count, history, faults>>

ForgotLookup(p) ==
  /\ At(p, "forgot")
  /\ IF NoAccount THEN Goto(p, "done", {SetKey("cooldown")}) ELSE Goto(p, "code", {})
  /\ UNCHANGED <<account, left, count, history, faults>>

ForgotNewCode(p) ==
  /\ At(p, "code")
  /\ Goto(p, "mail", {SetKey("resetOtp")})
  /\ UNCHANGED <<account, left, count, history, faults>>
(* An OTP that is still stored is sent again and keeps its lifetime. *)
ForgotCode(p) ==
  /\ At(p, "code")
  /\ Goto(p, "mail", IF Stored("resetOtp") THEN {} ELSE {SetKey("resetOtp")})
  /\ UNCHANGED <<account, left, count, history, faults>>

(* sendPasswordReset *)
ForgotMail(p) ==
  /\ At(p, "mail")
  /\ Goto(p, "done", {SetKey("cooldown")})
  /\ UNCHANGED <<account, left, count, history, faults>>

(* mailQueue.add fails: MailService logs it and returns all the same. *)
ForgotMailLost(p) ==
  /\ At(p, "mail")
  /\ faults < MaxFaults
  /\ faults' = faults + 1
  /\ Goto(p, "unmailed", {SetKey("cooldown")})
  /\ UNCHANGED <<account, left, count, history>>

-----------------------------------------------------------------------------
(* loginWithGoogle, up to the session limit *)

GoogleLogin(p) ==
  /\ Start(p, "findUser")
  /\ UNCHANGED <<account, left, count, history, faults>>

(* needsUpdate, and what will be updated, by the row as it is now *)
GoogleFind(p) ==
  /\ At(p, "findUser")
  /\ CASE status = "NONE" -> Goto(p, "createGoogle", {})
       [] status = "PENDING" -> Goto(p, "linkActivate", {})
       [] status = "ACTIVE" /\ ~linked -> Goto(p, "link", {})
       [] OTHER -> End(p)
  /\ UNCHANGED <<account, left, count, history, faults>>

GoogleCreate(p) ==
  /\ At(p, "createGoogle")
  /\ IF NoAccount THEN status' = "ACTIVE" /\ linked' = TRUE
                  ELSE UNCHANGED account
  /\ End(p)
  /\ UNCHANGED <<left, count, history, faults>>

GoogleLink(p) ==
  /\ \/ At(p, "link") /\ UNCHANGED status
     \/ At(p, "linkActivate") /\ status' = "ACTIVE"
  /\ linked' = TRUE
  /\ End(p)
  /\ UNCHANGED <<left, count, history, faults>>

-----------------------------------------------------------------------------
(* Statements on their way to the stores *)

Done(p, c) == req' = [req EXCEPT ![p].todo = @ \ {c}]

PerformSet(p, k) ==
  /\ SetKey(k) \in req[p].todo
  /\ left' = [left EXCEPT ![k] = TTL[k]]
  /\ guesses' = IF k = "otp" THEN 0 ELSE guesses
  /\ lost' = (k # "otp" /\ lost)
  /\ opened' = IF k = "resetOtp" THEN 0 ELSE opened
  /\ Done(p, SetKey(k))
  /\ UNCHANGED <<account, count, answered, faults>>

(* A counter deleted while it counts answers to the OTP that is stored     *)
(* loses them: the deletion was meant for an earlier OTP or came too late. *)
PerformDel(p, k) ==
  /\ DelKey(k) \in req[p].todo
  /\ left' = [left EXCEPT ![k] = 0]
  /\ count' = [c \in Counters |-> IF c = k THEN 0 ELSE count[c]]
  /\ LoseIf(k = "attempts" /\ guesses > 0)
  /\ Done(p, DelKey(k))
  /\ UNCHANGED <<account, answered, opened, faults>>

PerformActivate(p) ==
  /\ Activation \in req[p].todo
  /\ status' = "ACTIVE"
  /\ Done(p, Activation)
  /\ UNCHANGED <<linked, left, count, history, faults>>

Perform(p) ==
  \/ \E k \in Keys : PerformSet(p, k) \/ PerformDel(p, k)
  \/ PerformActivate(p)

(* The handler returns or throws, with all its statements performed. *)
Finish(p) ==
  /\ At(p, "done") \/ At(p, "unmailed")
  /\ End(p)
  /\ UNCHANGED <<account, left, count, history, faults>>

(* The statement a request waits for is rejected: it throws, while the     *)
(* other statements of a Promise.all go on.                                *)
Reject(p) ==
  /\ ~Free(p)
  /\ ~At(p, "mail")
  /\ ~At(p, "done") /\ ~At(p, "unmailed")
  /\ faults < MaxFaults
  /\ faults' = faults + 1
  /\ \E rest \in SUBSET req[p].todo :
       /\ rest = {} \/ rest # req[p].todo
       /\ Goto(p, "done", rest)
  /\ LoseIf(Counting(p))
  /\ UNCHANGED <<account, left, count, answered, opened>>

(* The process ends, and all requests with it. *)
Crash ==
  /\ faults < MaxFaults
  /\ faults' = faults + 1
  /\ req' = [p \in Slots |-> Idle]
  /\ LoseIf(\E p \in Slots : Counting(p))
  /\ UNCHANGED <<account, left, count, answered, opened>>

Dec(n) == IF n = 0 THEN 0 ELSE n - 1
NextLeft(k) == Dec(left[k])

Tick ==
  /\ left' = [k \in Keys |-> NextLeft(k)]
  /\ count' = [k \in Counters |-> IF NextLeft(k) = 0 THEN 0 ELSE count[k]]
  /\ UNCHANGED <<account, history, req, faults>>

-----------------------------------------------------------------------------
Arrive(p) ==
  \/ Register(p)
  \/ VerifyEmail(p)
  \/ ResendOtp(p)
  \/ ForgotPassword(p)
  \/ ForgotUnreadable(p)
  \/ VerifyResetOtp(p)
  \/ GoogleLogin(p)

(* The steps that neither store an OTP nor mail nor accept one *)
Handle(p) ==
  \/ RegisterLookup(p)
  \/ RegisterCreate(p)
  \/ VerifyGone(p)
  \/ VerifyWrong(p)
  \/ CountRead(p)
  \/ CountWrite(p)
  \/ VerifyUser(p)
  \/ VerifyResetWrong(p)
  \/ ResendLookup(p)
  \/ ForgotLookup(p)
  \/ GoogleFind(p)
  \/ GoogleCreate(p)
  \/ GoogleLink(p)

Serve(p) ==
  \/ Handle(p)
  \/ VerifyRight(p)
  \/ VerifyResetRight(p)
  \/ ForgotCode(p)
  \/ ForgotMail(p)
  \/ Perform(p)
  \/ Finish(p)

Next ==
  \/ \E p \in Slots : Arrive(p) \/ Serve(p) \/ ForgotMailLost(p) \/ Reject(p)
  \/ Crash
  \/ Tick

Spec == Init /\ [][Next]_vars

-----------------------------------------------------------------------------
(* Properties. *)

(* Every key, counter and request keeps its shape and its lifetime.        *)
TypeOK ==
  /\ status \in {"NONE", "PENDING", "ACTIVE"}
  /\ linked \in BOOLEAN
  /\ left \in [Keys -> Nat]
  /\ \A k \in Keys : left[k] <= TTL[k]
  /\ count \in [Counters -> Nat]
  /\ \A k \in Counters : count[k] <= Maximum[k]
  /\ answered \in BOOLEAN
  /\ guesses \in Nat
  /\ lost \in BOOLEAN
  /\ opened \in Nat
  /\ req \in [Slots -> Request]
  /\ faults \in Nat

(* No key but the cooldown speaks of an address that has no account, so    *)
(* that a cached "e-mail taken" is true (redis.service.ts:54-57) and       *)
(* nobody can answer an OTP before user.create (auth.service.ts:209-233).  *)
KeysNeedAccount ==
  \A k \in Keys \ {"cooldown"} : Stored(k) => ~NoAccount

(* One registration OTP takes at most 5 wrong answers, and one more for    *)
(* each request that was past the check (auth.service.ts:269), unless a    *)
(* count was lost: between get and set (redis.service.ts:38-43), to an     *)
(* overlapping request (auth.service.ts:305, 321, 372), or to a fault.     *)
GuessesBounded == lost \/ guesses <= GuessLimit

(* A reset OTP that was answered is spent: it opens the way to a new       *)
(* password once for each overlapping request, not once more after one of  *)
(* them has returned (auth.service.ts:813-817); a fault may spare it.      *)
ResetOtpSpent == opened <= Cardinality(Slots) * (faults + 1)

(* The account keeps the promise of AccountLifecycle.                      *)
Lifecycle == INSTANCE AccountLifecycle WITH proved <- answered \/ linked
LifecycleSpec == Lifecycle!Spec

(* A request that could not queue the mail of a reset OTP leaves no        *)
(* cooldown behind, so that the user may try again at once                 *)
(* (auth.service.ts:762, "KHÔNG set cooldown nếu mail fail").              *)
CooldownMeansMailed ==
  \A p \in Slots : At(p, "unmailed") => ~Stored("cooldown")
=============================================================================

--------------------------- MODULE AccountsProofs ---------------------------
(***************************************************************************)
(* Proofs about Accounts: for any number of overlapping requests, any      *)
(* lifetimes and any faults, no key but the cooldown speaks of an address  *)
(* without an account, and the account keeps the promise of                *)
(* AccountLifecycle.                                                       *)
(***************************************************************************)
EXTENDS Accounts, TLAPS

(* Steps that only a request that has seen the account comes to *)
AccountSeen == {"user", "code", "mail", "unmailed", "count", "bump", "link", "linkActivate"}

(* Statements that must not be performed without an account *)
AccountNeeded == {SetKey(k) : k \in Keys \ {"cooldown"}} \cup {Activation}

(* What a request r knows when the status is s and the OTP was answered, a *)
Knows(r, s, a) ==
  /\ r.n <= Maximum[r.key]
  /\ r.pc \in AccountSeen => s # "NONE"
  /\ r.pc = "user" => a
  /\ r.todo \cap AccountNeeded # {} => s # "NONE"
  /\ Activation \in r.todo => a

RequestsKnow == \A p \in Slots : Knows(req[p], status, answered)

ProofNeedsAccount == answered \/ linked => ~NoAccount

(* What TypeOK says of everything but the requests *)
StoresOK ==
  /\ status \in {"NONE", "PENDING", "ACTIVE"}
  /\ linked \in BOOLEAN
  /\ left \in [Keys -> Nat]
  /\ \A k \in Keys : left[k] <= TTL[k]
  /\ count \in [Counters -> Nat]
  /\ \A k \in Counters : count[k] <= Maximum[k]
  /\ answered \in BOOLEAN
  /\ guesses \in Nat
  /\ lost \in BOOLEAN
  /\ opened \in Nat
  /\ faults \in Nat

RequestsOK == req \in [Slots -> Request] /\ RequestsKnow

(* Everything but the requests, with what it is worth *)
AddressOK == StoresOK /\ KeysNeedAccount /\ ProofNeedsAccount

IInv == AddressOK /\ RequestsOK

LEMMA Maxima == Maximum \in [Counters -> Nat \ {0}]
  BY MaxAssumption DEF Maximum, Counters

(* The account does not go away, and a right answer is not forgotten. *)
Onward == (status # "NONE" => status' # "NONE") /\ (answered => answered')

-----------------------------------------------------------------------------
(* Only the slot that moved has to be looked at. *)
LEMMA SlotStep ==
  ASSUME RequestsOK, Onward, NEW p \in Slots, NEW r \in Request,
         Knows(r, status', answered'), req' = [req EXCEPT ![p] = r]
  PROVE  RequestsOK'
<1>1. req' \in [Slots -> Request]
  BY DEF RequestsOK
<1>2. ASSUME NEW q \in Slots PROVE Knows(req'[q], status', answered')
  <2>1. CASE q = p
    BY <2>1 DEF RequestsOK
  <2>2. CASE q # p
    <3>1. req'[q] = req[q] /\ Knows(req[q], status, answered)
      BY <2>2 DEF RequestsOK, RequestsKnow
    <3> QED BY <3>1 DEF Knows, Onward
  <2> QED BY <2>1, <2>2
<1> QED BY <1>1, <1>2 DEF RequestsOK, RequestsKnow

(* A request that goes on to pc with todo knows enough if the account      *)
(* exists wherever one of the two needs it.                                *)
LEMMA GotoOK ==
  ASSUME NEW pc \in PCs, NEW todo \in SUBSET Commands, NEW s, NEW a,
         pc \in AccountSeen => s # "NONE", pc = "user" => a,
         todo \cap AccountNeeded # {} => s # "NONE", Activation \in todo => a
  PROVE  /\ [Idle EXCEPT !.pc = pc, !.todo = todo] \in Request
         /\ Knows([Idle EXCEPT !.pc = pc, !.todo = todo], s, a)
<1>1. "attempts" \in Counters /\ 0 <= Maximum["attempts"]
  BY Maxima DEF Counters
<1> QED BY <1>1 DEF Idle, Request, Knows

LEMMA GotoStep ==
  ASSUME RequestsOK, Onward, NEW p \in Slots,
         NEW pc \in PCs, NEW todo \in SUBSET Commands,
         pc \in AccountSeen => status' # "NONE", pc = "user" => answered',
         todo \cap AccountNeeded # {} => status' # "NONE",
         Activation \in todo => answered',
         Goto(p, pc, todo)
  PROVE  RequestsOK'
<1> DEFINE r == [Idle EXCEPT !.pc = pc, !.todo = todo]
<1>1. r \in Request /\ Knows(r, status', answered')
  BY GotoOK
<1>2. req' = [req EXCEPT ![p] = r]
  BY DEF Goto
<1> HIDE DEF r
<1> QED BY <1>1, <1>2, SlotStep

(* A new request starts out like one that has seen nothing yet. *)
LEMMA StartStep ==
  ASSUME RequestsOK, Onward, NEW p \in Slots, NEW pc \in PCs \ AccountSeen,
         Start(p, pc)
  PROVE  RequestsOK'
<1>1. Goto(p, pc, {})
  BY DEF Start
<1>2. "user" \in AccountSeen
  BY DEF AccountSeen
<1> QED BY <1>1, <1>2, GotoStep

LEMMA EndStep ==
  ASSUME RequestsOK, Onward, NEW p \in Slots, End(p)
  PROVE  RequestsOK'
<1>1. Goto(p, "idle", {})
  BY DEF End, Goto, Idle
<1>2. "idle" \in PCs /\ "idle" \notin AccountSeen
  BY DEF PCs, AccountSeen
<1> QED BY <1>1, <1>2, GotoStep

LEMMA DoneStep ==
  ASSUME RequestsOK, Onward, NEW p \in Slots, NEW c, Done(p, c)
  PROVE  RequestsOK'
<1> DEFINE r == [req[p] EXCEPT !.todo = @ \ {c}]
<1>1. req[p] \in Request /\ Knows(req[p], status', answered')
  BY DEF RequestsOK, RequestsKnow, Knows, Onward
<1>2. r \in Request /\ Knows(r, status', answered')
  BY <1>1 DEF Request, Knows
<1>3. req' = [req EXCEPT ![p] = r]
  BY DEF Done
<1> HIDE DEF r
<1> QED BY <1>2, <1>3, SlotStep

-----------------------------------------------------------------------------
(* Which statements there are, and which of them need the account *)
LEMMA Statements ==
  /\ \A k \in Keys : SetKey(k) \in Commands /\ DelKey(k) \in Commands
  /\ \A k \in Keys : DelKey(k) \notin AccountNeeded /\ DelKey(k) # Activation
  /\ \A k \in Keys \ {"cooldown"} : SetKey(k) \in AccountNeeded
  /\ \A k \in Keys : SetKey(k) # Activation
  /\ SetKey("cooldown") \notin AccountNeeded
  /\ Activation \in Commands /\ Activation \in AccountNeeded
  BY DEF SetKey, DelKey, Activation, Commands, AccountNeeded, Keys, Counters

(* A request that may set one of these keys has seen the account. *)
LEMMA Knowledge ==
  ASSUME IInv, NEW p \in Slots
  PROVE  /\ req[p] \in Request /\ Knows(req[p], status, answered)
         /\ \A k \in Keys \ {"cooldown"} : SetKey(k) \in req[p].todo => ~NoAccount
         /\ Activation \in req[p].todo => answered /\ ~NoAccount
         /\ req[p].pc \in AccountSeen => ~NoAccount
<1>1. req[p] \in Request /\ Knows(req[p], status, answered)
  BY DEF IInv, RequestsOK, RequestsKnow
<1> QED BY <1>1, Statements DEF Knows, NoAccount

(* A step that leaves the address alone leaves its invariants alone. *)
LEMMA AddressStep ==
  ASSUME AddressOK, UNCHANGED <<account, left, count, answered>>,
         guesses' \in Nat, lost' \in BOOLEAN, opened' \in Nat, faults' \in Nat
  PROVE  AddressOK' /\ Onward
  BY DEF AddressOK, StoresOK, account, KeysNeedAccount, ProofNeedsAccount,
         NoAccount, Stored, Onward

(* The same for a step that leaves the history alone too. *)
LEMMA QuietStep ==
  ASSUME AddressOK, UNCHANGED <<account, left, count, history, faults>>
  PROVE  AddressOK' /\ Onward
  BY AddressStep DEF AddressOK, StoresOK, history

-----------------------------------------------------------------------------
(* register, resendOtp and forgotPassword *)
LEMMA RegistrationStep ==
  ASSUME IInv, NEW p \in Slots,
         Register(p) \/ RegisterLookup(p) \/ RegisterCreate(p)
           \/ ResendOtp(p) \/ ResendLookup(p)
  PROVE  IInv'
<1> USE DEF IInv
<1>a. {"lookup", "create", "done", "resend"} \subseteq PCs \ AccountSeen
  BY DEF PCs, AccountSeen
<1>b. {"otp", "known", "attempts"} \subseteq Keys \ {"cooldown"}
  BY DEF Keys, Counters
<1>1. CASE Register(p)
  BY <1>1, <1>a, QuietStep, StartStep DEF Register
<1>2. CASE RegisterLookup(p)
  <2>1. AddressOK' /\ Onward
    BY <1>2, QuietStep DEF RegisterLookup
  <2>2. CASE NoAccount
    BY <1>2, <1>a, <2>1, <2>2, GotoStep DEF RegisterLookup, AccountSeen
  <2>3. CASE ~NoAccount
    <3>1. Goto(p, "done", {SetKey("known")}) /\ status' # "NONE"
      BY <1>2, <2>3 DEF RegisterLookup, account, NoAccount
    <3>2. {SetKey("known")} \in SUBSET Commands /\ Activation \notin {SetKey("known")}
      BY <1>b, Statements
    <3> QED BY <1>a, <2>1, <3>1, <3>2, GotoStep DEF AccountSeen
  <2> QED BY <2>2, <2>3
<1>3. CASE RegisterCreate(p)
  <2>1. CASE NoAccount /\ status' = "PENDING" /\ Goto(p, "done", RegisterCommands)
    <3>1. AddressOK' /\ Onward
      BY <1>3, <2>1 DEF RegisterCreate, AddressOK, StoresOK, history, NoAccount,
         KeysNeedAccount, ProofNeedsAccount, Stored, Onward
    <3>2. RegisterCommands \in SUBSET Commands /\ Activation \notin RegisterCommands
      BY <1>b, Statements DEF RegisterCommands
    <3> QED BY <1>a, <2>1, <3>1, <3>2, GotoStep DEF AccountSeen
  <2>2. CASE UNCHANGED status /\ End(p)
    <3>1. AddressOK' /\ Onward
      BY <1>3, <2>2, QuietStep DEF RegisterCreate, account
    <3> QED BY <2>2, <3>1, EndStep
  <2> QED BY <1>3, <2>1, <2>2 DEF RegisterCreate
<1>4. CASE ResendOtp(p)
  BY <1>4, <1>a, QuietStep, StartStep DEF ResendOtp
<1>5. CASE ResendLookup(p)
  <2> DEFINE todo == {SetKey("otp"), DelKey("attempts")}
  <2>1. AddressOK' /\ Onward
    BY <1>5, QuietStep DEF ResendLookup
  <2>2. CASE status = "PENDING"
    <3>1. Goto(p, "done", todo) /\ status' # "NONE"
      BY <1>5, <2>2 DEF ResendLookup, account
    <3>2. todo \in SUBSET Commands /\ Activation \notin todo
      BY <1>b, Statements
    <3> HIDE DEF todo
    <3> QED BY <1>a, <2>1, <3>1, <3>2, GotoStep DEF AccountSeen
  <2>3. CASE status # "PENDING"
    BY <1>5, <2>1, <2>3, EndStep DEF ResendLookup
  <2> QED BY <2>2, <2>3
<1> QED BY <1>1, <1>2, <1>3, <1>4, <1>5

-----------------------------------------------------------------------------
(* A wrong answer goes on to its counter. *)
LEMMA IncrementStep ==
  ASSUME RequestsOK, Onward, NEW p \in Slots, NEW k \in Counters,
         status' # "NONE", Increment(p, k)
  PROVE  RequestsOK'
<1> DEFINE r == [Idle EXCEPT !.pc = "count", !.key = k]
<1>1. 0 <= Maximum[k] /\ "count" \in PCs
  BY Maxima DEF PCs
<1>2. r \in Request /\ Knows(r, status', answered')
  BY <1>1 DEF Idle, Request, Knows
<1>3. req' = [req EXCEPT ![p] = r]
  BY DEF Increment
<1> HIDE DEF r
<1> QED BY <1>2, <1>3, SlotStep

(* verifyEmail and the counters *)
LEMMA VerificationStep ==
  ASSUME IInv, NEW p \in Slots,
         VerifyEmail(p) \/ VerifyGone(p) \/ VerifyRight(p) \/ VerifyWrong(p)
           \/ CountRead(p) \/ CountWrite(p) \/ VerifyUser(p)
  PROVE  IInv'
<1> USE DEF IInv
<1>a. {"answer", "done"} \subseteq PCs \ AccountSeen /\ {"user", "bump"} \subseteq PCs
  BY DEF PCs, AccountSeen
<1>b. {"otp", "known", "attempts"} \subseteq Keys \ {"cooldown"} /\ "attempts" \in Counters
  BY DEF Keys, Counters
<1>1. CASE VerifyEmail(p)
  BY <1>1, <1>a, QuietStep, StartStep DEF VerifyEmail
<1>2. CASE VerifyGone(p)
  BY <1>2, QuietStep, EndStep DEF VerifyGone
<1>3. CASE VerifyRight(p)
  <2>1. ~NoAccount
    BY <1>3, <1>b DEF VerifyRight, AddressOK, KeysNeedAccount
  <2>2. AddressOK' /\ Onward
    BY <1>3, <2>1 DEF VerifyRight, AddressOK, StoresOK, account, NoAccount,
       KeysNeedAccount, ProofNeedsAccount, Stored, Onward
  <2>3. Goto(p, "user", {}) /\ answered' /\ status' # "NONE"
    BY <1>3, <2>1 DEF VerifyRight, account, NoAccount
  <2> QED BY <1>a, <2>2, <2>3, GotoStep
<1>4. CASE VerifyWrong(p)
  <2>1. ~NoAccount
    BY <1>4, <1>b DEF VerifyWrong, AddressOK, KeysNeedAccount
  <2>2. guesses' \in Nat
    BY <1>4 DEF VerifyWrong, Guessed, AddressOK, StoresOK
  <2>3. AddressOK' /\ Onward
    BY <1>4, <2>2, AddressStep DEF VerifyWrong, AddressOK, StoresOK
  <2>4. Increment(p, "attempts") /\ status' # "NONE"
    BY <1>4, <2>1 DEF VerifyWrong, account, NoAccount
  <2> QED BY <1>b, <2>3, <2>4, IncrementStep
<1>5. CASE CountRead(p)
  <2> DEFINE r == [req[p] EXCEPT !.pc = "bump", !.n = count[req[p].key]]
  <2>1. AddressOK' /\ Onward /\ UNCHANGED <<status, answered>>
    BY <1>5, QuietStep DEF CountRead, account, history
  <2>2. /\ req[p] \in Request /\ Knows(req[p], status, answered)
        /\ status # "NONE"
    BY <1>5, Knowledge DEF CountRead, At, AccountSeen, NoAccount
  <2>3. /\ count[req[p].key] \in Nat
        /\ count[req[p].key] <= Maximum[req[p].key]
    BY <2>2 DEF AddressOK, StoresOK, Request
  <2>4. r \in Request /\ Knows(r, status', answered')
    BY <1>a, <2>1, <2>2, <2>3 DEF Request, Knows
  <2>5. req' = [req EXCEPT ![p] = r]
    BY <1>5 DEF CountRead
  <2> HIDE DEF r
  <2> QED BY <2>1, <2>4, <2>5, SlotStep
<1>6. CASE CountWrite(p)
  <2> DEFINE k == req[p].key
  <2>1. /\ k \in Counters /\ req[p].n \in Nat /\ req[p].n <= Maximum[k]
        /\ ~NoAccount
    BY <1>6, Knowledge DEF CountWrite, At, AccountSeen, Request, Knows
  <2>2. Successor(k, req[p].n) \in Nat /\ Successor(k, req[p].n) <= Maximum[k]
    BY <2>1, Maxima DEF Successor
  <2>3. k \in Keys /\ TTL[k] \in Nat
    BY <2>1, TtlAssumption DEF Keys
  <2>4. /\ count' = [count EXCEPT ![k] = Successor(k, req[p].n)]
        /\ left' = [left EXCEPT ![k] = TTL[k]]
        /\ UNCHANGED <<status, linked, answered, opened, faults>>
        /\ LoseIf(k = "attempts" /\ count[k] # req[p].n)
        /\ End(p)
    BY <1>6 DEF CountWrite, CounterTtl, account
  <2> HIDE DEF k
  <2>5. lost' \in BOOLEAN /\ guesses' \in Nat
    BY <2>4 DEF LoseIf, AddressOK, StoresOK
  <2>6. StoresOK' /\ Onward
    <3>1. left' \in [Keys -> Nat] /\ \A x \in Keys : left'[x] <= TTL[x]
      BY <2>3, <2>4 DEF AddressOK, StoresOK
    <3>2. count' \in [Counters -> Nat] /\ \A x \in Counters : count'[x] <= Maximum[x]
      BY <2>1, <2>2, <2>4 DEF AddressOK, StoresOK
    <3> QED BY <2>4, <2>5, <3>1, <3>2 DEF AddressOK, StoresOK, Onward
  <2>7. KeysNeedAccount' /\ ProofNeedsAccount'
    BY <2>1, <2>4 DEF KeysNeedAccount, ProofNeedsAccount, NoAccount
  <2> QED BY <2>4, <2>6, <2>7, EndStep DEF AddressOK
<1>7. CASE VerifyUser(p)
  <2>1. AddressOK' /\ Onward /\ UNCHANGED <<status, answered>>
    BY <1>7, QuietStep DEF VerifyUser, account, history
  <2>2. answered
    BY <1>7, Knowledge DEF VerifyUser, At, Knows
  <2>3. /\ ClearOtp \in SUBSET Commands
        /\ ClearOtp \cup {Activation, DelKey("known")} \in SUBSET Commands
        /\ ClearOtp \cap AccountNeeded = {} /\ Activation \notin ClearOtp
    BY <1>b, Statements DEF ClearOtp
  <2>4. CASE status = "NONE"
    BY <1>7, <2>1, <2>4, EndStep DEF VerifyUser
  <2>5. CASE status = "ACTIVE"
    <3>1. Goto(p, "done", ClearOtp)
      BY <1>7, <2>5 DEF VerifyUser
    <3> QED BY <1>a, <2>1, <2>3, <3>1, GotoStep
  <2>6. CASE status = "PENDING"
    <3> DEFINE todo == ClearOtp \cup {Activation, DelKey("known")}
    <3>1. Goto(p, "done", todo) /\ status' # "NONE" /\ answered'
      BY <1>7, <2>1, <2>2, <2>6 DEF VerifyUser
    <3>2. todo \in SUBSET Commands
      BY <2>3
    <3> HIDE DEF todo
    <3> QED BY <1>a, <2>1, <3>1, <3>2, GotoStep
  <2> QED BY <2>4, <2>5, <2>6 DEF AddressOK, StoresOK
<1> QED BY <1>1, <1>2, <1>3, <1>4, <1>5, <1>6, <1>7

-----------------------------------------------------------------------------
(* forgotPassword *)
LEMMA ForgotStep ==
  ASSUME IInv, NEW p \in Slots,
         ForgotPassword(p) \/ ForgotUnreadable(p) \/ ForgotLookup(p)
           \/ ForgotCode(p) \/ ForgotMail(p) \/ ForgotMailLost(p)
  PROVE  IInv'
<1> USE DEF IInv
<1>a. {"forgot", "done"} \subseteq PCs \ AccountSeen /\ {"code", "mail", "unmailed"} \subseteq PCs
  BY DEF PCs, AccountSeen
<1>b. /\ {SetKey("cooldown")} \in SUBSET Commands
      /\ {SetKey("cooldown")} \cap AccountNeeded = {}
      /\ {SetKey("resetOtp")} \in SUBSET Commands
      /\ Activation \notin {SetKey("cooldown"), SetKey("resetOtp")}
  BY Statements DEF Keys
<1>c. req[p].pc \in AccountSeen => status # "NONE"
  BY Knowledge DEF NoAccount
<1>1. CASE ForgotPassword(p)
  BY <1>1, <1>a, QuietStep, StartStep DEF ForgotPassword
<1>2. CASE ForgotUnreadable(p)
  <2>1. AddressOK' /\ Onward
    BY <1>2, AddressStep DEF ForgotUnreadable, history, AddressOK, StoresOK
  <2> QED BY <1>2, <1>a, <2>1, StartStep DEF ForgotUnreadable
<1>3. CASE ForgotLookup(p)
  <2>1. AddressOK' /\ Onward /\ UNCHANGED status
    BY <1>3, QuietStep DEF ForgotLookup, account
  <2>2. CASE NoAccount
    <3>1. Goto(p, "done", {SetKey("cooldown")})
      BY <1>3, <2>2 DEF ForgotLookup
    <3> QED BY <1>a, <1>b, <2>1, <3>1, GotoStep
  <2>3. CASE ~NoAccount
    <3>1. Goto(p, "code", {}) /\ status' # "NONE"
      BY <1>3, <2>1, <2>3 DEF ForgotLookup, NoAccount
    <3> QED BY <1>a, <2>1, <3>1, GotoStep
  <2> QED BY <2>2, <2>3
<1>4. CASE ForgotCode(p)
  <2>1. AddressOK' /\ Onward /\ status' # "NONE"
    BY <1>4, <1>c, QuietStep DEF ForgotCode, account, At, AccountSeen
  <2>2. CASE Stored("resetOtp")
    <3>1. Goto(p, "mail", {})
      BY <1>4, <2>2 DEF ForgotCode
    <3> QED BY <1>a, <2>1, <3>1, GotoStep
  <2>3. CASE ~Stored("resetOtp")
    <3>1. Goto(p, "mail", {SetKey("resetOtp")})
      BY <1>4, <2>3 DEF ForgotCode
    <3> QED BY <1>a, <1>b, <2>1, <3>1, GotoStep
  <2> QED BY <2>2, <2>3
<1>5. CASE ForgotMail(p)
  <2>1. AddressOK' /\ Onward
    BY <1>5, QuietStep DEF ForgotMail
  <2>2. Goto(p, "done", {SetKey("cooldown")})
    BY <1>5 DEF ForgotMail
  <2> QED BY <1>a, <1>b, <2>1, <2>2, GotoStep
<1>6. CASE ForgotMailLost(p)
  <2>1. AddressOK' /\ Onward /\ status' # "NONE"
    BY <1>6, <1>c, AddressStep
       DEF ForgotMailLost, account, history, At, AccountSeen, AddressOK, StoresOK
  <2>2. Goto(p, "unmailed", {SetKey("cooldown")})
    BY <1>6 DEF ForgotMailLost
  <2> QED BY <1>a, <1>b, <2>1, <2>2, GotoStep
<1> QED BY <1>1, <1>2, <1>3, <1>4, <1>5, <1>6

-----------------------------------------------------------------------------
(* verifyResetOtp *)
LEMMA ResetStep ==
  ASSUME IInv, NEW p \in Slots,
         VerifyResetOtp(p) \/ VerifyResetRight(p) \/ VerifyResetWrong(p)
  PROVE  IInv'
<1> USE DEF IInv
<1>a. {"resetAnswer", "done"} \subseteq PCs \ AccountSeen
  BY DEF PCs, AccountSeen
<1>b. /\ {"resetOtp", "resetAttempts", "resetToken"} \subseteq Keys \ {"cooldown"}
      /\ "resetAttempts" \in Counters
  BY DEF Keys, Counters
<1>c. Stored("resetOtp") => status # "NONE"
  BY <1>b DEF AddressOK, KeysNeedAccount, NoAccount
<1>1. CASE VerifyResetOtp(p)
  BY <1>1, <1>a, QuietStep, StartStep DEF VerifyResetOtp
<1>2. CASE VerifyResetRight(p)
  <2>1. AddressOK' /\ Onward /\ status' # "NONE"
    BY <1>2, <1>c, AddressStep DEF VerifyResetRight, account, AddressOK, StoresOK
  <2>2. ResetCommands \in SUBSET Commands /\ Activation \notin ResetCommands
    BY <1>b, Statements DEF ResetCommands
  <2>3. Goto(p, "done", ResetCommands)
    BY <1>2 DEF VerifyResetRight
  <2> QED BY <1>a, <2>1, <2>2, <2>3, GotoStep DEF AccountSeen
<1>3. CASE VerifyResetWrong(p)
  <2>1. AddressOK' /\ Onward /\ status' # "NONE"
    BY <1>3, <1>c, QuietStep DEF VerifyResetWrong, account
  <2> QED BY <1>3, <1>b, <2>1, IncrementStep DEF VerifyResetWrong
<1> QED BY <1>1, <1>2, <1>3

-----------------------------------------------------------------------------
(* loginWithGoogle *)
LEMMA GoogleStep ==
  ASSUME IInv, NEW p \in Slots,
         GoogleLogin(p) \/ GoogleFind(p) \/ GoogleCreate(p) \/ GoogleLink(p)
  PROVE  IInv'
<1> USE DEF IInv
<1>a. /\ {"findUser", "createGoogle"} \subseteq PCs \ AccountSeen
      /\ {"link", "linkActivate"} \subseteq PCs
  BY DEF PCs, AccountSeen
<1>1. CASE GoogleLogin(p)
  BY <1>1, <1>a, QuietStep, StartStep DEF GoogleLogin
<1>2. CASE GoogleFind(p)
  <2>1. AddressOK' /\ Onward /\ UNCHANGED status
    BY <1>2, QuietStep DEF GoogleFind, account
  <2>2. CASE status = "NONE"
    <3>1. Goto(p, "createGoogle", {})
      BY <1>2, <2>2 DEF GoogleFind
    <3> QED BY <1>a, <2>1, <3>1, GotoStep DEF AccountSeen
  <2>3. CASE status = "PENDING"
    <3>1. Goto(p, "linkActivate", {})
      BY <1>2, <2>3 DEF GoogleFind
    <3> QED BY <1>a, <2>1, <2>3, <3>1, GotoStep
  <2>4. CASE status = "ACTIVE" /\ ~linked
    <3>1. Goto(p, "link", {})
      BY <1>2, <2>4 DEF GoogleFind
    <3> QED BY <1>a, <2>1, <2>4, <3>1, GotoStep
  <2>5. CASE status = "ACTIVE" /\ linked
    BY <1>2, <2>1, <2>5, EndStep DEF GoogleFind
  <2> QED BY <2>2, <2>3, <2>4, <2>5 DEF AddressOK, StoresOK
<1>3. CASE GoogleCreate(p)
  <2>1. AddressOK' /\ Onward
    BY <1>3 DEF GoogleCreate, AddressOK, StoresOK, account, history, NoAccount,
       KeysNeedAccount, ProofNeedsAccount, Stored, Onward
  <2> QED BY <1>3, <2>1, EndStep DEF GoogleCreate
<1>4. CASE GoogleLink(p)
  <2>1. status # "NONE"
    BY <1>4, Knowledge DEF GoogleLink, At, AccountSeen, NoAccount
  <2>2. AddressOK' /\ Onward
    BY <1>4, <2>1 DEF GoogleLink, AddressOK, StoresOK, history, NoAccount,
       KeysNeedAccount, ProofNeedsAccount, Stored, Onward
  <2> QED BY <1>4, <2>2, EndStep DEF GoogleLink
<1> QED BY <1>1, <1>2, <1>3, <1>4

-----------------------------------------------------------------------------
(* Statements performed, and the end of a request *)
LEMMA PerformStep ==
  ASSUME IInv, NEW p \in Slots, Perform(p) \/ Finish(p)
  PROVE  IInv'
<1> USE DEF IInv
<1>1. ASSUME NEW k \in Keys, PerformSet(p, k) PROVE IInv'
  <2>1. k = "cooldown" \/ ~NoAccount
    BY <1>1, Knowledge DEF PerformSet
  <2>2. left' = [left EXCEPT ![k] = TTL[k]] /\ UNCHANGED <<account, count, answered, faults>>
    BY <1>1 DEF PerformSet
  <2>3. TTL[k] \in Nat
    BY TtlAssumption
  <2>4. left' \in [Keys -> Nat] /\ \A x \in Keys : left'[x] <= TTL[x]
    BY <2>2, <2>3 DEF AddressOK, StoresOK
  <2>5. guesses' \in Nat /\ lost' \in BOOLEAN /\ opened' \in Nat
    <3>1. guesses' \in Nat /\ opened' \in Nat
      BY <1>1 DEF PerformSet, AddressOK, StoresOK
    <3>2. lost' \in BOOLEAN
      BY <1>1 DEF PerformSet
    <3> QED BY <3>1, <3>2
  <2>6. KeysNeedAccount'
    BY <2>1, <2>2 DEF AddressOK, StoresOK, KeysNeedAccount, NoAccount, Stored, account
  <2>7. AddressOK' /\ Onward
    BY <2>2, <2>4, <2>5, <2>6
       DEF AddressOK, StoresOK, ProofNeedsAccount, NoAccount, Onward, account
  <2> QED BY <1>1, <2>7, DoneStep DEF PerformSet
<1>2. ASSUME NEW k \in Keys, PerformDel(p, k) PROVE IInv'
  <2>1. /\ left' = [left EXCEPT ![k] = 0]
        /\ count' = [c \in Counters |-> IF c = k THEN 0 ELSE count[c]]
        /\ UNCHANGED <<account, answered, opened, faults>>
        /\ LoseIf(k = "attempts" /\ guesses > 0)
    BY <1>2 DEF PerformDel
  <2>2. lost' \in BOOLEAN /\ guesses' \in Nat
    BY <2>1 DEF LoseIf, AddressOK, StoresOK
  <2>3. left' \in [Keys -> Nat] /\ \A x \in Keys : left'[x] <= TTL[x]
    <3>1. left \in [Keys -> Nat] /\ \A x \in Keys : left[x] <= TTL[x] /\ 0 <= TTL[x]
      BY TtlAssumption DEF AddressOK, StoresOK
    <3> QED BY <2>1, <3>1
  <2>4. count' \in [Counters -> Nat] /\ \A c \in Counters : count'[c] <= Maximum[c]
    BY <2>1, Maxima DEF AddressOK, StoresOK
  <2>5. KeysNeedAccount'
    BY <2>1 DEF AddressOK, StoresOK, KeysNeedAccount, NoAccount, Stored, account
  <2>6. AddressOK' /\ Onward
    BY <2>1, <2>2, <2>3, <2>4, <2>5
       DEF AddressOK, StoresOK, ProofNeedsAccount, NoAccount, Onward, account
  <2> QED BY <1>2, <2>6, DoneStep DEF PerformDel
<1>3. CASE PerformActivate(p)
  <2>1. ~NoAccount
    BY <1>3, Knowledge DEF PerformActivate
  <2>2. AddressOK' /\ Onward
    BY <1>3, <2>1 DEF PerformActivate, AddressOK, StoresOK, history, NoAccount,
       KeysNeedAccount, ProofNeedsAccount, Stored, Onward
  <2> QED BY <1>3, <2>2, DoneStep DEF PerformActivate
<1>4. CASE Finish(p)
  BY <1>4, QuietStep, EndStep DEF Finish
<1> QED BY <1>1, <1>2, <1>3, <1>4 DEF Perform

(* Faults, and the passing of time *)
LEMMA FaultStep ==
  ASSUME IInv, (\E p \in Slots : Reject(p)) \/ Crash \/ Tick \/ UNCHANGED vars
  PROVE  IInv'
<1> USE DEF IInv
<1>a. "done" \in PCs /\ "done" \notin AccountSeen /\ "user" # "done"
  BY DEF PCs, AccountSeen
<1>1. ASSUME NEW p \in Slots, Reject(p) PROVE IInv'
  <2>1. lost' \in BOOLEAN /\ guesses' \in Nat
    BY <1>1 DEF Reject, LoseIf, AddressOK, StoresOK
  <2>2. AddressOK' /\ Onward /\ UNCHANGED <<status, answered>>
    BY <1>1, <2>1, AddressStep DEF Reject, AddressOK, StoresOK, account
  <2>3. PICK rest \in SUBSET req[p].todo : Goto(p, "done", rest)
    BY <1>1 DEF Reject
  <2>4. req[p] \in Request /\ Knows(req[p], status, answered)
    BY Knowledge
  <2>5. /\ rest \in SUBSET Commands
        /\ rest \cap AccountNeeded # {} => status' # "NONE"
        /\ Activation \in rest => answered'
    BY <2>2, <2>4 DEF Request, Knows
  <2> QED BY <1>a, <2>2, <2>3, <2>5, GotoStep
<1>2. CASE Crash
  <2>1. lost' \in BOOLEAN /\ guesses' \in Nat
    BY <1>2 DEF Crash, LoseIf, AddressOK, StoresOK
  <2>2. AddressOK'
    BY <1>2, <2>1, AddressStep DEF Crash, AddressOK, StoresOK
  <2>3. Idle \in Request /\ Knows(Idle, status', answered')
    <3>1. "attempts" \in Counters /\ "idle" \in PCs \ AccountSeen /\ 0 <= Maximum["attempts"]
      BY Maxima DEF Counters, PCs, AccountSeen
    <3> QED BY <3>1 DEF Idle, Request, Knows, AccountSeen
  <2>4. RequestsOK'
    BY <1>2, <2>3 DEF Crash, RequestsOK, RequestsKnow
  <2> QED BY <2>2, <2>4
<1>3. CASE Tick
  <2>1. /\ left' = [k \in Keys |-> Dec(left[k])]
        /\ count' = [k \in Counters |-> IF Dec(left[k]) = 0 THEN 0 ELSE count[k]]
        /\ UNCHANGED <<account, history, req, faults>>
    BY <1>3 DEF Tick, NextLeft
  <2>2. \A k \in Keys : Dec(left[k]) \in Nat /\ Dec(left[k]) <= left[k]
    BY DEF AddressOK, StoresOK, Dec
  <2>3. left' \in [Keys -> Nat] /\ \A k \in Keys : left'[k] <= TTL[k]
    BY <2>1, <2>2, TtlAssumption DEF AddressOK, StoresOK
  <2>4. count' \in [Counters -> Nat] /\ \A k \in Counters : count'[k] <= Maximum[k]
    BY <2>1, Maxima DEF AddressOK, StoresOK
  <2>5. KeysNeedAccount'
    BY <2>1, <2>2 DEF AddressOK, StoresOK, KeysNeedAccount, NoAccount, Stored, account
  <2>6. AddressOK'
    BY <2>1, <2>3, <2>4, <2>5
       DEF AddressOK, StoresOK, ProofNeedsAccount, NoAccount, account, history
  <2> QED BY <2>1, <2>6 DEF RequestsOK, RequestsKnow, account, history
<1>4. CASE UNCHANGED vars
  BY <1>4 DEF vars, account, history, AddressOK, StoresOK, KeysNeedAccount,
     ProofNeedsAccount, NoAccount, Stored, RequestsOK, RequestsKnow
<1> QED BY <1>1, <1>2, <1>3, <1>4

-----------------------------------------------------------------------------
LEMMA InitialState == Init => IInv
<1> SUFFICES ASSUME Init PROVE IInv
  OBVIOUS
<1>1. Idle \in Request /\ Knows(Idle, status, answered)
  <2>1. "attempts" \in Counters /\ "idle" \in PCs \ AccountSeen /\ 0 <= Maximum["attempts"]
    BY Maxima DEF Counters, PCs, AccountSeen
  <2> QED BY <2>1 DEF Idle, Request, Knows, AccountSeen
<1>2. RequestsOK
  BY <1>1 DEF Init, Fresh, RequestsOK, RequestsKnow
<1>3. AddressOK
  <2>1. (\A k \in Keys : 0 <= TTL[k]) /\ \A k \in Counters : 0 <= Maximum[k]
    BY TtlAssumption, Maxima
  <2>2. StoresOK
    BY <2>1 DEF Init, Fresh, StoresOK
  <2> QED BY <2>2 DEF Init, Fresh, AddressOK, StoresOK, KeysNeedAccount,
     ProofNeedsAccount, NoAccount, Stored
<1> QED BY <1>2, <1>3 DEF IInv

(* IInv is inductive. *)
LEMMA Invariance == Spec => []IInv
<1>1. IInv /\ [Next]_vars => IInv'
  <2> SUFFICES ASSUME IInv, [Next]_vars PROVE IInv'
    OBVIOUS
  <2>1. ASSUME NEW p \in Slots, Arrive(p) PROVE IInv'
    BY <2>1, RegistrationStep, VerificationStep, ForgotStep, ResetStep, GoogleStep
       DEF Arrive
  <2>2. ASSUME NEW p \in Slots, Serve(p) PROVE IInv'
    BY <2>2, RegistrationStep, VerificationStep, ForgotStep, ResetStep, GoogleStep,
       PerformStep DEF Serve, Handle
  <2>3. ASSUME NEW p \in Slots, ForgotMailLost(p) PROVE IInv'
    BY <2>3, ForgotStep
  <2> QED BY <2>1, <2>2, <2>3, FaultStep DEF Next
<1> QED BY <1>1, InitialState, PTL DEF Spec

(* Keys, counters and requests keep their shapes, and no key outlives its  *)
(* lifetime.                                                               *)
THEOREM TypeCorrect == Spec => []TypeOK
<1>1. IInv => TypeOK
  BY DEF IInv, AddressOK, StoresOK, RequestsOK, TypeOK
<1> QED BY <1>1, Invariance, PTL

(* Redis keeps nothing but the cooldown for an address without an account: *)
(* a cached "e-mail taken" is true (redis.service.ts:54-57), and no OTP    *)
(* can be answered before the account is there.                            *)
THEOREM KeysCorrect == Spec => []KeysNeedAccount
<1>1. IInv => KeysNeedAccount
  BY DEF IInv, AddressOK
<1> QED BY <1>1, Invariance, PTL

-----------------------------------------------------------------------------
(* A step that changes neither the account nor what was answered is no     *)
(* step of the abstraction.                                                *)
LEMMA Stutter ==
  ASSUME UNCHANGED <<status, linked, answered>>
  PROVE  UNCHANGED <<status, answered \/ linked>>
  OBVIOUS

(* The others open, prove or activate.                                     *)
LEMMA LifecycleStep ==
  IInv /\ [Next]_vars => [Lifecycle!Next]_<<status, answered \/ linked>>
<1> SUFFICES ASSUME IInv, [Next]_vars
             PROVE  [Lifecycle!Next]_<<status, answered \/ linked>>
  OBVIOUS
<1>a. /\ answered \in BOOLEAN /\ linked \in BOOLEAN
      /\ status = "NONE" => answered = FALSE /\ linked = FALSE
  BY DEF IInv, AddressOK, StoresOK, ProofNeedsAccount, NoAccount
<1>1. ASSUME NEW p \in Slots, RegisterCreate(p)
      PROVE  Lifecycle!Open \/ UNCHANGED <<status, linked, answered>>
  BY <1>1, <1>a DEF RegisterCreate, NoAccount, history, Lifecycle!Open
<1>2. ASSUME NEW p \in Slots, VerifyRight(p) PROVE Lifecycle!Prove
  <2>1. status # "NONE"
    BY <1>2 DEF VerifyRight, IInv, AddressOK, KeysNeedAccount, NoAccount, Keys
  <2> QED BY <1>2, <2>1 DEF VerifyRight, account, Lifecycle!Prove
<1>3. ASSUME NEW p \in Slots, GoogleCreate(p)
      PROVE  Lifecycle!Open \/ UNCHANGED <<status, linked, answered>>
  BY <1>3 DEF GoogleCreate, account, NoAccount, history, Lifecycle!Open
<1>4. ASSUME NEW p \in Slots, GoogleLink(p)
      PROVE  Lifecycle!Prove \/ Lifecycle!Activate
  <2>1. status # "NONE"
    BY <1>4, Knowledge DEF GoogleLink, At, AccountSeen, NoAccount
  <2> QED BY <1>4, <2>1 DEF GoogleLink, Lifecycle!Prove, Lifecycle!Activate
<1>5. ASSUME NEW p \in Slots, PerformActivate(p) PROVE Lifecycle!Activate
  <2>1. status # "NONE" /\ answered
    BY <1>5, Knowledge DEF PerformActivate, NoAccount
  <2> QED BY <1>5, <2>1, <1>a DEF PerformActivate, history, Lifecycle!Activate
<1>6. ASSUME NEW p \in Slots, Arrive(p) PROVE UNCHANGED <<status, linked, answered>>
  BY <1>6 DEF Arrive, Register, VerifyEmail, ResendOtp, ForgotPassword,
     ForgotUnreadable, VerifyResetOtp, GoogleLogin, account, history
<1>7. ASSUME NEW p \in Slots, Perform(p)
      PROVE  Lifecycle!Activate \/ UNCHANGED <<status, linked, answered>>
  <2>1. ASSUME NEW k \in Keys, PerformSet(p, k) \/ PerformDel(p, k)
        PROVE  UNCHANGED <<status, linked, answered>>
    BY <2>1 DEF PerformSet, PerformDel, account
  <2> QED BY <1>5, <1>7, <2>1 DEF Perform
<1>8. ASSUME NEW p \in Slots, Serve(p)
      PROVE  Lifecycle!Next \/ UNCHANGED <<status, linked, answered>>
  <2>1. CASE RegisterCreate(p) \/ VerifyRight(p) \/ GoogleCreate(p) \/ GoogleLink(p)
               \/ Perform(p)
    BY <2>1, <1>1, <1>2, <1>3, <1>4, <1>7 DEF Lifecycle!Next
  <2>2. CASE RegisterLookup(p) \/ VerifyGone(p) \/ VerifyWrong(p) \/ CountRead(p)
               \/ CountWrite(p) \/ VerifyUser(p) \/ VerifyResetRight(p)
    BY <2>2 DEF RegisterLookup, VerifyGone, VerifyWrong, CountRead, CountWrite,
       VerifyUser, VerifyResetRight, account, history
  <2>3. CASE VerifyResetWrong(p) \/ ResendLookup(p) \/ ForgotLookup(p)
               \/ ForgotCode(p) \/ ForgotMail(p) \/ GoogleFind(p) \/ Finish(p)
    BY <2>3 DEF VerifyResetWrong, ResendLookup, ForgotLookup, ForgotCode,
       ForgotMail, GoogleFind, Finish, account, history
  <2> QED BY <1>8, <2>1, <2>2, <2>3 DEF Serve, Handle
<1>9. ASSUME NEW p \in Slots, ForgotMailLost(p) \/ Reject(p)
      PROVE  UNCHANGED <<status, linked, answered>>
  BY <1>9 DEF ForgotMailLost, Reject, account, history
<1>10. CASE Crash \/ Tick \/ UNCHANGED vars
  BY <1>10, Stutter DEF Crash, Tick, vars, account, history
<1> QED
  BY <1>6, <1>8, <1>9, <1>10, Stutter DEF Next

(* One account for an address, never lost, never back to PENDING, and      *)
(* ACTIVE only after a right OTP or through Google, however the requests   *)
(* of auth.service.ts:151-385 and 901-1010 overlap or fail.                *)
THEOREM LifecycleCorrect == Spec => LifecycleSpec
<1>1. Init => Lifecycle!Init
  BY DEF Init, Fresh, Lifecycle!Init
<1> QED BY <1>1, LifecycleStep, Invariance, PTL
           DEF Spec, LifecycleSpec, Lifecycle!Spec
=============================================================================

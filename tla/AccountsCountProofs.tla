------------------------ MODULE AccountsCountProofs -------------------------
(***************************************************************************)
(* Proofs about Accounts, continued: what the two OTPs of an address are   *)
(* worth, for any number of overlapping requests and any limits.  Both     *)
(* arguments count the requests that are still on their way: the wrong     *)
(* answers not yet written to the counter, and the deletions of an OTP     *)
(* that was answered.                                                      *)
(***************************************************************************)
EXTENDS AccountsProofs, FiniteSetTheorems

(* Requests past the check of the counter whose answer is not judged yet   *)
Answering == {p \in Slots : req[p].pc = "answer"}

(* Wrong answers that the counter does not show yet *)
Uncounted == {p \in Slots : Counting(p)}

(* Requests that were right and have yet to delete the reset OTP *)
Deleting == {p \in Slots : DelKey("resetOtp") \in req[p].todo}

(* Sets of slots that differ in one slot at most *)
LEMMA OneSlot ==
  ASSUME NEW S \in SUBSET Slots, NEW T \in SUBSET Slots, NEW p \in Slots,
         \A q \in Slots \ {p} : q \in S <=> q \in T
  PROVE  /\ Cardinality(S) \in Nat /\ Cardinality(T) \in Nat
         /\ (p \in S <=> p \in T) => S = T
         /\ p \in S /\ p \notin T => Cardinality(S) = Cardinality(T) + 1
         /\ p \notin S /\ p \in T => Cardinality(T) = Cardinality(S) + 1
<1>1. IsFiniteSet(S) /\ IsFiniteSet(T)
  BY SlotsAssumption, FS_Subset
<1>2. Cardinality(S) \in Nat /\ Cardinality(T) \in Nat
  BY <1>1, FS_CardinalityType
<1>3. (p \in S <=> p \in T) => S = T
  OBVIOUS
<1>4. ASSUME p \in S, p \notin T PROVE Cardinality(S) = Cardinality(T) + 1
  <2>1. S = T \cup {p}
    BY <1>4
  <2>2. Cardinality(T \cup {p}) = Cardinality(T) + 1
    BY <1>1, <1>4, FS_AddElement
  <2> QED BY <2>1, <2>2
<1>5. ASSUME p \notin S, p \in T PROVE Cardinality(T) = Cardinality(S) + 1
  <2>1. T = S \cup {p}
    BY <1>5
  <2>2. Cardinality(S \cup {p}) = Cardinality(S) + 1
    BY <1>1, <1>5, FS_AddElement
  <2> QED BY <2>1, <2>2
<1> QED BY <1>2, <1>3, <1>4, <1>5

(* There are at most as many of a kind as there are slots, ... *)
LEMMA AtMostSlots ==
  ASSUME NEW S \in SUBSET Slots
  PROVE  /\ Cardinality(Slots) \in Nat /\ Cardinality(S) \in Nat
         /\ Cardinality(S) <= Cardinality(Slots)
  BY SlotsAssumption, FS_Subset, FS_CardinalityType

(* ... and of two kinds together, when no request is of both. *)
LEMMA DisjointSlots ==
  ASSUME NEW S \in SUBSET Slots, NEW T \in SUBSET Slots, S \cap T = {}
  PROVE  Cardinality(S) + Cardinality(T) <= Cardinality(Slots)
<1>1. IsFiniteSet(S) /\ IsFiniteSet(T)
  BY SlotsAssumption, FS_Subset
<1>2. Cardinality(S \cup T) = Cardinality(S) + Cardinality(T) - Cardinality(S \cap T)
  BY <1>1, FS_Union
<1>3. Cardinality(S \cap T) = 0
  BY FS_EmptySet
<1>4. Cardinality(S) \in Nat /\ Cardinality(T) \in Nat
  BY AtMostSlots
<1> QED BY <1>2, <1>3, <1>4, AtMostSlots

-----------------------------------------------------------------------------
(* As long as no count was lost, every wrong answer to the stored OTP is   *)
(* in the counter or on its way there; when the counter is full, no more   *)
(* requests are left than the limit allows for; and the counter does not   *)
(* expire before an OTP it has counted for.                                *)
GuessesCounted == ~lost =>
  /\ guesses <= GuessLimit
  /\ guesses > Cardinality(Uncounted) => left["otp"] <= left["attempts"]
  /\ Stored("otp") =>
       IF Unlocked THEN guesses <= count["attempts"] + Cardinality(Uncounted)
                   ELSE guesses + Cardinality(Answering) <= GuessLimit

(* The numbers the argument is about *)
LEMMA Numbers ==
  ASSUME IInv
  PROVE  /\ guesses \in Nat /\ count["attempts"] \in 0..MAX_OTP_ATTEMPTS
         /\ left["otp"] \in Nat /\ left["attempts"] \in Nat
         /\ left["otp"] <= TTL["attempts"] /\ TTL["attempts"] \in Nat
         /\ TTL["otp"] \in Nat
         /\ MAX_OTP_ATTEMPTS \in Nat \ {0} /\ Cardinality(Slots) \in Nat
         /\ lost \in BOOLEAN
<1>1. {"otp", "attempts"} \subseteq Keys /\ "attempts" \in Counters
  BY DEF Keys, Counters
<1>2. Maximum["attempts"] = MAX_OTP_ATTEMPTS
  BY <1>1 DEF Maximum
<1>3. Cardinality(Slots) \in Nat
  BY SlotsAssumption, FS_CardinalityType
<1>4. StoresOK
  BY DEF IInv, AddressOK
<1>5. TTL["otp"] \in Nat /\ TTL["attempts"] \in Nat
  BY <1>1, TtlAssumption
<1>6. left["otp"] \in Nat /\ left["otp"] <= TTL["otp"] /\ left["attempts"] \in Nat
  BY <1>1, <1>4 DEF StoresOK
<1>7. count["attempts"] \in 0..MAX_OTP_ATTEMPTS
  BY <1>1, <1>2, <1>4, MaxAssumption DEF StoresOK
<1> QED BY <1>3, <1>4, <1>5, <1>6, <1>7, MaxAssumption, LifetimesAssumption DEF StoresOK

(* A step of one slot moves that slot alone into or out of a kind. *)
LEMMA KindsMove ==
  ASSUME IInv, NEW p \in Slots, NEW r, req' = [req EXCEPT ![p] = r]
  PROVE  /\ p \in Answering' <=> r.pc = "answer"
         /\ p \in Uncounted' <=> r.pc \in {"count", "bump"} /\ r.key = "attempts"
         /\ Cardinality(Answering) \in Nat /\ Cardinality(Answering') \in Nat
         /\ Cardinality(Uncounted) \in Nat /\ Cardinality(Uncounted') \in Nat
         /\ Cardinality(Answering) + Cardinality(Uncounted) <= Cardinality(Slots)
         /\ (p \in Answering <=> p \in Answering') => Answering' = Answering
         /\ (p \in Uncounted <=> p \in Uncounted') => Uncounted' = Uncounted
         /\ p \in Answering /\ p \notin Answering' =>
              Cardinality(Answering) = Cardinality(Answering') + 1
         /\ p \in Uncounted /\ p \notin Uncounted' =>
              Cardinality(Uncounted) = Cardinality(Uncounted') + 1
         /\ p \notin Uncounted /\ p \in Uncounted' =>
              Cardinality(Uncounted') = Cardinality(Uncounted) + 1
         /\ p \notin Answering' => Answering' \subseteq Answering
<1>1. req'[p] = r /\ \A q \in Slots \ {p} : req'[q] = req[q]
  BY DEF IInv, RequestsOK
<1>2. /\ Answering' \in SUBSET Slots /\ Uncounted' \in SUBSET Slots
      /\ Answering \in SUBSET Slots /\ Uncounted \in SUBSET Slots
      /\ Answering \cap Uncounted = {}
      /\ p \in Answering' <=> r.pc = "answer"
      /\ p \in Uncounted' <=> r.pc \in {"count", "bump"} /\ r.key = "attempts"
  BY <1>1 DEF Answering, Uncounted, Counting
<1>3. \A q \in Slots \ {p} : q \in Answering <=> q \in Answering'
  BY <1>1 DEF Answering
<1>4. \A q \in Slots \ {p} : q \in Uncounted <=> q \in Uncounted'
  BY <1>1 DEF Uncounted, Counting
<1>5. /\ Cardinality(Answering) \in Nat /\ Cardinality(Answering') \in Nat
      /\ (p \in Answering <=> p \in Answering') => Answering' = Answering
      /\ p \in Answering /\ p \notin Answering' =>
           Cardinality(Answering) = Cardinality(Answering') + 1
  <2>1. Answering \in SUBSET Slots /\ Answering' \in SUBSET Slots
    BY <1>2
  <2> QED BY <1>3, <2>1, OneSlot
<1>6. /\ Cardinality(Uncounted) \in Nat /\ Cardinality(Uncounted') \in Nat
      /\ (p \in Uncounted <=> p \in Uncounted') => Uncounted' = Uncounted
      /\ p \in Uncounted /\ p \notin Uncounted' =>
           Cardinality(Uncounted) = Cardinality(Uncounted') + 1
      /\ p \notin Uncounted /\ p \in Uncounted' =>
           Cardinality(Uncounted') = Cardinality(Uncounted) + 1
  <2>1. Uncounted \in SUBSET Slots /\ Uncounted' \in SUBSET Slots
    BY <1>2
  <2> QED BY <1>4, <2>1, OneSlot
<1>7. Cardinality(Answering) + Cardinality(Uncounted) <= Cardinality(Slots)
  <2>1. Answering \in SUBSET Slots /\ Uncounted \in SUBSET Slots /\ Answering \cap Uncounted = {}
    BY <1>2
  <2> QED BY <2>1, DisjointSlots
<1>8. p \notin Answering' => Answering' \subseteq Answering
  BY <1>2, <1>3
<1> QED BY <1>2, <1>5, <1>6, <1>7, <1>8

(* A step that leaves the counter, the OTP and the history alone, and      *)
(* lets no wrong answer nor any request past the check                     *)
LEMMA CountKept ==
  ASSUME IInv, GuessesCounted, UNCHANGED <<left, count, guesses, lost>>,
         Answering' \subseteq Answering, Uncounted' = Uncounted
  PROVE  GuessesCounted'
<1>1. Cardinality(Answering') <= Cardinality(Answering)
      /\ Cardinality(Answering') \in Nat /\ Cardinality(Answering) \in Nat
  <2>1. Answering \in SUBSET Slots
    BY DEF Answering
  <2>2. IsFiniteSet(Answering)
    BY <2>1, SlotsAssumption, FS_Subset
  <2>3. Cardinality(Answering) \in Nat
    BY <2>2, FS_CardinalityType
  <2>4. IsFiniteSet(Answering') /\ Cardinality(Answering') <= Cardinality(Answering)
    BY <2>2, FS_Subset
  <2>5. Cardinality(Answering') \in Nat
    BY <2>4, FS_CardinalityType
  <2> QED BY <2>3, <2>4, <2>5
<1>2. GuessLimit' = GuessLimit /\ GuessLimit \in Nat
  BY Numbers DEF GuessLimit
<1> QED BY <1>1, <1>2, Numbers DEF GuessesCounted, Stored, Unlocked

(* A request that is not counting goes on to do something else. *)
LEMMA MovedOn ==
  ASSUME IInv, GuessesCounted, NEW p \in Slots, ~Counting(p),
         NEW pc \in PCs \ {"answer", "count", "bump"}, NEW todo, Goto(p, pc, todo),
         UNCHANGED <<left, count, guesses, lost>>
  PROVE  GuessesCounted'
<1> DEFINE r == [Idle EXCEPT !.pc = pc, !.todo = todo]
<1>1. req' = [req EXCEPT ![p] = r]
  BY DEF Goto
<1>2. r.pc = pc
  BY DEF Idle
<1> HIDE DEF r
<1>3. Answering' \subseteq Answering /\ Uncounted' = Uncounted
  BY <1>1, <1>2, KindsMove DEF Uncounted
<1> QED BY <1>3, CountKept

LEMMA Ended ==
  ASSUME IInv, GuessesCounted, NEW p \in Slots, ~Counting(p), End(p),
         UNCHANGED <<left, count, guesses, lost>>
  PROVE  GuessesCounted'
<1>1. Goto(p, "idle", {}) /\ "idle" \in PCs \ {"answer", "count", "bump"}
  BY DEF End, Goto, Idle, PCs
<1> QED BY <1>1, MovedOn

-----------------------------------------------------------------------------
(* The steps of verifyEmail and of the counters *)

(* A wrong answer leaves the answering and joins the uncounted: what the   *)
(* limit allows for the first pays for the second. *)
LEMMA WrongStep ==
  ASSUME IInv, GuessesCounted, NEW p \in Slots, VerifyWrong(p)
  PROVE  GuessesCounted'
<1> DEFINE r == [Idle EXCEPT !.pc = "count", !.key = "attempts"]
<1>1. /\ req' = [req EXCEPT ![p] = r] /\ req[p].pc = "answer" /\ Stored("otp")
      /\ guesses' = Guessed /\ UNCHANGED <<left, count, lost>>
  BY DEF VerifyWrong, Increment, At
<1>2. r.pc = "count" /\ r.key = "attempts"
  BY DEF Idle
<1> HIDE DEF r
<1>3. p \in Answering /\ p \notin Answering' /\ p \notin Uncounted /\ p \in Uncounted'
  BY <1>1, <1>2, KindsMove DEF Answering, Uncounted, Counting
<1>4. /\ Cardinality(Answering) \in Nat /\ Cardinality(Answering') \in Nat
      /\ Cardinality(Answering) = Cardinality(Answering') + 1
  BY <1>1, <1>3, KindsMove
<1>5. /\ Cardinality(Uncounted) \in Nat /\ Cardinality(Uncounted') \in Nat
      /\ Cardinality(Uncounted') = Cardinality(Uncounted) + 1
  BY <1>1, <1>3, KindsMove
<1>6. Cardinality(Answering) + Cardinality(Uncounted) <= Cardinality(Slots)
  BY <1>1, KindsMove
<1>7. GuessLimit' = GuessLimit /\ GuessLimit = MAX_OTP_ATTEMPTS + Cardinality(Slots) - 1
  BY DEF GuessLimit
<1>8. SUFFICES ASSUME ~lost PROVE GuessesCounted'
  BY <1>1 DEF GuessesCounted
<1>9. guesses <= GuessLimit /\ guesses' = guesses + 1
  BY <1>1, <1>7, <1>8, Numbers DEF GuessesCounted, Guessed
<1>10. /\ guesses > Cardinality(Uncounted) => left["otp"] <= left["attempts"]
       /\ Unlocked => guesses <= count["attempts"] + Cardinality(Uncounted)
       /\ ~Unlocked => guesses + Cardinality(Answering) <= GuessLimit
       /\ Unlocked' <=> Unlocked
  BY <1>1, <1>8 DEF GuessesCounted, Unlocked
<1>11. Unlocked => count["attempts"] + 1 <= MAX_OTP_ATTEMPTS
  BY Numbers DEF Unlocked
<1>12. guesses' <= GuessLimit'
  BY <1>4, <1>5, <1>6, <1>7, <1>9, <1>10, <1>11, Numbers
<1>13. guesses' > Cardinality(Uncounted') => left["otp"] <= left["attempts"]
  BY <1>5, <1>9, <1>10, Numbers
<1>14. /\ Unlocked => guesses' <= count["attempts"] + Cardinality(Uncounted')
       /\ ~Unlocked => guesses' + Cardinality(Answering') <= GuessLimit'
  BY <1>4, <1>5, <1>7, <1>9, <1>10, Numbers
<1> QED BY <1>1, <1>10, <1>12, <1>13, <1>14 DEF GuessesCounted

(* A count that arrives and was not lost moves one answer to the counter;  *)
(* when it fills the counter, the others are accounted for by the limit.   *)
LEMMA CountStep ==
  ASSUME IInv, GuessesCounted, NEW p \in Slots, CountWrite(p)
  PROVE  GuessesCounted'
<1>1. /\ req' = [req EXCEPT ![p] = Idle] /\ req[p].pc = "bump"
      /\ count' = [count EXCEPT ![req[p].key] = Successor(req[p].key, req[p].n)]
      /\ left' = [left EXCEPT ![req[p].key] = TTL[req[p].key]]
      /\ LoseIf(req[p].key = "attempts" /\ count[req[p].key] # req[p].n)
  BY DEF CountWrite, End, At, CounterTtl
<1>2. Idle.pc = "idle"
  BY DEF Idle
<1>3. req[p] \in Request /\ req[p].key \in Counters /\ Counters \subseteq Keys
  BY Knowledge DEF Request, Keys
<1>4. left \in [Keys -> Nat] /\ count \in [Counters -> Nat]
  BY DEF IInv, AddressOK, StoresOK
<1>5. /\ Answering' = Answering /\ p \notin Uncounted'
      /\ p \in Uncounted <=> req[p].key = "attempts"
  BY <1>1, <1>2, KindsMove DEF Answering, Uncounted, Counting
<1>6. Cardinality(Answering) \in Nat /\ Cardinality(Uncounted) \in Nat
      /\ Cardinality(Uncounted') \in Nat
  BY <1>1, KindsMove
<1>7. Cardinality(Answering) + Cardinality(Uncounted) <= Cardinality(Slots)
  BY <1>1, KindsMove
<1>8. GuessLimit' = GuessLimit /\ GuessLimit = MAX_OTP_ATTEMPTS + Cardinality(Slots) - 1
  BY DEF GuessLimit
<1>9. SUFFICES ASSUME ~lost' PROVE GuessesCounted'
  BY DEF GuessesCounted
<1>10. ~lost /\ guesses' = guesses
  BY <1>1, <1>9 DEF LoseIf
<1>11. CASE req[p].key = "attempts"
  <2>1. Cardinality(Uncounted) = Cardinality(Uncounted') + 1
    <3>1. p \in Uncounted /\ p \notin Uncounted'
      BY <1>5, <1>11
    <3> QED BY <1>1, <3>1, KindsMove
  <2>2. /\ count'["attempts"] = Successor("attempts", count["attempts"])
        /\ left'["attempts"] = TTL["attempts"] /\ left'["otp"] = left["otp"]
    BY <1>1, <1>3, <1>4, <1>9, <1>11 DEF LoseIf, Keys, Counters
  <2>3. Successor("attempts", count["attempts"]) =
          IF count["attempts"] < MAX_OTP_ATTEMPTS THEN count["attempts"] + 1
                                                  ELSE count["attempts"]
    BY DEF Successor, Maximum, Counters
  <2>4. ASSUME left'["otp"] > 0
        PROVE IF Unlocked' THEN guesses' <= count'["attempts"] + Cardinality(Uncounted')
                           ELSE guesses' + Cardinality(Answering') <= GuessLimit'
    <3>1. IF Unlocked THEN guesses <= count["attempts"] + Cardinality(Uncounted)
                      ELSE guesses + Cardinality(Answering) <= GuessLimit
      BY <1>10, <2>2, <2>4 DEF GuessesCounted, Stored
    <3>2. CASE count["attempts"] + 1 < MAX_OTP_ATTEMPTS
      BY <1>5, <1>6, <1>10, <2>1, <2>2, <2>3, <3>1, <3>2, Numbers DEF Unlocked
    <3>3. CASE count["attempts"] + 1 = MAX_OTP_ATTEMPTS
      BY <1>5, <1>6, <1>7, <1>8, <1>10, <2>1, <2>2, <2>3, <3>1, <3>3, Numbers DEF Unlocked
    <3>4. CASE count["attempts"] = MAX_OTP_ATTEMPTS
      BY <1>5, <1>6, <1>8, <1>10, <2>1, <2>2, <2>3, <3>1, <3>4, Numbers DEF Unlocked
    <3> QED BY <3>2, <3>3, <3>4, Numbers
  <2> QED BY <1>8, <1>10, <2>2, <2>4, Numbers DEF GuessesCounted, Stored
<1>12. CASE req[p].key # "attempts"
  <2>1. Uncounted' = Uncounted
    BY <1>1, <1>5, <1>12, KindsMove
  <2>2. UNCHANGED <<count["attempts"], left["attempts"], left["otp"]>>
    BY <1>1, <1>3, <1>4, <1>12 DEF Counters, Keys
  <2> QED BY <1>5, <1>8, <1>10, <2>1, <2>2 DEF GuessesCounted, Stored, Unlocked
<1> QED BY <1>11, <1>12

LEMMA GuessVerification ==
  ASSUME IInv, GuessesCounted, NEW p \in Slots,
         VerifyEmail(p) \/ VerifyGone(p) \/ VerifyRight(p) \/ VerifyWrong(p)
           \/ CountRead(p) \/ CountWrite(p) \/ VerifyUser(p)
  PROVE  GuessesCounted'
<1>a. {"idle", "user", "done"} \subseteq PCs \ {"answer", "count", "bump"}
  BY DEF PCs
<1>1. CASE VerifyEmail(p)
  <2> DEFINE r == [Idle EXCEPT !.pc = "answer", !.todo = {}]
  <2>1. /\ req' = [req EXCEPT ![p] = r] /\ req[p].pc = "idle" /\ Unlocked
        /\ UNCHANGED <<left, count, guesses, lost>>
    BY <1>1 DEF VerifyEmail, Start, Goto, Free, history
  <2>2. r.pc = "answer"
    BY DEF Idle
  <2> HIDE DEF r
  <2>3. Uncounted' = Uncounted
    BY <2>1, <2>2, KindsMove DEF Uncounted, Counting
  <2> QED BY <2>1, <2>3 DEF GuessesCounted, Stored, Unlocked, GuessLimit
<1>2. CASE VerifyGone(p)
  BY <1>2, Ended DEF VerifyGone, At, Counting, history
<1>3. CASE VerifyRight(p)
  BY <1>3, <1>a, MovedOn DEF VerifyRight, At, Counting
<1>4. CASE CountRead(p)
  <2> DEFINE r == [req[p] EXCEPT !.pc = "bump", !.n = count[req[p].key]]
  <2>1. req' = [req EXCEPT ![p] = r] /\ req[p].pc = "count"
        /\ UNCHANGED <<left, count, guesses, lost>>
    BY <1>4 DEF CountRead, At, history
  <2>2. r.pc = "bump" /\ r.key = req[p].key
    BY Knowledge DEF Request
  <2> HIDE DEF r
  <2>3. Uncounted' = Uncounted /\ Answering' = Answering
    BY <2>1, <2>2, KindsMove DEF Uncounted, Answering, Counting
  <2> QED BY <2>1, <2>3, CountKept
<1>5. CASE VerifyUser(p)
  <2>1. ~Counting(p) /\ UNCHANGED <<left, count, guesses, lost>>
    BY <1>5 DEF VerifyUser, At, Counting, history
  <2>2. \/ End(p) \/ Goto(p, "done", ClearOtp)
        \/ Goto(p, "done", ClearOtp \cup {Activation, DelKey("known")})
    BY <1>5 DEF VerifyUser
  <2> QED BY <1>a, <2>1, <2>2, MovedOn, Ended
<1> QED BY <1>1, <1>2, <1>3, <1>4, <1>5, WrongStep, CountStep

-----------------------------------------------------------------------------
(* The steps that have nothing to do with the registration OTP, as far as  *)
(* this argument goes: a request that is not counting goes on to pc.       *)
Elsewhere(p) ==
  /\ ~Counting(p)
  /\ \E pc \in PCs \ {"answer", "count", "bump"}, todo \in SUBSET Commands : Goto(p, pc, todo)
  /\ UNCHANGED <<left, count, guesses, lost>>

LEMMA EndElsewhere ==
  ASSUME NEW p \in Slots, End(p), ~Counting(p), UNCHANGED <<left, count, guesses, lost>>
  PROVE  Elsewhere(p)
<1>1. Goto(p, "idle", {}) /\ "idle" \in PCs \ {"answer", "count", "bump"}
  BY DEF End, Goto, Idle, PCs
<1> QED BY <1>1 DEF Elsewhere

LEMMA ArriveElsewhere ==
  ASSUME NEW p \in Slots, Arrive(p), ~VerifyEmail(p)
  PROVE  Elsewhere(p)
<1>1. ~Counting(p) /\ UNCHANGED <<left, count, guesses, lost>>
  BY DEF Arrive, Register, ResendOtp, ForgotPassword, ForgotUnreadable,
     VerifyResetOtp, GoogleLogin, Start, Free, Counting, history
<1>2. \E pc \in {"lookup", "resend", "forgot", "resetAnswer", "findUser"} : Goto(p, pc, {})
  BY DEF Arrive, Register, ResendOtp, ForgotPassword, ForgotUnreadable,
     VerifyResetOtp, GoogleLogin, Start
<1>3. {"lookup", "resend", "forgot", "resetAnswer", "findUser"}
        \subseteq PCs \ {"answer", "count", "bump"}
  BY DEF PCs
<1> QED BY <1>1, <1>2, <1>3 DEF Elsewhere

(* Statements that the handlers hand over are statements. *)
LEMMA Handed ==
  /\ {SetKey("known")} \in SUBSET Commands /\ RegisterCommands \in SUBSET Commands
  /\ {SetKey("otp"), DelKey("attempts")} \in SUBSET Commands
  /\ {SetKey("cooldown")} \in SUBSET Commands /\ {SetKey("resetOtp")} \in SUBSET Commands
  /\ ResetCommands \in SUBSET Commands /\ {} \in SUBSET Commands
<1>1. {"known", "otp", "attempts", "cooldown", "resetOtp", "resetAttempts", "resetToken"}
        \subseteq Keys
  BY DEF Keys, Counters
<1> QED BY <1>1, Statements DEF RegisterCommands, ResetCommands

LEMMA ServeElsewhere ==
  ASSUME NEW p \in Slots,
         RegisterLookup(p) \/ RegisterCreate(p) \/ ResendLookup(p)
           \/ ForgotLookup(p) \/ ForgotCode(p) \/ ForgotMail(p) \/ ForgotMailLost(p)
           \/ VerifyResetRight(p) \/ GoogleFind(p) \/ GoogleCreate(p)
           \/ GoogleLink(p) \/ Finish(p)
  PROVE  Elsewhere(p)
<1>a. {"create", "done", "code", "mail", "unmailed", "createGoogle", "link", "linkActivate"}
        \subseteq PCs \ {"answer", "count", "bump"}
  BY DEF PCs
<1>1. ~Counting(p)
  BY DEF RegisterLookup, RegisterCreate, ResendLookup, ForgotLookup, ForgotCode,
     ForgotMail, ForgotMailLost, VerifyResetRight, GoogleFind, GoogleCreate,
     GoogleLink, Finish, At, Counting
<1>2. UNCHANGED <<left, count, guesses, lost>>
  BY DEF RegisterLookup, RegisterCreate, ResendLookup, ForgotLookup, ForgotCode,
     ForgotMail, ForgotMailLost, VerifyResetRight, GoogleFind, GoogleCreate,
     GoogleLink, Finish, history
<1>3. CASE RegisterLookup(p) \/ RegisterCreate(p) \/ ResendLookup(p)
  <2>1. \/ End(p) \/ Goto(p, "create", {}) \/ Goto(p, "done", {SetKey("known")})
        \/ Goto(p, "done", RegisterCommands)
        \/ Goto(p, "done", {SetKey("otp"), DelKey("attempts")})
    BY <1>3 DEF RegisterLookup, RegisterCreate, ResendLookup
  <2> QED BY <1>a, <1>1, <1>2, <2>1, Handed, EndElsewhere DEF Elsewhere
<1>4. CASE ForgotLookup(p) \/ ForgotCode(p) \/ ForgotMail(p) \/ ForgotMailLost(p)
  <2>1. \/ Goto(p, "done", {SetKey("cooldown")}) \/ Goto(p, "unmailed", {SetKey("cooldown")})
        \/ Goto(p, "code", {}) \/ Goto(p, "mail", {}) \/ Goto(p, "mail", {SetKey("resetOtp")})
    BY <1>4 DEF ForgotLookup, ForgotCode, ForgotMail, ForgotMailLost
  <2> QED BY <1>a, <1>1, <1>2, <2>1, Handed DEF Elsewhere
<1>5. CASE VerifyResetRight(p)
  <2>1. Goto(p, "done", ResetCommands)
    BY <1>5 DEF VerifyResetRight
  <2> QED BY <1>a, <1>1, <1>2, <2>1, Handed DEF Elsewhere
<1>6. CASE GoogleFind(p) \/ GoogleCreate(p) \/ GoogleLink(p) \/ Finish(p)
  <2>1. \/ End(p) \/ Goto(p, "createGoogle", {}) \/ Goto(p, "link", {})
        \/ Goto(p, "linkActivate", {})
    BY <1>6 DEF GoogleFind, GoogleCreate, GoogleLink, Finish
  <2> QED BY <1>a, <1>1, <1>2, <2>1, Handed, EndElsewhere DEF Elsewhere
<1> QED BY <1>3, <1>4, <1>5, <1>6

LEMMA GuessElsewhere ==
  ASSUME IInv, GuessesCounted, NEW p \in Slots, Elsewhere(p)
  PROVE  GuessesCounted'
  BY MovedOn DEF Elsewhere

(* A wrong answer to the reset OTP counts for the other counter. *)
LEMMA GuessReset ==
  ASSUME IInv, GuessesCounted, NEW p \in Slots, VerifyResetWrong(p)
  PROVE  GuessesCounted'
<1> DEFINE r == [Idle EXCEPT !.pc = "count", !.key = "resetAttempts"]
<1>1. /\ req' = [req EXCEPT ![p] = r] /\ req[p].pc = "resetAnswer"
      /\ UNCHANGED <<left, count, guesses, lost>>
  BY DEF VerifyResetWrong, Increment, At, history
<1>2. r.pc = "count" /\ r.key = "resetAttempts"
  BY DEF Idle
<1> HIDE DEF r
<1>3. p \notin Answering' /\ p \notin Uncounted /\ p \notin Uncounted'
  BY <1>1, <1>2, KindsMove DEF Uncounted, Counting
<1>4. Uncounted' = Uncounted /\ Answering' \subseteq Answering
  BY <1>1, <1>3, KindsMove
<1> QED BY <1>1, <1>4, CountKept

-----------------------------------------------------------------------------
(* A statement performed moves no request. *)
LEMMA KindsStay ==
  ASSUME IInv, NEW p \in Slots, NEW c, Done(p, c)
  PROVE  Answering' = Answering /\ Uncounted' = Uncounted
<1>1. \A q \in Slots : req'[q].pc = req[q].pc /\ req'[q].key = req[q].key
  BY DEF Done, IInv, RequestsOK, Request
<1> QED BY <1>1 DEF Answering, Uncounted, Counting

LEMMA KindsNumbers ==
  /\ Cardinality(Answering) \in Nat /\ Cardinality(Answering) <= Cardinality(Slots)
  /\ Cardinality(Uncounted) \in Nat
  BY AtMostSlots DEF Answering, Uncounted

(* A new OTP starts a new count. *)
LEMMA GuessSet ==
  ASSUME IInv, GuessesCounted, NEW p \in Slots, NEW k \in Keys, PerformSet(p, k)
  PROVE  GuessesCounted'
<1>1. /\ left' = [left EXCEPT ![k] = TTL[k]] /\ count' = count
      /\ guesses' = IF k = "otp" THEN 0 ELSE guesses
      /\ lost' = (k # "otp" /\ lost)
      /\ Done(p, SetKey(k))
  BY DEF PerformSet
<1>2. Answering' = Answering /\ Uncounted' = Uncounted /\ GuessLimit' = GuessLimit
  BY <1>1, KindsStay DEF GuessLimit
<1>3. left \in [Keys -> Nat] /\ {"otp", "attempts"} \subseteq Keys
  BY DEF IInv, AddressOK, StoresOK, Keys, Counters
<1>4. GuessLimit = MAX_OTP_ATTEMPTS + Cardinality(Slots) - 1
  BY DEF GuessLimit
<1>5. CASE k = "otp"
  <2>1. guesses' = 0
    BY <1>1, <1>5
  <2>2. /\ guesses' <= GuessLimit
        /\ ~(guesses' > Cardinality(Uncounted))
        /\ guesses' <= count["attempts"] + Cardinality(Uncounted)
        /\ guesses' + Cardinality(Answering) <= GuessLimit
    BY <1>4, <2>1, KindsNumbers, Numbers
  <2> QED BY <1>1, <1>2, <2>2 DEF GuessesCounted, Unlocked
<1>6. CASE k = "attempts"
  <2>1. left'["otp"] = left["otp"] /\ left'["attempts"] = TTL["attempts"]
        /\ left'["otp"] <= left'["attempts"]
    BY <1>1, <1>3, <1>6, Numbers
  <2> QED BY <1>1, <1>2, <1>6, <2>1 DEF GuessesCounted, Unlocked, Stored
<1>7. CASE k # "otp" /\ k # "attempts"
  <2>1. left'["otp"] = left["otp"] /\ left'["attempts"] = left["attempts"]
    BY <1>1, <1>3, <1>7
  <2> QED BY <1>1, <1>2, <1>7, <2>1 DEF GuessesCounted, Unlocked, Stored
<1> QED BY <1>5, <1>6, <1>7

(* A counter is deleted before it has counted, or the count is lost. *)
LEMMA GuessDel ==
  ASSUME IInv, GuessesCounted, NEW p \in Slots, NEW k \in Keys, PerformDel(p, k)
  PROVE  GuessesCounted'
<1>1. /\ left' = [left EXCEPT ![k] = 0]
      /\ count' = [c \in Counters |-> IF c = k THEN 0 ELSE count[c]]
      /\ LoseIf(k = "attempts" /\ guesses > 0)
      /\ Done(p, DelKey(k))
  BY DEF PerformDel
<1>2. Answering' = Answering /\ Uncounted' = Uncounted /\ GuessLimit' = GuessLimit
  BY <1>1, KindsStay DEF GuessLimit
<1>3. /\ left \in [Keys -> Nat] /\ count \in [Counters -> Nat]
      /\ {"otp", "attempts"} \subseteq Keys /\ "attempts" \in Counters
  BY DEF IInv, AddressOK, StoresOK, Keys, Counters
<1>4. SUFFICES ASSUME ~lost' PROVE GuessesCounted'
  BY DEF GuessesCounted
<1>5. ~lost /\ guesses' = guesses /\ ~(k = "attempts" /\ guesses > 0)
  BY <1>1, <1>4 DEF LoseIf
<1>6. CASE k = "attempts"
  <2>1. guesses = 0
    BY <1>5, <1>6, Numbers
  <2>2. count'["attempts"] = 0
    BY <1>1, <1>3, <1>6
  <2>3. Unlocked'
    BY <2>2, Numbers DEF Unlocked
  <2>4. guesses <= count'["attempts"] + Cardinality(Uncounted)
        /\ ~(guesses > Cardinality(Uncounted))
    BY <2>1, <2>2, KindsNumbers
  <2> QED BY <1>2, <1>5, <2>3, <2>4 DEF GuessesCounted
<1>7. CASE k = "otp"
  <2>1. left'["otp"] = 0 /\ left'["attempts"] = left["attempts"]
    BY <1>1, <1>3, <1>7
  <2> QED BY <1>2, <1>5, <2>1, Numbers DEF GuessesCounted, Stored
<1>8. CASE k # "otp" /\ k # "attempts"
  <2>1. UNCHANGED <<left["otp"], left["attempts"], count["attempts"]>>
    BY <1>1, <1>3, <1>8
  <2> QED BY <1>2, <1>5, <2>1 DEF GuessesCounted, Unlocked, Stored
<1> QED BY <1>6, <1>7, <1>8

LEMMA GuessPerform ==
  ASSUME IInv, GuessesCounted, NEW p \in Slots, Perform(p)
  PROVE  GuessesCounted'
<1>1. CASE PerformActivate(p)
  <2>1. UNCHANGED <<left, count, guesses, lost>> /\ Done(p, Activation)
    BY <1>1 DEF PerformActivate, history
  <2>2. Answering' = Answering /\ Uncounted' = Uncounted
    BY <2>1, KindsStay
  <2> QED BY <2>1, <2>2, CountKept
<1> QED BY <1>1, GuessSet, GuessDel DEF Perform

(* A request that is counting when it is cut short loses its count; others *)
(* had nothing to count. *)
LEMMA GuessFault ==
  ASSUME IInv, GuessesCounted, (\E p \in Slots : Reject(p)) \/ Crash
  PROVE  GuessesCounted'
<1>1. SUFFICES ASSUME ~lost' PROVE GuessesCounted'
  BY DEF GuessesCounted
<1>2. UNCHANGED <<left, count, guesses, lost>>
  BY <1>1, Numbers DEF Reject, Crash, LoseIf
<1>3. ASSUME NEW p \in Slots, Reject(p) PROVE GuessesCounted'
  <2>1. ~Counting(p)
    BY <1>1, <1>3 DEF Reject, LoseIf
  <2>2. PICK rest \in SUBSET req[p].todo : Goto(p, "done", rest)
    BY <1>3 DEF Reject
  <2>3. "done" \in PCs \ {"answer", "count", "bump"}
    BY DEF PCs
  <2> QED BY <1>2, <2>1, <2>2, <2>3, MovedOn
<1>4. CASE Crash
  <2>1. \A p \in Slots : ~Counting(p) /\ req'[p].pc = "idle"
    BY <1>1, <1>4 DEF Crash, LoseIf, Idle
  <2>2. Answering' \subseteq Answering /\ Uncounted' = Uncounted
    BY <2>1 DEF Answering, Uncounted, Counting
  <2> QED BY <1>2, <2>2, CountKept
<1> QED BY <1>3, <1>4

(* When the counter expires, the OTP it has counted for has expired too.   *)
LEMMA GuessTick ==
  ASSUME IInv, GuessesCounted, Tick
  PROVE  GuessesCounted'
<1>1. /\ left' = [k \in Keys |-> Dec(left[k])]
      /\ count' = [k \in Counters |-> IF Dec(left[k]) = 0 THEN 0 ELSE count[k]]
      /\ UNCHANGED <<guesses, lost, req>>
  BY DEF Tick, NextLeft, history
<1>2. Answering' = Answering /\ Uncounted' = Uncounted /\ GuessLimit' = GuessLimit
  BY <1>1 DEF Answering, Uncounted, Counting, GuessLimit
<1>3. {"otp", "attempts"} \subseteq Keys /\ "attempts" \in Counters
  BY DEF Keys, Counters
<1>4. /\ left'["otp"] = Dec(left["otp"]) /\ left'["attempts"] = Dec(left["attempts"])
      /\ count'["attempts"] = IF Dec(left["attempts"]) = 0 THEN 0 ELSE count["attempts"]
  BY <1>1, <1>3
<1>5. SUFFICES ASSUME ~lost PROVE GuessesCounted'
  BY <1>1 DEF GuessesCounted
<1>6. guesses > Cardinality(Uncounted) => left'["otp"] <= left'["attempts"]
  BY <1>4, <1>5, Numbers DEF GuessesCounted, Dec
<1>7. ASSUME left'["otp"] > 0
      PROVE  IF Unlocked' THEN guesses <= count'["attempts"] + Cardinality(Uncounted)
                          ELSE guesses + Cardinality(Answering) <= GuessLimit
  <2>1. left["otp"] > 0
    BY <1>4, <1>7, Numbers DEF Dec
  <2>2. CASE left'["attempts"] = 0
    <3>1. count'["attempts"] = 0 /\ ~(guesses > Cardinality(Uncounted))
      BY <1>4, <1>6, <1>7, <2>2, Numbers DEF Dec
    <3>2. Unlocked'
      BY <3>1, Numbers DEF Unlocked
    <3> QED BY <3>1, <3>2, KindsNumbers, Numbers
  <2>3. CASE left'["attempts"] # 0
    <3>1. count'["attempts"] = count["attempts"]
      BY <1>4, <2>3
    <3> QED BY <1>5, <2>1, <3>1 DEF GuessesCounted, Unlocked, Stored
  <2> QED BY <2>2, <2>3
<1> QED BY <1>1, <1>2, <1>5, <1>6, <1>7 DEF GuessesCounted, Stored

(* One registration OTP takes at most MAX_OTP_ATTEMPTS wrong answers, and  *)
(* one more for each request that was past the check, however the requests *)
(* of auth.service.ts:263-385 overlap, unless a count was lost.            *)
THEOREM GuessesCorrect == Spec => []GuessesBounded
<1>1. Init => GuessesCounted
  <2> SUFFICES ASSUME Init PROVE GuessesCounted
    OBVIOUS
  <2>1. guesses = 0 /\ left = [k \in Keys |-> 0] /\ "otp" \in Keys
    BY DEF Init, Fresh, Keys, Counters
  <2>2. Cardinality(Uncounted) \in Nat /\ 0 <= GuessLimit
    BY KindsNumbers, Numbers, InitialState DEF GuessLimit
  <2>3. left["otp"] = 0
    BY <2>1
  <2>4. ~(guesses > Cardinality(Uncounted))
    BY <2>1, <2>2
  <2> QED BY <2>1, <2>2, <2>3, <2>4 DEF GuessesCounted, Stored
<1>2. IInv /\ GuessesCounted /\ [Next]_vars => GuessesCounted'
  <2> SUFFICES ASSUME IInv, GuessesCounted, [Next]_vars PROVE GuessesCounted'
    OBVIOUS
  <2>1. ASSUME NEW p \in Slots, Arrive(p) PROVE GuessesCounted'
    BY <2>1, GuessVerification, ArriveElsewhere, GuessElsewhere
  <2>2. ASSUME NEW p \in Slots, Serve(p) PROVE GuessesCounted'
    BY <2>2, GuessVerification, ServeElsewhere, GuessElsewhere, GuessReset,
       GuessPerform DEF Serve, Handle
  <2>3. ASSUME NEW p \in Slots, ForgotMailLost(p) PROVE GuessesCounted'
    BY <2>3, ServeElsewhere, GuessElsewhere
  <2>4. CASE UNCHANGED vars
    BY <2>4, CountKept DEF vars, history, Answering, Uncounted, Counting
  <2> QED BY <2>1, <2>2, <2>3, <2>4, GuessFault, GuessTick DEF Next
<1>3. GuessesCounted => GuessesBounded
  BY DEF GuessesCounted, GuessesBounded
<1> QED BY <1>1, <1>2, <1>3, Invariance, PTL DEF Spec

-----------------------------------------------------------------------------
(* The right answers to a reset OTP: each is followed by the deletion of   *)
(* the OTP, and what a fault spares it, a whole set of overlapping         *)
(* requests may use once more. *)
Spared == Cardinality(Slots) * faults

FreeHandsNothing == \A p \in Slots : Free(p) => req[p].todo = {}

OpenedCounted ==
  /\ opened <= Spared + Cardinality(Slots)
  /\ Stored("resetOtp") => opened <= Spared + Cardinality(Deleting)
  /\ FreeHandsNothing

(* A request goes on to r in slot p. *)
Moves(p, r) ==
  /\ req' = [req EXCEPT ![p] = r]
  /\ r.pc = "idle" => r.todo = {}

(* The handlers that neither accept a reset OTP nor perform a statement:   *)
(* they start from nothing handed over.                                    *)
Handles(p) ==
  \/ Arrive(p)
  \/ Handle(p)
  \/ VerifyRight(p)
  \/ ForgotCode(p)
  \/ ForgotMail(p)
  \/ ForgotMailLost(p)
  \/ Finish(p)

LEMMA HandlesIdle ==
  ASSUME FreeHandsNothing, NEW p \in Slots, Handles(p) \/ VerifyResetRight(p)
  PROVE  req[p].todo = {}
<1>1. CASE Arrive(p)
  BY <1>1 DEF Arrive, Register, VerifyEmail, ResendOtp, ForgotPassword, ForgotUnreadable,
     VerifyResetOtp, GoogleLogin, Start, FreeHandsNothing
<1>2. CASE Handle(p)
  BY <1>2 DEF Handle, RegisterLookup, RegisterCreate, VerifyGone, VerifyWrong, CountRead,
     CountWrite, VerifyUser, VerifyResetWrong, ResendLookup, ForgotLookup,
     GoogleFind, GoogleCreate, GoogleLink, At
<1>3. CASE VerifyRight(p) \/ ForgotCode(p) \/ ForgotMail(p) \/ ForgotMailLost(p)
             \/ Finish(p) \/ VerifyResetRight(p)
  BY <1>3 DEF VerifyRight, ForgotCode, ForgotMail, ForgotMailLost, Finish,
     VerifyResetRight, At
<1> QED BY <1>1, <1>2, <1>3 DEF Handles

LEMMA GotoMoves ==
  ASSUME NEW p \in Slots, NEW pc, NEW todo, Goto(p, pc, todo), pc # "idle" \/ todo = {}
  PROVE  \E r : Moves(p, r)
<1> DEFINE r == [Idle EXCEPT !.pc = pc, !.todo = todo]
<1>1. req' = [req EXCEPT ![p] = r] /\ (r.pc = "idle" => r.todo = {})
  BY DEF Goto, Idle
<1> HIDE DEF r
<1> QED BY <1>1 DEF Moves

LEMMA EndMoves ==
  ASSUME NEW p \in Slots, End(p)
  PROVE  \E r : Moves(p, r)
<1>1. Moves(p, Idle)
  BY DEF End, Moves, Idle
<1> QED BY <1>1

LEMMA ElsewhereMoves ==
  ASSUME NEW p \in Slots, Arrive(p)
  PROVE  \E r : Moves(p, r)
<1>1. \E pc \in {"lookup", "answer", "resend", "forgot", "resetAnswer", "findUser"} :
        Goto(p, pc, {})
  BY DEF Arrive, Register, VerifyEmail, ResendOtp, ForgotPassword, ForgotUnreadable,
     VerifyResetOtp, GoogleLogin, Start
<1> QED BY <1>1, GotoMoves

LEMMA CountingMoves ==
  ASSUME IInv, NEW p \in Slots, VerifyWrong(p) \/ VerifyResetWrong(p) \/ CountRead(p)
  PROVE  \E r : Moves(p, r)
<1>1. ASSUME NEW k \in Counters, Increment(p, k) PROVE \E r : Moves(p, r)
  <2> DEFINE r == [Idle EXCEPT !.pc = "count", !.key = k]
  <2>1. req' = [req EXCEPT ![p] = r] /\ r.pc # "idle"
    BY <1>1 DEF Increment, Idle
  <2> HIDE DEF r
  <2> QED BY <2>1 DEF Moves
<1>2. CASE CountRead(p)
  <2> DEFINE r == [req[p] EXCEPT !.pc = "bump", !.n = count[req[p].key]]
  <2>1. req' = [req EXCEPT ![p] = r] /\ r.pc = "bump"
    BY <1>2, Knowledge DEF CountRead, Request
  <2> HIDE DEF r
  <2> QED BY <2>1 DEF Moves
<1>3. CASE VerifyWrong(p) \/ VerifyResetWrong(p)
  <2>1. \E k \in Counters : Increment(p, k)
    BY <1>3 DEF VerifyWrong, VerifyResetWrong, Counters
  <2> QED BY <1>1, <2>1
<1> QED BY <1>2, <1>3

LEMMA HandlesMoves ==
  ASSUME IInv, NEW p \in Slots, Handles(p) \/ VerifyResetRight(p)
  PROVE  \E r : Moves(p, r)
<1>1. CASE VerifyGone(p) \/ CountWrite(p)
  BY <1>1, EndMoves DEF VerifyGone, CountWrite
<1>2. CASE VerifyRight(p) \/ VerifyUser(p) \/ VerifyResetRight(p)
  <2>1. End(p) \/ \E pc \in {"user", "done"}, todo \in SUBSET Commands : Goto(p, pc, todo)
    <3>1. /\ ClearOtp \in SUBSET Commands /\ ResetCommands \in SUBSET Commands
          /\ ClearOtp \cup {Activation, DelKey("known")} \in SUBSET Commands
          /\ {} \in SUBSET Commands
      BY Statements, Handed DEF ClearOtp, Keys, Counters
    <3> QED BY <1>2, <3>1 DEF VerifyRight, VerifyUser, VerifyResetRight
  <2> QED BY <2>1, EndMoves, GotoMoves
<1>3. CASE RegisterLookup(p) \/ RegisterCreate(p) \/ ResendLookup(p)
  BY <1>3, EndMoves, GotoMoves DEF RegisterLookup, RegisterCreate, ResendLookup
<1>4. CASE ForgotLookup(p) \/ ForgotCode(p) \/ ForgotMail(p) \/ ForgotMailLost(p)
  BY <1>4, GotoMoves DEF ForgotLookup, ForgotCode, ForgotMail, ForgotMailLost
<1>5. CASE GoogleFind(p) \/ GoogleCreate(p) \/ GoogleLink(p) \/ Finish(p)
  BY <1>5, EndMoves, GotoMoves DEF GoogleFind, GoogleCreate, GoogleLink, Finish
<1> QED
  BY <1>1, <1>2, <1>3, <1>4, <1>5, ElsewhereMoves, CountingMoves DEF Handles, Handle

LEMMA HandlesKeeps ==
  ASSUME IInv, NEW p \in Slots, Handles(p)
  PROVE  /\ opened' = opened /\ faults' \in {faults, faults + 1}
         /\ left'["resetOtp"] = left["resetOtp"]
<1>1. CASE Arrive(p)
  BY <1>1 DEF Arrive, Register, VerifyEmail, ResendOtp, ForgotPassword, ForgotUnreadable,
     VerifyResetOtp, GoogleLogin, history
<1>2. CASE CountWrite(p)
  <2>1. left \in [Keys -> Nat] /\ req[p].key \in Counters
    BY Knowledge DEF IInv, AddressOK, StoresOK, Request
  <2>2. "resetOtp" \in Keys /\ "resetOtp" # req[p].key
    BY <2>1 DEF Keys, Counters
  <2> QED BY <1>2, <2>1, <2>2 DEF CountWrite
<1>3. CASE Handle(p) /\ ~CountWrite(p)
  BY <1>3 DEF Handle, RegisterLookup, RegisterCreate, VerifyGone, VerifyWrong, CountRead,
     VerifyUser, VerifyResetWrong, ResendLookup, ForgotLookup,
     GoogleFind, GoogleCreate, GoogleLink, history
<1>4. CASE VerifyRight(p) \/ ForgotCode(p) \/ ForgotMail(p) \/ ForgotMailLost(p) \/ Finish(p)
  BY <1>4 DEF VerifyRight, ForgotCode, ForgotMail, ForgotMailLost, Finish, history
<1> QED BY <1>1, <1>2, <1>3, <1>4 DEF Handles

-----------------------------------------------------------------------------
LEMMA SpareNumbers ==
  ASSUME IInv
  PROVE  /\ opened \in Nat /\ faults \in Nat /\ Spared \in Nat
         /\ Cardinality(Slots) \in Nat
         /\ Cardinality(Deleting) \in Nat
         /\ Cardinality(Deleting) <= Cardinality(Slots)
<1>1. opened \in Nat /\ faults \in Nat
  BY DEF IInv, AddressOK, StoresOK
<1>2. /\ Cardinality(Slots) \in Nat /\ Cardinality(Deleting) \in Nat
      /\ Cardinality(Deleting) <= Cardinality(Slots)
  BY AtMostSlots DEF Deleting
<1>3. \A m, n \in Nat : m * n \in Nat
  OBVIOUS
<1> QED BY <1>1, <1>2, <1>3 DEF Spared

(* A fault spares one use of the OTP in each slot. *)
LEMMA SparedGrows ==
  ASSUME IInv, faults' \in {faults, faults + 1}
  PROVE  /\ faults' = faults => Spared' = Spared
         /\ faults' = faults + 1 => Spared' = Spared + Cardinality(Slots)
<1>1. \A m, n \in Nat : m * (n + 1) = m * n + m
  OBVIOUS
<1> QED BY <1>1, SpareNumbers DEF Spared

(* A step that spares the OTP nothing new *)
LEMMA OpenedKept ==
  ASSUME IInv, OpenedCounted, opened' = opened, faults' \in {faults, faults + 1},
         Stored("resetOtp")' => Stored("resetOtp"), Deleting \subseteq Deleting',
         FreeHandsNothing'
  PROVE  OpenedCounted'
<1>1. /\ Cardinality(Deleting) \in Nat /\ Cardinality(Deleting') \in Nat
      /\ Cardinality(Deleting) <= Cardinality(Deleting')
  <2>1. Deleting' \in SUBSET Slots
    BY DEF Deleting
  <2>2. IsFiniteSet(Deleting')
    BY <2>1, SlotsAssumption, FS_Subset
  <2>3. Cardinality(Deleting') \in Nat
    BY <2>2, FS_CardinalityType
  <2>4. Cardinality(Deleting) <= Cardinality(Deleting')
    BY <2>2, FS_Subset
  <2> QED BY <2>3, <2>4, SpareNumbers
<1>2. Spared' \in Nat /\ Spared <= Spared'
  BY SparedGrows, SpareNumbers
<1> QED BY <1>1, <1>2, SpareNumbers DEF OpenedCounted

(* What a step that is a fault did not delete is spared. *)
LEMMA OpenedSpared ==
  ASSUME IInv, OpenedCounted, opened' = opened, faults' = faults + 1, FreeHandsNothing'
  PROVE  OpenedCounted'
<1>1. Spared' = Spared + Cardinality(Slots)
  BY SparedGrows
<1>2. Cardinality(Deleting') \in Nat
  BY AtMostSlots DEF Deleting
<1> QED BY <1>1, <1>2, SpareNumbers DEF OpenedCounted

LEMMA MovesStep ==
  ASSUME IInv, FreeHandsNothing, NEW p \in Slots, NEW r, Moves(p, r)
  PROVE  /\ FreeHandsNothing'
         /\ \A q \in Slots \ {p} : q \in Deleting <=> q \in Deleting'
         /\ p \in Deleting' <=> DelKey("resetOtp") \in r.todo
<1>1. req'[p] = r /\ (r.pc = "idle" => r.todo = {})
      /\ \A q \in Slots \ {p} : req'[q] = req[q]
  BY DEF Moves, IInv, RequestsOK
<1>2. FreeHandsNothing'
  BY <1>1 DEF FreeHandsNothing, Free
<1> QED BY <1>1, <1>2 DEF Deleting

LEMMA OpenedHandles ==
  ASSUME IInv, OpenedCounted, NEW p \in Slots, Handles(p)
  PROVE  OpenedCounted'
<1>1. FreeHandsNothing
  BY DEF OpenedCounted
<1>2. p \notin Deleting
  BY <1>1, HandlesIdle DEF Deleting
<1>3. PICK r : Moves(p, r)
  BY HandlesMoves
<1>4. FreeHandsNothing' /\ Deleting \subseteq Deleting'
  BY <1>1, <1>2, <1>3, MovesStep DEF Deleting
<1> QED BY <1>4, HandlesKeeps, OpenedKept DEF Stored

(* A right answer is one more use, and one more deletion on its way. *)
LEMMA OpenedRight ==
  ASSUME IInv, OpenedCounted, NEW p \in Slots, VerifyResetRight(p)
  PROVE  OpenedCounted'
<1> DEFINE r == [Idle EXCEPT !.pc = "done", !.todo = ResetCommands]
<1>1. /\ req' = [req EXCEPT ![p] = r] /\ Stored("resetOtp") /\ opened' = opened + 1
      /\ UNCHANGED <<left, faults>>
  BY DEF VerifyResetRight, Goto
<1>2. r.pc = "done" /\ DelKey("resetOtp") \in r.todo
  BY DEF Idle, ResetCommands
<1> HIDE DEF r
<1>3. Moves(p, r) /\ FreeHandsNothing
  BY <1>1, <1>2 DEF Moves, OpenedCounted
<1>4. p \notin Deleting
  BY <1>3, HandlesIdle DEF Deleting
<1>5. /\ FreeHandsNothing' /\ p \in Deleting'
      /\ \A q \in Slots \ {p} : q \in Deleting <=> q \in Deleting'
  BY <1>2, <1>3, MovesStep
<1>6. Deleting \in SUBSET Slots /\ Deleting' \in SUBSET Slots
  BY DEF Deleting
<1>7. Cardinality(Deleting') = Cardinality(Deleting) + 1
  BY <1>4, <1>5, <1>6, OneSlot
<1>8. Cardinality(Deleting') <= Cardinality(Slots)
  BY <1>6, AtMostSlots
<1>9. Spared' = Spared
  BY <1>1 DEF Spared
<1> QED BY <1>1, <1>5, <1>7, <1>8, <1>9, SpareNumbers DEF OpenedCounted

(* Only a deletion performed leaves the set, and then the OTP is gone. *)
LEMMA OpenedPerform ==
  ASSUME IInv, OpenedCounted, NEW p \in Slots, Perform(p)
  PROVE  OpenedCounted'
<1>a. FreeHandsNothing /\ "resetOtp" \in Keys /\ left \in [Keys -> Nat]
  BY DEF OpenedCounted, Keys, IInv, AddressOK, StoresOK
<1>1. ASSUME NEW c, Done(p, c)
      PROVE  /\ FreeHandsNothing'
             /\ c # DelKey("resetOtp") => Deleting \subseteq Deleting'
  <2>1. \A q \in Slots : req'[q].pc = req[q].pc /\ req'[q].todo \subseteq req[q].todo
          /\ (c # DelKey("resetOtp") =>
                (DelKey("resetOtp") \in req[q].todo => DelKey("resetOtp") \in req'[q].todo))
    BY <1>1 DEF Done, IInv, RequestsOK, Request
  <2> QED BY <1>a, <2>1 DEF FreeHandsNothing, Free, Deleting
<1>2. ASSUME NEW k \in Keys, PerformSet(p, k) PROVE OpenedCounted'
  <2>1. /\ left' = [left EXCEPT ![k] = TTL[k]] /\ faults' = faults
        /\ opened' = IF k = "resetOtp" THEN 0 ELSE opened
        /\ Done(p, SetKey(k)) /\ SetKey(k) # DelKey("resetOtp")
    BY <1>2 DEF PerformSet, SetKey, DelKey
  <2>2. FreeHandsNothing' /\ Deleting \subseteq Deleting'
    BY <1>1, <2>1
  <2>3. CASE k = "resetOtp"
    <3>1. opened' = 0 /\ Spared' = Spared /\ Cardinality(Deleting') \in Nat
      BY <2>1, <2>3, AtMostSlots DEF Spared, Deleting
    <3> QED BY <2>2, <3>1, SpareNumbers DEF OpenedCounted
  <2>4. CASE k # "resetOtp"
    BY <1>a, <2>1, <2>2, <2>4, OpenedKept DEF Stored
  <2> QED BY <2>3, <2>4
<1>3. ASSUME NEW k \in Keys, PerformDel(p, k) PROVE OpenedCounted'
  <2>1. /\ left' = [left EXCEPT ![k] = 0] /\ faults' = faults
        /\ opened' = opened /\ Done(p, DelKey(k))
    BY <1>3 DEF PerformDel
  <2>2. CASE k = "resetOtp"
    <3>1. left'["resetOtp"] = 0 /\ Spared' = Spared /\ FreeHandsNothing'
      BY <1>a, <1>1, <2>1, <2>2 DEF Spared
    <3> QED BY <2>1, <3>1 DEF OpenedCounted, Stored
  <2>3. CASE k # "resetOtp"
    <3>1. DelKey(k) # DelKey("resetOtp")
      BY <2>3 DEF DelKey
    <3>2. FreeHandsNothing' /\ Deleting \subseteq Deleting' /\ left'["resetOtp"] = left["resetOtp"]
      BY <1>a, <1>1, <2>1, <2>3, <3>1
    <3> QED BY <2>1, <3>2, OpenedKept DEF Stored
  <2> QED BY <2>2, <2>3
<1>4. CASE PerformActivate(p)
  <2>1. UNCHANGED <<left, opened, faults>> /\ Done(p, Activation)
    BY <1>4 DEF PerformActivate, history
  <2>2. Activation # DelKey("resetOtp")
    BY <1>a, Statements
  <2>3. FreeHandsNothing' /\ Deleting \subseteq Deleting'
    BY <1>1, <2>1, <2>2
  <2> QED BY <2>1, <2>3, OpenedKept DEF Stored
<1> QED BY <1>2, <1>3, <1>4 DEF Perform

LEMMA OpenedFault ==
  ASSUME IInv, OpenedCounted, (\E p \in Slots : Reject(p)) \/ Crash
  PROVE  OpenedCounted'
<1>1. opened' = opened /\ faults' = faults + 1
  BY DEF Reject, Crash
<1>2. ASSUME NEW p \in Slots, Reject(p) PROVE FreeHandsNothing'
  <2>1. PICK rest \in SUBSET req[p].todo : Goto(p, "done", rest)
    BY <1>2 DEF Reject
  <2>2. PICK r : Moves(p, r)
    BY <2>1, GotoMoves
  <2> QED BY <2>2, MovesStep DEF OpenedCounted
<1>3. CASE Crash
  BY <1>1, <1>3, OpenedSpared DEF Crash, FreeHandsNothing, Idle
<1> QED BY <1>1, <1>2, <1>3, OpenedSpared

(* A reset OTP that was answered is spent: it opens the way to a new       *)
(* password once in each slot, and once more in each for every fault       *)
(* (auth.service.ts:813-817).                                              *)
THEOREM ResetOtpCorrect == Spec => []ResetOtpSpent
<1>1. Init => OpenedCounted
  <2> SUFFICES ASSUME Init PROVE OpenedCounted
    OBVIOUS
  <2>1. opened = 0 /\ \A p \in Slots : req[p].todo = {}
    BY DEF Init, Fresh, Idle
  <2> QED BY <2>1, SpareNumbers, InitialState DEF OpenedCounted, FreeHandsNothing
<1>2. IInv /\ OpenedCounted /\ [Next]_vars => OpenedCounted'
  <2> SUFFICES ASSUME IInv, OpenedCounted, [Next]_vars PROVE OpenedCounted'
    OBVIOUS
  <2>1. ASSUME NEW p \in Slots, Arrive(p) \/ Serve(p) \/ ForgotMailLost(p)
        PROVE  OpenedCounted'
    <3>1. Handles(p) \/ VerifyResetRight(p) \/ Perform(p)
      BY <2>1 DEF Serve, Handles
    <3> QED BY <3>1, OpenedHandles, OpenedRight, OpenedPerform
  <2>2. CASE Tick
    <3>1. UNCHANGED <<opened, faults, req>> /\ left' = [k \in Keys |-> Dec(left[k])]
      BY <2>2 DEF Tick, NextLeft, history
    <3>2. Stored("resetOtp")' => Stored("resetOtp")
      <4>1. "resetOtp" \in Keys /\ left["resetOtp"] \in Nat
        BY DEF Keys, IInv, AddressOK, StoresOK
      <4> QED BY <3>1, <4>1 DEF Stored, Dec
    <3>3. Deleting' = Deleting /\ FreeHandsNothing'
      BY <3>1 DEF Deleting, FreeHandsNothing, Free, OpenedCounted
    <3> QED BY <3>1, <3>2, <3>3, OpenedKept
  <2>3. CASE UNCHANGED vars
    BY <2>3, OpenedKept DEF vars, history, Deleting, FreeHandsNothing, Free, Stored,
       OpenedCounted
  <2> QED BY <2>1, <2>2, <2>3, OpenedFault DEF Next
<1>3. IInv /\ OpenedCounted => ResetOtpSpent
  <2> SUFFICES ASSUME IInv, OpenedCounted PROVE ResetOtpSpent
    OBVIOUS
  <2>1. \A m, n \in Nat : m * (n + 1) = m * n + m
    OBVIOUS
  <2>2. Cardinality(Slots) * (faults + 1) = Spared + Cardinality(Slots)
    BY <2>1, SpareNumbers DEF Spared
  <2> QED BY <2>2 DEF OpenedCounted, ResetOtpSpent
<1> QED BY <1>1, <1>2, <1>3, Invariance, PTL DEF Spec
=============================================================================

----------------------------- MODULE AccountMail -----------------------------
(***************************************************************************)
(* The requests of Accounts that mail a code, resendOtp and forgotPassword,*)
(* with the queue their mails go through and the process that runs both:   *)
(* requests and worker end with it, while MySQL, the keys and the jobs     *)
(* stay.  register ends in the mail resendOtp ends in.                     *)
(*                                                                         *)
(* Accounts does not say which code an OTP key holds.  Here each of these  *)
(* requests has a number: a code that of the request that generated it,    *)
(* and a mail that of the request that sends it.                           *)
(***************************************************************************)
EXTENDS Accounts, Sequences

CONSTANTS
  MaxMails,     \* bound: the requests that mail
  MAX_ATTEMPTS, \* attempts of a mail (3)
  RETRIES       \* attempts to connect to MySQL (5)

ASSUME AttemptsAssumption == MAX_ATTEMPTS \in Nat \ {0}
ASSUME RetriesAssumption == RETRIES \in Nat \ {0}
ASSUME MailsAssumption == MaxMails \in Nat

VARIABLES
  job, wait, worker, sent, \* of MailQueue
  phase, attempt,          \* of Startup
  asked,  \* the requests so far
  carry,  \* the mail a slot is to send, and the code it has for it
  code,   \* Redis: the code each OTP key holds
  issued, \* history: codes that were stored
  alone,  \* history: keys set while no other request was under way
  cut     \* history: codes set so that were overwritten or deleted

Queue == INSTANCE MailQueue
Process == INSTANCE Startup

accountVars == vars
queueVars == <<job, wait, worker, sent>>
codeVars == <<asked, carry, code, issued, alone, cut>>
mailVars == <<accountVars, queueVars, phase, attempt, codeVars>>

-----------------------------------------------------------------------------
OtpKeys == {"otp", "resetOtp"}
NoCarry == [mail |-> Queue!NoMail, otp |-> Queue!NoOtp]
Carry == [mail : Queue!Mails \cup {Queue!NoMail}, otp : Queue!Otps]

(* An account that was registered some time ago and is not verified yet *)
MailInit ==
  /\ status = "PENDING"
  /\ linked = FALSE
  /\ Fresh
  /\ Queue!QueueInit
  /\ Process!StartupInit
  /\ asked = 0
  /\ carry = [p \in Slots |-> NoCarry]
  /\ code = [k \in OtpKeys |-> Queue!NoOtp]
  /\ issued = {}
  /\ alone = {}
  /\ cut = {}

Running == phase = "up" /\ UNCHANGED <<phase, attempt>>
QueueRests == UNCHANGED queueVars
CodesRest == UNCHANGED <<code, issued, alone, cut>>

Drop(p) == carry' = [carry EXCEPT ![p] = NoCarry]

-----------------------------------------------------------------------------
(* The requests *)

(* generateOtp: forgotPassword calls it later, and not for a stored code.  *)
Ask(p) ==
  /\ Running
  /\ ResendOtp(p) \/ ForgotPassword(p) \/ ForgotUnreadable(p)
  /\ asked < MaxMails
  /\ asked' = asked + 1
  /\ carry' = [carry EXCEPT ![p] = [mail |-> asked + 1, otp |-> asked + 1]]
  /\ QueueRests
  /\ CodesRest

Proceed(p) ==
  /\ Running
  /\ ResendLookup(p) \/ ForgotLookup(p)
  /\ IF req'[p].pc = "code" \/ SetKey("otp") \in req'[p].todo THEN UNCHANGED carry
                                                             ELSE Drop(p)
  /\ QueueRests
  /\ CodesRest
  /\ UNCHANGED asked

(* An OTP that is still stored is sent again. *)
ChooseCode(p) ==
  /\ Running
  /\ ForgotCode(p)
  /\ carry' = [carry EXCEPT ![p].otp =
                 IF SetKey("resetOtp") \in req'[p].todo THEN @ ELSE code["resetOtp"]]
  /\ QueueRests
  /\ CodesRest
  /\ UNCHANGED asked

StoreCode(p) ==
  \E k \in OtpKeys :
    /\ Running
    /\ PerformSet(p, k)
    /\ code' = [code EXCEPT ![k] = carry[p].otp]
    /\ issued' = issued \cup {carry[p].otp}
    /\ alone' = IF \A q \in Slots \ {p} : Free(q) THEN alone \cup {k}
                                                  ELSE alone \ {k}
    /\ cut' = IF k \in alone THEN cut \cup {code[k]} ELSE cut
    /\ QueueRests
    /\ UNCHANGED <<asked, carry>>

PerformOther(p) ==
  /\ Running
  /\ \E k \in Keys \ OtpKeys : PerformSet(p, k) \/ PerformDel(p, k)
  /\ QueueRests
  /\ UNCHANGED codeVars

(* sendPasswordReset, then the cooldown *)
MailReset(p) ==
  /\ Running
  /\ ForgotMail(p)
  /\ Queue!Add(carry[p].mail, "send-reset-password", carry[p].otp)
  /\ Drop(p)
  /\ CodesRest
  /\ UNCHANGED asked

MailResetLost(p) ==
  /\ Running
  /\ ForgotMailLost(p)
  /\ QueueRests
  /\ Drop(p)
  /\ CodesRest
  /\ UNCHANGED asked

(* The end of a request, before which resendOtp has called                 *)
(* sendUserConfirmation: it swallows the error when it cannot add the job. *)
Return(p) ==
  /\ Running
  /\ Finish(p)
  /\ IF carry[p].mail = Queue!NoMail
       THEN QueueRests
       ELSE Queue!Add(carry[p].mail, "send-otp", carry[p].otp) \/ QueueRests
  /\ Drop(p)
  /\ CodesRest
  /\ UNCHANGED asked

(* A handler that throws sends no mail; what it had begun goes on. *)
Throw(p) ==
  /\ Running
  /\ Reject(p)
  /\ carry' = [carry EXCEPT ![p].mail = Queue!NoMail]
  /\ QueueRests
  /\ CodesRest
  /\ UNCHANGED asked

-----------------------------------------------------------------------------
(* The worker, the process, and time *)

Work ==
  /\ Running
  /\ Queue!Work
  /\ UNCHANGED <<accountVars, codeVars>>

OnlyProcess == QueueRests /\ UNCHANGED <<accountVars, codeVars>>

Boot == Process!Boot /\ OnlyProcess
Connect == Process!Connect /\ OnlyProcess
HealthCheck == Process!HealthCheck /\ OnlyProcess
StartUpFails == (Process!ConnectFails \/ Process!HealthCheckFails) /\ OnlyProcess

Exit ==
  /\ Process!Exit
  /\ Crash
  /\ Queue!Die
  /\ carry' = [p \in Slots |-> NoCarry]
  /\ CodesRest
  /\ UNCHANGED asked

Pass ==
  /\ Tick
  /\ alone' = {k \in alone : left'[k] > 0}
  /\ code' = [k \in OtpKeys |-> IF left'[k] > 0 THEN code[k] ELSE Queue!NoOtp]
  /\ QueueRests
  /\ UNCHANGED <<phase, attempt, asked, carry, issued, cut>>

-----------------------------------------------------------------------------
MailNext ==
  \/ \E p \in Slots :
       \/ Ask(p) \/ Proceed(p) \/ ChooseCode(p) \/ StoreCode(p) \/ PerformOther(p)
       \/ MailReset(p) \/ MailResetLost(p) \/ Return(p) \/ Throw(p)
  \/ Work
  \/ Boot
  \/ Connect
  \/ HealthCheck
  \/ StartUpFails
  \/ Exit
  \/ Pass

(* The worker goes on while its process is up and delays end; the process  *)
(* is started again when it ended, and MySQL, asked often enough, answers. *)
(* Nothing is asked of the requests.                                       *)
Fairness ==
  /\ WF_mailVars(Work)
  /\ WF_mailVars(Boot) /\ SF_mailVars(Connect) /\ SF_mailVars(HealthCheck)

MailSpec == MailInit /\ [][MailNext]_mailVars
FairMailSpec == MailSpec /\ Fairness

-----------------------------------------------------------------------------
(* Properties. *)

(* Jobs, carried mails, codes and the process keep their shape.            *)
MailTypeOK ==
  /\ Queue!QueueTypeOK
  /\ Process!StartupTypeOK
  /\ asked \in 0..MaxMails
  /\ carry \in [Slots -> Carry]
  /\ code \in [OtpKeys -> Queue!Otps]
  /\ issued \subseteq Queue!Otps
  /\ alone \subseteq OtpKeys
  /\ cut \subseteq Queue!Otps

NoMailLost == Queue!NoMailLost
BoundedCopies == Queue!BoundedCopies
PromiseSpec == Queue!PromiseSpec

(* The code in a mail was stored, and it works until it expires or is      *)
(* answered when no other request of the address was under way: only       *)
(* requests that overlap (auth.service.ts:735-744) can replace it earlier. *)
MailedCodeWorks ==
  \A m \in Queue!Mails : sent[m] > 0 => job[m].otp \in issued \ cut

(* Every mail in the queue is sent or given up in the end, whatever ends   *)
(* the process meanwhile and however often it fails to start: five failed  *)
(* connections, or a failed health check, end it rather than leave it      *)
(* hanging (prisma.service.ts:75-94, 136-148, mail.processor.ts:105-111).  *)
MailsResolve ==
  \A m \in Queue!Mails :
    Queue!Fate(m) = "accepted" ~> Queue!Fate(m) \in {"delivered", "failed"}
=============================================================================

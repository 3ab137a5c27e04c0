------------------------------ MODULE MailQueue ------------------------------
(***************************************************************************)
(* mail-queue: MailService adds jobs to it, MailProcessor works them off.  *)
(* The jobs are in Redis and outlive the process that works on them.       *)
(*                                                                         *)
(* Of BullMQ (external) the model has what the code relies on: a job is    *)
(* taken in the order of the list, one at a time; a rejected job is tried  *)
(* again after a delay until its attempts are used up; a job whose worker  *)
(* died goes back to the list once, the second time it fails.              *)
(* Left out: the mails of POST mail/test-mail, the wording of a mail, and  *)
(* how long a delay is.                                                    *)
(***************************************************************************)
EXTENDS Naturals, Sequences

CONSTANTS
  MaxMails,    \* bound: the mails ever asked for
  MAX_ATTEMPTS \* attempts of a job (3)

VARIABLES
  job,    \* Redis: the job of each mail
  wait,   \* Redis: the mails whose turn comes, in order
  worker, \* the mail the process works on, and how far it is
  sent    \* history: how often each mail was accepted by the SMTP server

queueVars == <<job, wait, worker, sent>>

-----------------------------------------------------------------------------
Mails == 1..MaxMails
NoMail == 0

(* A code is named after the mail that first asked for it. *)
Otps == 0..MaxMails
NoOtp == 0

(* The names MailService gives, and those the switch of process knows *)
Names == {"send-otp", "send-reset-password"}
Routed == {"send-otp", "send-reset-password"}

MAX_STALLED == 1

States == {"none", "waiting", "active", "delayed", "failed", "completed"}

Job ==
  [state : States, name : Names, otp : Otps,
   made : 0..MAX_ATTEMPTS, stalled : 0..MAX_STALLED]

Worker ==
  [mail : Mails \cup {NoMail}, at : {"idle", "processing", "resolved", "rejected"}]

Untried(state, name, otp) ==
  [state |-> state, name |-> name, otp |-> otp, made |-> 0, stalled |-> 0]

NoJob == Untried("none", "send-otp", NoOtp)

Asleep == [mail |-> NoMail, at |-> "idle"]

JobState(m) == job[m].state

(* The job goes on to a state, tried and stalled so often. *)
Turn(m, state, made, stalled) ==
  job' = [job EXCEPT ![m] = [state |-> state, name |-> job[m].name, otp |-> job[m].otp,
                             made |-> made, stalled |-> stalled]]

Working(m, at) == worker = [mail |-> m, at |-> at]

QueueInit ==
  /\ job = [m \in Mails |-> NoJob]
  /\ wait = <<>>
  /\ worker = Asleep
  /\ sent = [m \in Mails |-> 0]

-----------------------------------------------------------------------------
(* sendUserConfirmation, sendPasswordReset *)
Add(m, name, otp) ==
  /\ JobState(m) = "none"
  /\ job' = [job EXCEPT ![m] = Untried("waiting", name, otp)]
  /\ wait' = Append(wait, m)
  /\ UNCHANGED <<worker, sent>>

Take ==
  /\ worker = Asleep
  /\ wait # <<>>
  /\ worker' = [mail |-> Head(wait), at |-> "processing"]
  /\ job' = [job EXCEPT ![Head(wait)].state = "active"]
  /\ wait' = Tail(wait)
  /\ UNCHANGED sent

(* process, sendMailHelper *)
Settle(m, at) ==
  /\ Working(m, "processing")
  /\ worker' = [mail |-> m, at |-> at]
  /\ UNCHANGED <<job, wait>>

Deliver(m) ==
  /\ job[m].name \in Routed
  /\ Settle(m, "resolved")
  /\ sent' = [sent EXCEPT ![m] = @ + 1]

RefuseQuietly(m) ==
  /\ job[m].name \in Routed
  /\ Settle(m, "resolved")
  /\ UNCHANGED sent
(* No template, no connection, or a refusal: logged and thrown again. *)
Refuse(m) ==
  /\ job[m].name \in Routed
  /\ Settle(m, "rejected")
  /\ UNCHANGED sent

(* The server took the mail, but its answer never came. *)
DeliverUnanswered(m) ==
  /\ job[m].name \in Routed
  /\ Settle(m, "rejected")
  /\ sent' = [sent EXCEPT ![m] = @ + 1]

(* default: *)
Ignore(m) ==
  /\ job[m].name \notin Routed
  /\ Settle(m, "resolved")
  /\ UNCHANGED sent

(* removeOnComplete *)
Complete(m) ==
  /\ Working(m, "resolved")
  /\ worker' = Asleep
  /\ job' = [job EXCEPT ![m] = Untried("completed", job[m].name, job[m].otp)]
  /\ UNCHANGED <<wait, sent>>

OneTooMany(m) == job[m].made = MAX_ATTEMPTS
LastAttempt(m) == job[m].made + 1 = MAX_ATTEMPTS

ReattemptForever(m) ==
  /\ Working(m, "rejected")
  /\ worker' = Asleep
  /\ Turn(m, "delayed", job[m].made, job[m].stalled)
  /\ UNCHANGED <<wait, sent>>
Reattempt(m) ==
  /\ Working(m, "rejected")
  /\ worker' = Asleep
  /\ Turn(m, IF LastAttempt(m) THEN "failed" ELSE "delayed",
          job[m].made + 1, job[m].stalled)
  /\ UNCHANGED <<wait, sent>>

PromoteAny(m) ==
  /\ JobState(m) \in {"delayed", "failed"}
  /\ job' = [job EXCEPT ![m].state = "waiting"]
  /\ wait' \in {Append(wait, m), <<m>> \o wait}
  /\ UNCHANGED <<worker, sent>>
(* The backoff is over: at which end the job joins is BullMQ's affair. *)
Promote(m) ==
  /\ JobState(m) = "delayed"
  /\ job' = [job EXCEPT ![m].state = "waiting"]
  /\ wait' \in {Append(wait, m), <<m>> \o wait}
  /\ UNCHANGED <<worker, sent>>

(* The process dies: the job it worked on stays active. *)
Die ==
  /\ worker' = Asleep
  /\ UNCHANGED <<job, wait, sent>>

Stall(m) ==
  /\ JobState(m) = "active"
  /\ worker.mail # m
  /\ IF job[m].stalled < MAX_STALLED
       THEN /\ Turn(m, "waiting", job[m].made, job[m].stalled + 1)
            /\ wait' = <<m>> \o wait
       ELSE /\ job' = [job EXCEPT ![m].state = "failed"]
            /\ UNCHANGED wait
  /\ UNCHANGED <<worker, sent>>

(* What the process does by itself while it runs *)
Work ==
  \/ Take
  \/ \E m \in Mails :
       \/ Deliver(m) \/ Refuse(m) \/ DeliverUnanswered(m) \/ Ignore(m)
       \/ Complete(m) \/ Reattempt(m) \/ Promote(m) \/ Stall(m)

QueueNext ==
  \/ \E m \in Mails, name \in Names, otp \in Otps : Add(m, name, otp)
  \/ Work
  \/ Die

QueueSpec == QueueInit /\ [][QueueNext]_queueVars

-----------------------------------------------------------------------------
(* Properties. *)

(* Jobs, list and worker keep their shape.                                 *)
QueueTypeOK ==
  /\ job \in [Mails -> Job]
  /\ wait \in Seq(Mails)
  /\ worker \in Worker
  /\ sent \in [Mails -> Nat]

(* A job that left the queue as done was sent: the worker rethrows what    *)
(* sendMailHelper caught (mail.processor.ts:105-111) and knows the name of *)
(* every job MailService adds (mail.processor.ts:33-61).  A job is given   *)
(* up only when its attempts are used up or its worker died under it twice *)
(* (mail.service.ts:25, 45).                                               *)
NoMailLost ==
  \A m \in Mails :
    /\ JobState(m) = "completed" => sent[m] > 0
    /\ JobState(m) = "failed" =>
         job[m].made = MAX_ATTEMPTS \/ job[m].stalled = MAX_STALLED

(* A user gets the same mail again once for each attempt that was rejected *)
(* and once for a worker that died, so at most four times.                 *)
BoundedCopies ==
  \A m \in Mails :
    /\ JobState(m) # "completed" => sent[m] <= 1 + job[m].made + job[m].stalled
    /\ sent[m] <= MAX_ATTEMPTS + MAX_STALLED

(* The fate of a mail, as MailPromise speaks of it                         *)
Fate(m) ==
  IF sent[m] > 0 THEN "delivered"
  ELSE IF JobState(m) \in {"none", "failed"} THEN JobState(m) ELSE "accepted"

(* The queue keeps the promise of MailPromise: nothing is sent that was    *)
(* not asked for, and what was given up is never sent.                     *)
Promise == INSTANCE MailPromise WITH fate <- [m \in Mails |-> Fate(m)]
PromiseSpec == Promise!Spec
=============================================================================

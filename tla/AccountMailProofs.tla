-------------------------- MODULE AccountMailProofs --------------------------
(***************************************************************************)
(* Proofs about AccountMail: for any number of requests and mails, any     *)
(* number of attempts and any failures, a job that left the queue as done  *)
(* was sent, the copies of a mail are bounded, the queue keeps the promise *)
(* of MailPromise, and a mailed code is cut short only by an overlap.      *)
(***************************************************************************)
EXTENDS AccountMail, SequenceTheorems, TLAPS

(* How often a mail was sent, by the state of its job j and by whether the *)
(* worker w has yet to send it in this attempt *)
CopiesOK(j, n, m, w) ==
  /\ j.state = "none" => n = 0
  /\ j.state \in {"waiting", "delayed"} => n <= j.made + j.stalled
  /\ j.state = "active" =>
       n <= j.made + j.stalled + (IF w = [mail |-> m, at |-> "processing"] THEN 0 ELSE 1)
  /\ j.state = "failed" =>
       /\ n <= 1 + j.made + j.stalled
       /\ n <= MAX_ATTEMPTS + Queue!MAX_STALLED
  /\ j.state = "completed" => n <= MAX_ATTEMPTS + Queue!MAX_STALLED
  /\ j.state \in {"none", "waiting", "delayed", "active"} => j.made < MAX_ATTEMPTS

WorkerOK ==
  /\ worker.mail # Queue!NoMail => job[worker.mail].state = "active"
  /\ worker.mail = Queue!NoMail => worker = Queue!Asleep
  /\ worker.at = "resolved" => sent[worker.mail] > 0

WaitOK ==
  /\ \A i \in 1..Len(wait) : job[wait[i]].state = "waiting"
  /\ \A i, j \in 1..Len(wait) : wait[i] = wait[j] => i = j

QueueInv ==
  /\ Queue!QueueTypeOK
  /\ Queue!NoMailLost
  /\ WorkerOK
  /\ WaitOK
  /\ \A m \in Queue!Mails : CopiesOK(job[m], sent[m], m, worker)

-----------------------------------------------------------------------------
(* A mail that is neither taken, nor worked on, nor moved stays as it was. *)
LEMMA QueueStart == Queue!QueueInit => QueueInv
<1> SUFFICES ASSUME Queue!QueueInit PROVE QueueInv
  OBVIOUS
<1> USE DEF Queue!QueueInit, Queue!NoJob, Queue!Untried, Queue!Asleep, Queue!NoMail, Queue!NoOtp
<1>1. Queue!QueueTypeOK
  BY AttemptsAssumption, MailsAssumption
     DEF Queue!QueueTypeOK, Queue!Job, Queue!States, Queue!Names, Queue!Otps,
         Queue!Worker, Queue!MAX_STALLED, Queue!Mails
<1>2. Queue!NoMailLost
  BY DEF Queue!NoMailLost, Queue!JobState
<1>3. WorkerOK /\ WaitOK
  BY DEF WorkerOK, WaitOK
<1>4. ASSUME NEW m \in Queue!Mails PROVE CopiesOK(job[m], sent[m], m, worker)
  BY AttemptsAssumption DEF CopiesOK
<1> QED BY <1>1, <1>2, <1>3, <1>4 DEF QueueInv

(* The first of the list, and what is left of it *)
LEMMA HeadTail ==
  ASSUME NEW S, NEW s \in Seq(S), s # <<>>
  PROVE  /\ Head(s) \in S /\ Tail(s) \in Seq(S)
         /\ Len(s) \in Nat /\ 1 \in 1..Len(s) /\ Head(s) = s[1]
         /\ Len(Tail(s)) = Len(s) - 1
         /\ \A i \in 1..Len(Tail(s)) : Tail(s)[i] = s[i + 1]
  BY HeadTailProperties, LenProperties

(* A list with a mail joined at its back, and at its front *)
LEMMA Back ==
  ASSUME NEW S, NEW s \in Seq(S), NEW m \in S
  PROVE  /\ Append(s, m) \in Seq(S) /\ Len(s) \in Nat
         /\ Len(Append(s, m)) = Len(s) + 1
         /\ \A i \in 1..Len(s) : Append(s, m)[i] = s[i]
         /\ Append(s, m)[Len(s) + 1] = m
  BY AppendProperties, LenProperties

LEMMA Front ==
  ASSUME NEW S, NEW s \in Seq(S), NEW m \in S
  PROVE  /\ <<m>> \o s \in Seq(S) /\ Len(s) \in Nat
         /\ Len(<<m>> \o s) = Len(s) + 1
         /\ (<<m>> \o s)[1] = m
         /\ \A i \in 1..Len(s) : (<<m>> \o s)[i + 1] = s[i]
<1>1. <<m>> \in Seq(S) /\ Len(<<m>>) = 1 /\ <<m>>[1] = m
  OBVIOUS
<1> QED BY <1>1, ConcatProperties, LenProperties

-----------------------------------------------------------------------------
(* The queue *)

(* When the job, the count or the worker of one mail m changes, the counts *)
(* of the other mails stay right.                                          *)
LEMMA OtherCopies ==
  ASSUME QueueInv, NEW m \in Queue!Mails, NEW j, NEW n,
         job' = [job EXCEPT ![m] = j], sent' = [sent EXCEPT ![m] = n],
         worker' = worker \/ worker'.mail \in {m, Queue!NoMail},
         CopiesOK(j, n, m, worker')
  PROVE  \A q \in Queue!Mails : CopiesOK(job'[q], sent'[q], q, worker')
<1>1. job \in [Queue!Mails -> Queue!Job] /\ sent \in [Queue!Mails -> Nat]
      /\ worker \in Queue!Worker
  BY DEF QueueInv, Queue!QueueTypeOK
<1> SUFFICES ASSUME NEW q \in Queue!Mails PROVE CopiesOK(job'[q], sent'[q], q, worker')
  OBVIOUS
<1>2. CASE q = m
  BY <1>1, <1>2
<1>3. CASE q # m
  <2>1. job'[q] = job[q] /\ sent'[q] = sent[q] /\ CopiesOK(job[q], sent[q], q, worker)
    BY <1>1, <1>3 DEF QueueInv
  <2>2. /\ job[q].made \in Nat /\ job[q].stalled \in Nat /\ sent[q] \in Nat
    BY <1>1, AttemptsAssumption DEF Queue!Job, Queue!MAX_STALLED
  <2>3. worker' = worker \/ worker' # [mail |-> q, at |-> "processing"]
    BY <1>3 DEF Queue!Mails, Queue!NoMail
  <2> QED BY <2>1, <2>2, <2>3 DEF CopiesOK
<1> QED BY <1>2, <1>3

(* A new job joins the list.                                               *)
LEMMA AddStep ==
  ASSUME QueueInv, NEW m \in Queue!Mails, NEW name \in Queue!Names,
         NEW otp \in Queue!Otps, Queue!Add(m, name, otp)
  PROVE  QueueInv'
<1> DEFINE j == Queue!Untried("waiting", name, otp)
<1>1. /\ job \in [Queue!Mails -> Queue!Job] /\ wait \in Seq(Queue!Mails)
      /\ worker \in Queue!Worker /\ sent \in [Queue!Mails -> Nat]
      /\ worker' = worker /\ sent' = sent
      /\ job' = [job EXCEPT ![m] = j] /\ wait' = Append(wait, m)
      /\ job[m].state = "none"
  BY DEF QueueInv, Queue!QueueTypeOK, Queue!Add, Queue!JobState
<1>2. j \in Queue!Job /\ j.state = "waiting" /\ j.made = 0 /\ j.stalled = 0
  <2>1. j = [state |-> "waiting", name |-> name, otp |-> otp, made |-> 0, stalled |-> 0]
    BY DEF Queue!Untried
  <2>2. 0 \in 0..MAX_ATTEMPTS /\ 0 \in 0..Queue!MAX_STALLED
    BY AttemptsAssumption DEF Queue!MAX_STALLED
  <2> QED BY <2>1, <2>2 DEF Queue!Job, Queue!States
<1> HIDE DEF j
<1>3. sent[m] = 0
  BY <1>1 DEF QueueInv, CopiesOK
<1>4. Queue!QueueTypeOK'
  BY <1>1, <1>2, Back DEF Queue!QueueTypeOK
<1>5. Queue!NoMailLost'
  BY <1>1, <1>2 DEF QueueInv, Queue!NoMailLost, Queue!JobState
<1>6. WorkerOK'
  BY <1>1 DEF QueueInv, WorkerOK, Queue!Worker
<1>7. WaitOK'
  BY <1>1, <1>2, Back DEF QueueInv, WaitOK
<1>8. \A q \in Queue!Mails : CopiesOK(job'[q], sent'[q], q, worker')
  <2>1. CopiesOK(j, sent[m], m, worker')
    BY <1>2, <1>3, AttemptsAssumption DEF CopiesOK
  <2>2. sent' = [sent EXCEPT ![m] = sent[m]]
    BY <1>1
  <2> QED BY <1>1, <2>1, <2>2, OtherCopies
<1> QED BY <1>4, <1>5, <1>6, <1>7, <1>8 DEF QueueInv

LEMMA TakeStep ==
  ASSUME QueueInv, Queue!Take
  PROVE  QueueInv'
<1> DEFINE m == Head(wait)
           j == [job[m] EXCEPT !.state = "active"]
<1>1. /\ job \in [Queue!Mails -> Queue!Job] /\ wait \in Seq(Queue!Mails)
      /\ worker = Queue!Asleep /\ sent \in [Queue!Mails -> Nat] /\ wait # <<>>
      /\ worker' = [mail |-> m, at |-> "processing"] /\ sent' = sent
      /\ wait' = Tail(wait)
  BY DEF QueueInv, Queue!QueueTypeOK, Queue!Take
<1>2. m \in Queue!Mails /\ 1 \in 1..Len(wait) /\ m = wait[1] /\ job[m].state = "waiting"
  BY <1>1, HeadTail DEF QueueInv, WaitOK
<1>3. job' = [job EXCEPT ![m] = j] /\ j \in Queue!Job /\ j.state = "active"
      /\ j.made = job[m].made /\ j.stalled = job[m].stalled
  BY <1>1, <1>2 DEF Queue!Take, Queue!Job, Queue!States
<1>4. Queue!QueueTypeOK'
  BY <1>1, <1>2, <1>3, HeadTail DEF Queue!QueueTypeOK, Queue!Worker
<1>5. Queue!NoMailLost'
  BY <1>1, <1>2, <1>3 DEF QueueInv, Queue!NoMailLost, Queue!JobState
<1>6. WorkerOK'
  BY <1>1, <1>2, <1>3 DEF WorkerOK, Queue!NoMail, Queue!Mails
<1>7. WaitOK'
  <2>1. /\ Len(wait) \in Nat /\ Len(Tail(wait)) = Len(wait) - 1
        /\ \A i \in 1..Len(Tail(wait)) : Tail(wait)[i] = wait[i + 1] /\ wait[i + 1] # m
    BY <1>1, <1>2, HeadTail DEF QueueInv, WaitOK
  <2>2. \A i \in 1..Len(wait) : wait[i] \in Queue!Mails
    BY <1>1
  <2> HIDE DEF m, j
  <2>3. \A i \in 1..Len(Tail(wait)) : i + 1 \in 1..Len(wait)
    BY <2>1
  <2>4. \A i \in 1..Len(Tail(wait)) : job'[wait'[i]].state = "waiting"
    BY <1>1, <1>3, <2>1, <2>2, <2>3 DEF QueueInv, WaitOK
  <2>5. \A i, k \in 1..Len(Tail(wait)) : wait'[i] = wait'[k] => i + 1 = k + 1
    BY <1>1, <2>1, <2>3 DEF QueueInv, WaitOK
  <2>6. \A i, k \in 1..Len(Tail(wait)) : i + 1 = k + 1 => i = k
    OBVIOUS
  <2> QED BY <1>1, <2>4, <2>5, <2>6 DEF WaitOK
<1>8. \A q \in Queue!Mails : CopiesOK(job'[q], sent'[q], q, worker')
  <2>1. CopiesOK(j, sent[m], m, worker')
    <3>1. CopiesOK(job[m], sent[m], m, worker)
      BY <1>2 DEF QueueInv
    <3> HIDE DEF m, j
    <3> QED BY <1>1, <1>2, <1>3, <3>1, AttemptsAssumption
            DEF CopiesOK, Queue!Job, Queue!MAX_STALLED
  <2>2. sent' = [sent EXCEPT ![m] = sent[m]]
    BY <1>1, <1>2
  <2> QED BY <1>1, <1>2, <1>3, <2>1, <2>2, OtherCopies
<1> QED BY <1>4, <1>5, <1>6, <1>7, <1>8 DEF QueueInv

(* The worker sends the mail, or fails to.                                 *)
LEMMA SettleStep ==
  ASSUME QueueInv, NEW m \in Queue!Mails,
         Queue!Deliver(m) \/ Queue!Refuse(m) \/ Queue!DeliverUnanswered(m) \/ Queue!Ignore(m)
  PROVE  QueueInv'
<1>1. /\ job \in [Queue!Mails -> Queue!Job] /\ wait \in Seq(Queue!Mails)
      /\ sent \in [Queue!Mails -> Nat]
      /\ worker = [mail |-> m, at |-> "processing"] /\ job' = job /\ wait' = wait
  BY DEF QueueInv, Queue!QueueTypeOK, Queue!Deliver, Queue!Refuse,
     Queue!DeliverUnanswered, Queue!Ignore, Queue!Settle, Queue!Working
<1>2. job[m].name \in Queue!Routed /\ ~Queue!Ignore(m)
  BY <1>1 DEF Queue!Job, Queue!Names, Queue!Routed, Queue!Ignore
<1>3. PICK n \in {sent[m], sent[m] + 1}, at \in {"resolved", "rejected"} :
        /\ sent' = [sent EXCEPT ![m] = n]
        /\ worker' = [mail |-> m, at |-> at]
        /\ at = "resolved" => n = sent[m] + 1
  BY <1>1, <1>2 DEF Queue!Deliver, Queue!Refuse, Queue!DeliverUnanswered, Queue!Settle
<1>4. job[m].state = "active" /\ m # Queue!NoMail /\ n \in Nat
  BY <1>1 DEF QueueInv, WorkerOK, Queue!NoMail, Queue!Mails
<1>5. Queue!QueueTypeOK'
  BY <1>1, <1>3, <1>4 DEF QueueInv, Queue!QueueTypeOK, Queue!Worker
<1>6. Queue!NoMailLost'
  BY <1>1, <1>3, <1>4 DEF QueueInv, Queue!NoMailLost, Queue!JobState
<1>7. WorkerOK' /\ WaitOK'
  BY <1>1, <1>3, <1>4 DEF QueueInv, WorkerOK, WaitOK
<1>8. \A q \in Queue!Mails : CopiesOK(job'[q], sent'[q], q, worker')
  <2>1. CopiesOK(job[m], n, m, worker')
    <3>1. CopiesOK(job[m], sent[m], m, worker)
      BY DEF QueueInv
    <3>2. job[m].made \in Nat /\ job[m].stalled \in Nat /\ sent[m] \in Nat
      BY <1>1, AttemptsAssumption DEF Queue!Job, Queue!MAX_STALLED
    <3>3. worker' # [mail |-> m, at |-> "processing"]
      BY <1>3
    <3> QED BY <1>1, <1>3, <1>4, <3>1, <3>2, <3>3 DEF CopiesOK
  <2>2. job' = [job EXCEPT ![m] = job[m]] /\ worker'.mail = m
    BY <1>1, <1>3
  <2> QED BY <1>3, <2>1, <2>2, OtherCopies
<1> QED BY <1>5, <1>6, <1>7, <1>8 DEF QueueInv

(* The worker is done with the mail: the job goes, waits again, or fails.  *)
LEMMA DoneStep ==
  ASSUME QueueInv, NEW m \in Queue!Mails, Queue!Complete(m) \/ Queue!Reattempt(m)
  PROVE  QueueInv'
<1>1. /\ job \in [Queue!Mails -> Queue!Job] /\ wait \in Seq(Queue!Mails)
      /\ sent \in [Queue!Mails -> Nat] /\ worker \in Queue!Worker
      /\ worker' = Queue!Asleep /\ wait' = wait /\ sent' = sent
      /\ worker.mail = m /\ worker.at \in {"resolved", "rejected"}
      /\ worker # [mail |-> m, at |-> "processing"]
  BY DEF QueueInv, Queue!QueueTypeOK, Queue!Complete, Queue!Reattempt, Queue!Working
<1>2. /\ job[m].state = "active" /\ CopiesOK(job[m], sent[m], m, worker)
      /\ sent[m] \in Nat /\ job[m].made \in 0..MAX_ATTEMPTS
      /\ job[m].stalled \in 0..Queue!MAX_STALLED
  BY <1>1 DEF QueueInv, WorkerOK, Queue!NoMail, Queue!Mails, Queue!Job
<1>3. /\ sent[m] <= job[m].made + job[m].stalled + 1
      /\ job[m].made < MAX_ATTEMPTS
  BY <1>1, <1>2 DEF CopiesOK
<1>4. PICK j \in Queue!Job :
        /\ job' = [job EXCEPT ![m] = j]
        /\ \/ j.state = "completed" /\ sent[m] > 0
           \/ j.state = "failed" /\ j.made = MAX_ATTEMPTS /\ j.made = job[m].made + 1
              /\ j.stalled = job[m].stalled
           \/ j.state = "delayed" /\ j.made = job[m].made + 1 /\ j.made < MAX_ATTEMPTS
              /\ j.stalled = job[m].stalled
  <2>1. CASE Queue!Complete(m)
    <3> DEFINE j == Queue!Untried("completed", job[m].name, job[m].otp)
    <3>1. 0 \in 0..MAX_ATTEMPTS /\ 0 \in 0..Queue!MAX_STALLED
      BY AttemptsAssumption DEF Queue!MAX_STALLED
    <3>2. j \in Queue!Job /\ j.state = "completed"
      BY <1>1, <3>1 DEF Queue!Untried, Queue!Job, Queue!States
    <3>3. job' = [job EXCEPT ![m] = j] /\ sent[m] > 0
      BY <2>1 DEF Queue!Complete, Queue!Working, QueueInv, WorkerOK
    <3> QED BY <3>2, <3>3
  <2>2. CASE Queue!Reattempt(m)
    <3> DEFINE last == job[m].made + 1 = MAX_ATTEMPTS
               j == [state |-> IF last THEN "failed" ELSE "delayed", name |-> job[m].name,
                     otp |-> job[m].otp, made |-> job[m].made + 1,
                     stalled |-> job[m].stalled]
    <3>1. job' = [job EXCEPT ![m] = j]
      BY <1>1, <2>2 DEF Queue!Reattempt, Queue!LastAttempt, Queue!Turn
    <3>2. job[m].made + 1 \in 0..MAX_ATTEMPTS
      BY <1>2, <1>3, AttemptsAssumption
    <3>3. j \in Queue!Job
      BY <1>1, <1>2, <3>2 DEF Queue!Job, Queue!States
    <3>4. \/ j.state = "failed" /\ j.made = MAX_ATTEMPTS
          \/ j.state = "delayed" /\ j.made < MAX_ATTEMPTS
      BY <1>2, <1>3, AttemptsAssumption
    <3>5. j.made = job[m].made + 1 /\ j.stalled = job[m].stalled
      OBVIOUS
    <3> HIDE DEF j
    <3> QED BY <3>1, <3>3, <3>4, <3>5
  <2> QED BY <2>1, <2>2
<1>5. Queue!QueueTypeOK'
  BY <1>1, <1>4 DEF Queue!QueueTypeOK, Queue!Asleep, Queue!Worker
<1>6. Queue!NoMailLost'
  BY <1>1, <1>4 DEF QueueInv, Queue!NoMailLost, Queue!JobState
<1>7. WorkerOK'
  BY <1>1 DEF WorkerOK, Queue!Asleep
<1>8. WaitOK'
  BY <1>1, <1>2, <1>4 DEF QueueInv, WaitOK
<1>9. \A q \in Queue!Mails : CopiesOK(job'[q], sent'[q], q, worker')
  <2>1. CopiesOK(j, sent[m], m, worker')
    BY <1>2, <1>3, <1>4, AttemptsAssumption DEF CopiesOK, Queue!MAX_STALLED, Queue!Job
  <2>2. sent' = [sent EXCEPT ![m] = sent[m]] /\ worker'.mail = Queue!NoMail
    BY <1>1 DEF Queue!Asleep
  <2> QED BY <1>4, <2>1, <2>2, OtherCopies
<1> QED BY <1>5, <1>6, <1>7, <1>8, <1>9 DEF QueueInv

(* A job joins the list again, at either end, as it goes on to waiting.    *)
LEMMA WaitAgain ==
  ASSUME QueueInv, NEW m \in Queue!Mails, job[m].state # "waiting",
         NEW j \in Queue!Job, j.state = "waiting",
         job' = [job EXCEPT ![m] = j], wait' \in {Append(wait, m), <<m>> \o wait}
  PROVE  wait' \in Seq(Queue!Mails) /\ WaitOK'
<1>1. /\ job \in [Queue!Mails -> Queue!Job] /\ wait \in Seq(Queue!Mails)
      /\ \A i \in 1..Len(wait) : wait[i] \in Queue!Mails /\ wait[i] # m
  BY DEF QueueInv, Queue!QueueTypeOK, WaitOK
<1>2. CASE wait' = Append(wait, m)
  BY <1>1, <1>2, Back DEF QueueInv, WaitOK
<1>3. CASE wait' = <<m>> \o wait
  <2>1. /\ wait' \in Seq(Queue!Mails) /\ Len(wait) \in Nat
        /\ Len(wait') = Len(wait) + 1 /\ wait'[1] = m
        /\ \A i \in 1..Len(wait) : wait'[i + 1] = wait[i]
    BY <1>1, <1>3, Front
  <2>2. \A i \in 1..Len(wait') : i = 1 \/ (i - 1 \in 1..Len(wait) /\ wait'[i] = wait[i - 1])
    <3> TAKE i \in 1..Len(wait')
    <3>1. i = 1 \/ (i - 1 \in 1..Len(wait) /\ (i - 1) + 1 = i)
      BY <2>1
    <3>2. ASSUME i # 1 PROVE wait'[(i - 1) + 1] = wait[i - 1]
      BY <2>1, <3>1, <3>2
    <3> QED BY <3>1, <3>2
  <2>3. ASSUME NEW i \in 1..Len(wait') PROVE job'[wait'[i]].state = "waiting"
    <3>1. CASE i = 1
      BY <1>1, <2>1, <3>1
    <3>2. CASE i # 1
      <4> DEFINE h == i - 1
      <4>1. h \in 1..Len(wait) /\ wait'[i] = wait[h]
        BY <2>2, <3>2
      <4> HIDE DEF h
      <4>2. wait[h] \in Queue!Mails /\ wait[h] # m /\ job[wait[h]].state = "waiting"
        BY <1>1, <4>1 DEF QueueInv, WaitOK
      <4> QED BY <1>1, <4>1, <4>2
    <3> QED BY <3>1, <3>2
  <2>4. ASSUME NEW i \in 1..Len(wait'), NEW k \in 1..Len(wait'), wait'[i] = wait'[k]
        PROVE  i = k
    <3>1. CASE i = 1 \/ k = 1
      BY <1>1, <2>1, <2>2, <2>4, <3>1
    <3>2. CASE i # 1 /\ k # 1
      <4>1. i - 1 = k - 1
        BY <2>2, <2>4, <3>2 DEF QueueInv, WaitOK
      <4> QED BY <4>1, <2>1
    <3> QED BY <3>1, <3>2
  <2> QED BY <2>1, <2>3, <2>4 DEF WaitOK
<1> QED BY <1>2, <1>3

(* Its delay is over, or its worker was found dead.                        *)
LEMMA PromoteStep ==
  ASSUME QueueInv, NEW m \in Queue!Mails, Queue!Promote(m) \/ Queue!Stall(m)
  PROVE  QueueInv'
<1>1. /\ job \in [Queue!Mails -> Queue!Job] /\ wait \in Seq(Queue!Mails)
      /\ sent \in [Queue!Mails -> Nat] /\ worker \in Queue!Worker
      /\ worker' = worker /\ sent' = sent
      /\ job[m].state \in {"delayed", "active"} /\ worker.mail # m
  BY DEF QueueInv, Queue!QueueTypeOK, Queue!Promote, Queue!Stall, Queue!JobState,
         WorkerOK, Queue!NoMail, Queue!Mails
<1>2. /\ CopiesOK(job[m], sent[m], m, worker) /\ sent[m] \in Nat
      /\ job[m].made \in 0..MAX_ATTEMPTS /\ job[m].stalled \in 0..1
  BY <1>1 DEF QueueInv, Queue!Job, Queue!MAX_STALLED
<1>3. /\ job[m].state = "delayed" => sent[m] <= job[m].made + job[m].stalled
      /\ sent[m] <= job[m].made + job[m].stalled + 1
      /\ job[m].made < MAX_ATTEMPTS
  BY <1>1, <1>2, AttemptsAssumption DEF CopiesOK
<1>4. PICK j \in Queue!Job :
        /\ job' = [job EXCEPT ![m] = j]
        /\ j.made = job[m].made
        /\ \/ /\ j.state = "waiting" /\ wait' \in {Append(wait, m), <<m>> \o wait}
              /\ sent[m] <= j.made + j.stalled
           \/ /\ j.state = "failed" /\ wait' = wait /\ job[m].state = "active"
              /\ j.stalled = 1 /\ job[m].stalled = 1
  <2>1. CASE Queue!Promote(m)
    <3> DEFINE j == [job[m] EXCEPT !.state = "waiting"]
    <3>1. job' = [job EXCEPT ![m] = j] /\ job[m].state = "delayed"
          /\ wait' \in {Append(wait, m), <<m>> \o wait}
      BY <2>1 DEF Queue!Promote, Queue!JobState
    <3>2. j \in Queue!Job /\ j.state = "waiting" /\ j.made = job[m].made
          /\ j.stalled = job[m].stalled
      BY <1>1 DEF Queue!Job, Queue!States
    <3> HIDE DEF j
    <3> QED BY <1>3, <3>1, <3>2
  <2>2. CASE Queue!Stall(m) /\ job[m].stalled < 1
    <3> DEFINE j == [state |-> "waiting", name |-> job[m].name, otp |-> job[m].otp,
                     made |-> job[m].made, stalled |-> job[m].stalled + 1]
    <3>1. job' = [job EXCEPT ![m] = j] /\ wait' = <<m>> \o wait
      BY <2>2 DEF Queue!Stall, Queue!Turn, Queue!MAX_STALLED
    <3>2. job[m].stalled + 1 \in 0..1
      BY <1>2, <2>2
    <3>3. j \in Queue!Job
      BY <1>1, <3>2 DEF Queue!Job, Queue!States, Queue!MAX_STALLED
    <3>4. j.state = "waiting" /\ j.made = job[m].made /\ j.stalled = job[m].stalled + 1
      OBVIOUS
    <3> HIDE DEF j
    <3>5. sent[m] <= j.made + j.stalled
      BY <1>2, <1>3, <3>4
    <3> QED BY <3>1, <3>3, <3>4, <3>5
  <2>3. CASE Queue!Stall(m) /\ ~(job[m].stalled < 1)
    <3> DEFINE j == [job[m] EXCEPT !.state = "failed"]
    <3>1. job' = [job EXCEPT ![m] = j] /\ wait' = wait /\ job[m].state = "active"
      BY <2>3 DEF Queue!Stall, Queue!MAX_STALLED, Queue!JobState
    <3>2. j \in Queue!Job /\ j.state = "failed" /\ j.made = job[m].made
          /\ j.stalled = job[m].stalled
      BY <1>1 DEF Queue!Job, Queue!States
    <3>3. job[m].stalled = 1
      BY <1>2, <2>3
    <3> HIDE DEF j
    <3> QED BY <3>1, <3>2, <3>3
  <2> QED BY <2>1, <2>2, <2>3
<1>5. wait' \in Seq(Queue!Mails) /\ WaitOK'
  <2>1. CASE j.state = "waiting"
    BY <1>1, <1>4, <2>1, WaitAgain
  <2>2. CASE j.state = "failed"
    BY <1>1, <1>4, <2>2 DEF QueueInv, WaitOK
  <2> QED BY <1>4, <2>1, <2>2
<1>6. Queue!QueueTypeOK'
  BY <1>1, <1>4, <1>5 DEF Queue!QueueTypeOK
<1>7. Queue!NoMailLost'
  BY <1>1, <1>4 DEF QueueInv, Queue!NoMailLost, Queue!JobState, Queue!MAX_STALLED
<1>8. WorkerOK'
  BY <1>1, <1>4 DEF QueueInv, WorkerOK, Queue!Worker
<1>9. \A q \in Queue!Mails : CopiesOK(job'[q], sent'[q], q, worker')
  <2>1. CopiesOK(j, sent[m], m, worker')
    BY <1>1, <1>2, <1>3, <1>4, AttemptsAssumption DEF CopiesOK, Queue!MAX_STALLED, Queue!Job
  <2>2. sent' = [sent EXCEPT ![m] = sent[m]]
    BY <1>1
  <2> QED BY <1>1, <1>4, <2>1, <2>2, OtherCopies
<1> QED BY <1>5, <1>6, <1>7, <1>8, <1>9 DEF QueueInv

(* The process ends, and its worker with it.                               *)
LEMMA DieStep == QueueInv /\ Queue!Die => QueueInv'
<1> SUFFICES ASSUME QueueInv, Queue!Die PROVE QueueInv'
  OBVIOUS
<1>1. /\ job \in [Queue!Mails -> Queue!Job] /\ sent \in [Queue!Mails -> Nat]
      /\ worker' = Queue!Asleep /\ job' = job /\ wait' = wait /\ sent' = sent
  BY DEF QueueInv, Queue!QueueTypeOK, Queue!Die
<1>2. Queue!QueueTypeOK' /\ Queue!NoMailLost' /\ WorkerOK' /\ WaitOK'
  BY <1>1 DEF QueueInv, Queue!QueueTypeOK, Queue!NoMailLost, Queue!JobState,
              WorkerOK, WaitOK, Queue!Asleep, Queue!Worker
<1>3. ASSUME NEW q \in Queue!Mails PROVE CopiesOK(job'[q], sent'[q], q, worker')
  <2>1. CopiesOK(job[q], sent[q], q, worker) /\ sent[q] \in Nat
        /\ job[q].made \in Nat /\ job[q].stalled \in Nat
    BY <1>1, AttemptsAssumption DEF QueueInv, Queue!Job, Queue!MAX_STALLED
  <2> QED BY <1>1, <2>1 DEF CopiesOK, Queue!Asleep
<1> QED BY <1>2, <1>3 DEF QueueInv

LEMMA QueueStep == QueueInv /\ [Queue!QueueNext]_queueVars => QueueInv'
<1> SUFFICES ASSUME QueueInv, [Queue!QueueNext]_queueVars PROVE QueueInv'
  OBVIOUS
<1>1. CASE Queue!QueueNext
  BY <1>1, AddStep, TakeStep, SettleStep, DoneStep, PromoteStep, DieStep
     DEF Queue!QueueNext, Queue!Work
<1>2. CASE UNCHANGED queueVars
  BY <1>2 DEF queueVars, QueueInv, Queue!QueueTypeOK, Queue!NoMailLost, Queue!JobState,
              WorkerOK, WaitOK, CopiesOK
<1> QED BY <1>1, <1>2

-----------------------------------------------------------------------------
(* The codes *)

(* What holds of a request r that carries c, while the codes of iss were   *)
(* stored and the keys of al were set by a request that was alone          *)
SlotOK(r, c, iss, al) ==
  /\ r.pc \in {"idle", "resend", "forgot", "code"} => r.todo = {}
  /\ r.pc \in {"resend", "forgot", "code", "mail"} => c.mail \in Queue!Mails
  /\ r.pc = "mail" => SetKey("resetOtp") \in r.todo \/ c.otp \in iss
  /\ r.pc = "done" /\ c.mail # Queue!NoMail => SetKey("otp") \in r.todo \/ c.otp \in iss
  /\ r.pc = "unmailed" => c.mail = Queue!NoMail
  /\ \A k \in OtpKeys : SetKey(k) \in r.todo => k \notin al
  /\ r.pc = "resend" => "otp" \notin al

SlotsOK == \A p \in Slots : SlotOK(req[p], carry[p], issued, alone)

OtpsIssued == \A m \in Queue!Mails : job[m].state # "none" => job[m].otp \in issued

KeysOK ==
  \A k \in OtpKeys : /\ Stored(k) => code[k] \in issued
                     /\ k \in alone => Stored(k)

CodesTypeOK ==
  /\ asked \in 0..MaxMails
  /\ carry \in [Slots -> Carry]
  /\ code \in [OtpKeys -> Queue!Otps]
  /\ issued \subseteq Queue!Otps
  /\ alone \subseteq OtpKeys
  /\ cut = {}
  /\ req \in [Slots -> Request]
  /\ left \in [Keys -> Nat]

CodesInv == CodesTypeOK /\ KeysOK /\ SlotsOK /\ OtpsIssued

MailInv == QueueInv /\ Process!StartupTypeOK /\ CodesInv

LEMMA OtpStatements ==
  /\ OtpKeys \subseteq Keys /\ "cooldown" \in Keys /\ "attempts" \in Keys
  /\ \A k \in Keys : SetKey(k) \in Commands /\ DelKey(k) \in Commands
  /\ \A k, l \in Keys : SetKey(k) = SetKey(l) => k = l
  /\ \A k, l \in Keys : SetKey(k) # DelKey(l)
  /\ "cooldown" \notin OtpKeys /\ "otp" \in OtpKeys /\ "resetOtp" \in OtpKeys
  BY DEF OtpKeys, Keys, Counters, Commands, SetKey, DelKey

LEMMA NoCarryOK == NoCarry \in Carry /\ NoCarry.mail = Queue!NoMail
  BY MailsAssumption DEF NoCarry, Carry, Queue!NoMail, Queue!NoOtp, Queue!Otps

(* The queue does not change the code of a mail, and a new mail has one    *)
(* that was stored.                                                        *)
LEMMA OtpsStay ==
  ASSUME QueueInv, OtpsIssued, issued \subseteq issued', Queue!Work \/ Queue!Die
  PROVE  OtpsIssued'
<1>1. job \in [Queue!Mails -> Queue!Job] /\ wait \in Seq(Queue!Mails)
  BY DEF QueueInv, Queue!QueueTypeOK
<1>2. ASSUME NEW m \in Queue!Mails, NEW j, job' = [job EXCEPT ![m] = j],
             j.otp = job[m].otp, job[m].state # "none"
      PROVE  OtpsIssued'
  BY <1>1, <1>2 DEF OtpsIssued
<1>3. CASE UNCHANGED job
  BY <1>3 DEF OtpsIssued
<1>4. CASE Queue!Take
  <2> DEFINE m == Head(wait)
             j == [job[m] EXCEPT !.state = "active"]
  <2>1. m \in Queue!Mails /\ m = wait[1] /\ 1 \in 1..Len(wait) /\ job[m].state = "waiting"
    BY <1>1, <1>4, HeadTail DEF Queue!Take, QueueInv, WaitOK
  <2>2. job' = [job EXCEPT ![m] = j] /\ j.otp = job[m].otp
    BY <1>1, <1>4, <2>1 DEF Queue!Take, Queue!Job
  <2> HIDE DEF m, j
  <2> QED BY <1>2, <2>1, <2>2
<1>5. ASSUME NEW m \in Queue!Mails,
             Queue!Complete(m) \/ Queue!Reattempt(m) \/ Queue!Promote(m) \/ Queue!Stall(m)
      PROVE  OtpsIssued'
  <2>1. job[m].state # "none"
    BY <1>5 DEF QueueInv, WorkerOK, Queue!Complete, Queue!Reattempt, Queue!Working,
         Queue!Promote, Queue!Stall, Queue!JobState, Queue!NoMail, Queue!Mails
  <2>2. PICK j : job' = [job EXCEPT ![m] = j] /\ j.otp = job[m].otp
    <3>1. CASE Queue!Complete(m)
      <4> DEFINE j == Queue!Untried("completed", job[m].name, job[m].otp)
      <4>1. job' = [job EXCEPT ![m] = j] /\ j.otp = job[m].otp
        BY <3>1 DEF Queue!Complete, Queue!Untried
      <4> QED BY <4>1
    <3>2. CASE Queue!Reattempt(m)
      <4> DEFINE j == [state |-> IF Queue!LastAttempt(m) THEN "failed" ELSE "delayed",
                       name |-> job[m].name, otp |-> job[m].otp,
                       made |-> job[m].made + 1, stalled |-> job[m].stalled]
      <4>1. job' = [job EXCEPT ![m] = j] /\ j.otp = job[m].otp
        BY <3>2 DEF Queue!Reattempt, Queue!Turn
      <4> QED BY <4>1
    <3>3. CASE Queue!Promote(m)
      <4> DEFINE j == [job[m] EXCEPT !.state = "waiting"]
      <4>1. job' = [job EXCEPT ![m] = j] /\ j.otp = job[m].otp
        BY <1>1, <3>3 DEF Queue!Promote, Queue!Job
      <4> QED BY <4>1
    <3>4. CASE Queue!Stall(m) /\ job[m].stalled < Queue!MAX_STALLED
      BY <3>4 DEF Queue!Stall, Queue!Turn
    <3>5. CASE Queue!Stall(m) /\ ~(job[m].stalled < Queue!MAX_STALLED)
      BY <1>1, <3>5 DEF Queue!Stall, Queue!Job
    <3> QED BY <1>5, <3>1, <3>2, <3>3, <3>4, <3>5
  <2> QED BY <1>2, <2>1, <2>2
<1>6. ASSUME NEW m \in Queue!Mails,
             Queue!Deliver(m) \/ Queue!Refuse(m) \/ Queue!DeliverUnanswered(m) \/ Queue!Ignore(m)
      PROVE  OtpsIssued'
  BY <1>3, <1>6 DEF Queue!Deliver, Queue!Refuse, Queue!DeliverUnanswered, Queue!Ignore,
       Queue!Settle
<1> QED BY <1>3, <1>4, <1>5, <1>6 DEF Queue!Work, Queue!Die

LEMMA OtpsAdd ==
  ASSUME QueueInv, OtpsIssued, UNCHANGED issued, NEW m \in Queue!Mails, NEW name,
         NEW otp \in issued, Queue!Add(m, name, otp)
  PROVE  OtpsIssued'
<1>1. job \in [Queue!Mails -> Queue!Job]
  BY DEF QueueInv, Queue!QueueTypeOK
<1> QED BY <1>1 DEF OtpsIssued, Queue!Add, Queue!Untried

(* A step of one request, which stores no code                             *)
LEMMA RequestStep ==
  ASSUME CodesInv, NEW p \in Slots, NEW r \in Request, NEW c \in Carry,
         req' = [req EXCEPT ![p] = r], carry' = [carry EXCEPT ![p] = c],
         CodesRest, asked' \in 0..MaxMails,
         left' \in [Keys -> Nat], \A k \in OtpKeys : left'[k] = left[k],
         SlotOK(r, c, issued, alone), OtpsIssued'
  PROVE  CodesInv'
<1>1. CodesTypeOK' /\ KeysOK'
  BY DEF CodesInv, CodesTypeOK, KeysOK, CodesRest, Stored
<1>2. ASSUME NEW q \in Slots PROVE SlotOK(req'[q], carry'[q], issued', alone')
  BY DEF CodesInv, CodesTypeOK, SlotsOK, CodesRest
<1> QED BY <1>1, <1>2 DEF CodesInv, SlotsOK

LEMMA GotoRecord ==
  ASSUME NEW p \in Slots, NEW pc \in PCs, NEW todo \in SUBSET Commands, Goto(p, pc, todo)
  PROVE  \E r \in Request : req' = [req EXCEPT ![p] = r] /\ r.pc = pc /\ r.todo = todo
<1> DEFINE r == [Idle EXCEPT !.pc = pc, !.todo = todo]
<1>1. r \in Request /\ r.pc = pc /\ r.todo = todo
  BY DEF Idle, Request, Counters
<1>2. req' = [req EXCEPT ![p] = r]
  BY DEF Goto
<1> HIDE DEF r
<1> QED BY <1>1, <1>2

LEMMA EndRecord ==
  ASSUME NEW p \in Slots, End(p)
  PROVE  \E r \in Request : req' = [req EXCEPT ![p] = r] /\ r.pc = "idle" /\ r.todo = {}
<1>1. Idle \in Request /\ Idle.pc = "idle" /\ Idle.todo = {}
  BY DEF Idle, Request, Counters, PCs
<1>2. req' = [req EXCEPT ![p] = Idle]
  BY DEF End
<1> QED BY <1>1, <1>2

LEMMA DoneRecord ==
  ASSUME CodesInv, NEW p \in Slots, NEW s, Done(p, s)
  PROVE  \E r \in Request :
           req' = [req EXCEPT ![p] = r] /\ r.pc = req[p].pc /\ r.todo = req[p].todo \ {s}
<1> DEFINE r == [req[p] EXCEPT !.todo = @ \ {s}]
<1>1. req[p] \in Request
  BY DEF CodesInv, CodesTypeOK
<1>2. r \in Request /\ r.pc = req[p].pc /\ r.todo = req[p].todo \ {s}
  BY <1>1 DEF Request
<1>3. req' = [req EXCEPT ![p] = r]
  BY DEF Done
<1> HIDE DEF r
<1> QED BY <1>2, <1>3

LEMMA Drops ==
  ASSUME NEW p \in Slots, Drop(p)
  PROVE  \E c \in Carry : carry' = [carry EXCEPT ![p] = c] /\ c.mail = Queue!NoMail
  BY NoCarryOK DEF Drop

-----------------------------------------------------------------------------
(* The requests *)

(* A step that leaves the queue and the keys alone                         *)
Quiet == QueueRests /\ CodesRest /\ UNCHANGED <<asked, left>>

LEMMA QuietStep ==
  ASSUME CodesInv, Quiet, NEW p \in Slots, NEW r \in Request, NEW c \in Carry,
         req' = [req EXCEPT ![p] = r], carry' = [carry EXCEPT ![p] = c],
         SlotOK(r, c, issued, alone)
  PROVE  CodesInv'
<1>1. /\ asked' \in 0..MaxMails /\ left' \in [Keys -> Nat] /\ CodesRest
      /\ \A k \in OtpKeys : left'[k] = left[k]
  BY DEF Quiet, CodesInv, CodesTypeOK
<1>2. OtpsIssued'
  BY DEF Quiet, QueueRests, queueVars, CodesRest, CodesInv, OtpsIssued
<1> QED BY <1>1, <1>2, RequestStep

LEMMA AskStep ==
  ASSUME CodesInv, NEW p \in Slots, Ask(p)
  PROVE  CodesInv'
<1> DEFINE c == [mail |-> asked + 1, otp |-> asked + 1]
<1>1. PICK pc \in {"resend", "forgot"} :
        Goto(p, pc, {}) /\ (pc = "resend" => ~Stored("otp"))
  BY DEF Ask, ResendOtp, ForgotPassword, ForgotUnreadable, Start
<1>2. PICK r \in Request : req' = [req EXCEPT ![p] = r] /\ r.pc = pc /\ r.todo = {}
  BY <1>1, GotoRecord DEF PCs
<1>3. asked \in Nat /\ asked + 1 \in Queue!Mails /\ asked' \in 0..MaxMails
  BY MailsAssumption DEF Ask, CodesInv, CodesTypeOK, Queue!Mails
<1>4. c \in Carry /\ carry' = [carry EXCEPT ![p] = c] /\ c.mail \in Queue!Mails
  BY <1>3, MailsAssumption DEF Ask, Carry, Queue!Mails, Queue!Otps
<1>5. pc = "resend" => "otp" \notin alone
  BY <1>1, OtpStatements DEF CodesInv, KeysOK
<1> HIDE DEF c
<1>6. SlotOK(r, c, issued, alone)
  BY <1>2, <1>4, <1>5 DEF SlotOK
<1>7. left' = left /\ CodesRest
  BY DEF Ask, ResendOtp, ForgotPassword, ForgotUnreadable
<1>8. OtpsIssued'
  BY DEF Ask, QueueRests, queueVars, CodesRest, CodesInv, OtpsIssued
<1>9. left' \in [Keys -> Nat]
  BY <1>7 DEF CodesInv, CodesTypeOK
<1> QED BY <1>2, <1>3, <1>4, <1>6, <1>7, <1>8, <1>9, RequestStep

LEMMA ProceedStep ==
  ASSUME CodesInv, NEW p \in Slots, Proceed(p)
  PROVE  CodesInv'
<1>1. Quiet
  BY DEF Proceed, Quiet, ResendLookup, ForgotLookup
<1>2. /\ carry[p] \in Carry /\ SlotOK(req[p], carry[p], issued, alone)
      /\ req \in [Slots -> Request] /\ carry \in [Slots -> Carry]
  BY DEF CodesInv, CodesTypeOK, SlotsOK
<1>3. PICK r \in Request :
        /\ req' = [req EXCEPT ![p] = r]
        /\ \/ /\ r.pc = "done" /\ r.todo = {SetKey("otp"), DelKey("attempts")}
              /\ "otp" \notin alone
           \/ r.pc = "idle" /\ r.todo = {}
           \/ r.pc = "done" /\ r.todo = {SetKey("cooldown")}
           \/ r.pc = "code" /\ r.todo = {} /\ carry[p].mail \in Queue!Mails
  <2>1. {"done", "code"} \subseteq PCs
    BY DEF PCs
  <2>2. CASE ResendLookup(p) /\ status = "PENDING"
    <3>1. Goto(p, "done", {SetKey("otp"), DelKey("attempts")}) /\ "otp" \notin alone
      BY <1>2, <2>2 DEF ResendLookup, At, SlotOK
    <3>2. {SetKey("otp"), DelKey("attempts")} \in SUBSET Commands
      BY OtpStatements
    <3> QED BY <2>1, <3>1, <3>2, GotoRecord
  <2>3. CASE ResendLookup(p) /\ status # "PENDING"
    <3>1. End(p)
      BY <2>3 DEF ResendLookup
    <3> QED BY <3>1, EndRecord
  <2>4. CASE ForgotLookup(p) /\ NoAccount
    <3>1. Goto(p, "done", {SetKey("cooldown")}) /\ {SetKey("cooldown")} \in SUBSET Commands
      BY <2>4, OtpStatements DEF ForgotLookup
    <3> QED BY <2>1, <3>1, GotoRecord
  <2>5. CASE ForgotLookup(p) /\ ~NoAccount
    <3>1. Goto(p, "code", {}) /\ {} \in SUBSET Commands
      BY <2>5 DEF ForgotLookup
    <3>2. carry[p].mail \in Queue!Mails
      BY <1>2, <2>5 DEF ForgotLookup, At, SlotOK
    <3> QED BY <2>1, <3>1, <3>2, GotoRecord
  <2> QED BY <2>2, <2>3, <2>4, <2>5 DEF Proceed
<1>4. req'[p] = r /\ carry[p] \in Carry
  BY <1>2, <1>3
<1>5. \A k \in OtpKeys : SetKey(k) # SetKey("cooldown")
  BY OtpStatements
<1>6. CASE r.pc = "code" \/ SetKey("otp") \in r.todo
  <2>1. carry' = [carry EXCEPT ![p] = carry[p]]
    BY <1>2, <1>4, <1>6 DEF Proceed
  <2>2. \A k \in OtpKeys : SetKey(k) \in r.todo => k \notin alone
    BY <1>3, <1>5, OtpStatements
  <2>3. SlotOK(r, carry[p], issued, alone)
    BY <1>3, <1>5, <1>6, <2>2, OtpStatements DEF SlotOK
  <2> QED BY <1>1, <1>3, <1>4, <2>1, <2>3, QuietStep
<1>7. CASE ~(r.pc = "code" \/ SetKey("otp") \in r.todo)
  <2>1. PICK c \in Carry : carry' = [carry EXCEPT ![p] = c] /\ c.mail = Queue!NoMail
    BY <1>4, <1>7, Drops DEF Proceed
  <2>2. SlotOK(r, c, issued, alone)
    BY <1>3, <1>5, <1>7, <2>1, OtpStatements DEF SlotOK
  <2> QED BY <1>1, <1>3, <2>1, <2>2, QuietStep
<1> QED BY <1>6, <1>7

LEMMA ChooseStep ==
  ASSUME CodesInv, NEW p \in Slots, ChooseCode(p)
  PROVE  CodesInv'
<1> DEFINE todo == IF Stored("resetOtp") THEN {} ELSE {SetKey("resetOtp")}
           otp == IF Stored("resetOtp") THEN code["resetOtp"] ELSE carry[p].otp
           c == [mail |-> carry[p].mail, otp |-> otp]
<1>1. Quiet
  BY DEF ChooseCode, ForgotCode, Quiet
<1>2. /\ carry \in [Slots -> Carry] /\ SlotOK(req[p], carry[p], issued, alone)
      /\ req \in [Slots -> Request] /\ req[p].pc = "code"
      /\ code["resetOtp"] \in Queue!Otps
  BY OtpStatements DEF CodesInv, CodesTypeOK, SlotsOK, ChooseCode, ForgotCode, At
<1>3. Goto(p, "mail", todo) /\ todo \in SUBSET Commands /\ "mail" \in PCs
  BY OtpStatements DEF ChooseCode, ForgotCode, PCs
<1>4. PICK r \in Request : req' = [req EXCEPT ![p] = r] /\ r.pc = "mail" /\ r.todo = todo
  BY <1>3, GotoRecord
<1>5. SetKey("resetOtp") \in req'[p].todo <=> ~Stored("resetOtp")
  BY <1>2, <1>4
<1>6. carry' = [carry EXCEPT ![p] = c] /\ c \in Carry
  <2>1. /\ carry[p] \in Carry
        /\ carry' = [carry EXCEPT ![p].otp =
             IF SetKey("resetOtp") \in req'[p].todo THEN @ ELSE code["resetOtp"]]
    BY <1>2 DEF ChooseCode
  <2>2. carry' = [carry EXCEPT ![p].otp = otp]
    BY <1>2, <1>5, <2>1
  <2>3. otp \in Queue!Otps
    BY <1>2, <2>1 DEF Carry
  <2> HIDE DEF otp
  <2> QED BY <2>1, <2>2, <2>3 DEF Carry
<1>7. SlotOK(r, c, issued, alone)
  <2>1. Stored("resetOtp") => otp \in issued
    BY OtpStatements DEF CodesInv, KeysOK
  <2>2. ~Stored("resetOtp") => "resetOtp" \notin alone
    BY OtpStatements DEF CodesInv, KeysOK
  <2>3. c.mail \in Queue!Mails /\ c.otp = otp
    BY <1>2 DEF SlotOK
  <2>4. \A k \in OtpKeys : SetKey(k) \in r.todo => k \notin alone
    BY <1>4, <2>2, OtpStatements
  <2> HIDE DEF c, otp
  <2> QED BY <1>4, <2>1, <2>3, <2>4 DEF SlotOK
<1> HIDE DEF c
<1> QED BY <1>1, <1>4, <1>6, <1>7, QuietStep

(* A key that is set while its request is alone was set by no other.       *)
LEMMA StoreStep ==
  ASSUME CodesInv, NEW p \in Slots, StoreCode(p)
  PROVE  CodesInv'
<1>1. PICK k \in OtpKeys :
        /\ PerformSet(p, k) /\ QueueRests /\ UNCHANGED <<asked, carry>>
        /\ code' = [code EXCEPT ![k] = carry[p].otp]
        /\ issued' = issued \cup {carry[p].otp}
        /\ alone' = IF \A q \in Slots \ {p} : Free(q) THEN alone \cup {k} ELSE alone \ {k}
        /\ cut' = IF k \in alone THEN cut \cup {code[k]} ELSE cut
  BY DEF StoreCode
<1>2. /\ carry \in [Slots -> Carry] /\ req \in [Slots -> Request]
      /\ \A q \in Slots : SlotOK(req[q], carry[q], issued, alone)
      /\ left \in [Keys -> Nat] /\ code \in [OtpKeys -> Queue!Otps]
      /\ carry[p].otp \in Queue!Otps /\ k \in Keys /\ TTL[k] \in Nat \ {0}
  BY OtpStatements, TtlAssumption DEF CodesInv, CodesTypeOK, SlotsOK, Carry
<1>3. SetKey(k) \in req[p].todo /\ left' = [left EXCEPT ![k] = TTL[k]] /\ Done(p, SetKey(k))
  BY <1>1 DEF PerformSet
<1>4. PICK r \in Request :
        /\ req' = [req EXCEPT ![p] = r]
        /\ r.pc = req[p].pc /\ r.todo = req[p].todo \ {SetKey(k)}
  BY <1>3, DoneRecord
<1>5. k \notin alone /\ req[p].pc \notin {"idle", "resend", "forgot", "code"}
  BY <1>2, <1>3 DEF SlotOK
<1>6. CodesTypeOK'
  <2>1. left' \in [Keys -> Nat] /\ req' \in [Slots -> Request]
    BY <1>2, <1>3, <1>4
  <2>2. issued' \subseteq Queue!Otps /\ alone' \subseteq OtpKeys /\ cut' = {}
    BY <1>1, <1>2, <1>5 DEF CodesInv, CodesTypeOK
  <2>3. code' \in [OtpKeys -> Queue!Otps]
    BY <1>1, <1>2
  <2> QED BY <1>1, <2>1, <2>2, <2>3 DEF CodesInv, CodesTypeOK
<1>7. KeysOK'
  BY <1>1, <1>2, <1>3, OtpStatements DEF CodesInv, KeysOK, Stored
<1>8. SlotOK(req'[p], carry'[p], issued', alone')
  <2>1. \A l \in OtpKeys : SetKey(l) \in r.todo => l \notin alone'
    BY <1>1, <1>2, <1>4, OtpStatements DEF SlotOK
  <2>2. req'[p] = r /\ carry'[p] = carry[p]
    BY <1>1, <1>2, <1>4
  <2> QED BY <1>1, <1>2, <1>4, <1>5, <2>1, <2>2 DEF SlotOK
<1>9. ASSUME NEW q \in Slots, q # p PROVE SlotOK(req'[q], carry'[q], issued', alone')
  <2>1. req'[q] = req[q] /\ carry'[q] = carry[q] /\ SlotOK(req[q], carry[q], issued, alone)
    BY <1>1, <1>2, <1>4, <1>9
  <2>2. CASE alone' = alone \ {k}
    BY <1>1, <2>1, <2>2 DEF SlotOK
  <2>3. CASE alone' # alone \ {k}
    <3>1. req[q].pc = "idle" /\ req[q].todo = {}
      BY <1>1, <1>9, <2>1, <2>3 DEF Free, SlotOK
    <3> QED BY <2>1, <3>1 DEF SlotOK
  <2> QED BY <2>2, <2>3
<1>10. OtpsIssued'
  BY <1>1 DEF QueueRests, queueVars, CodesInv, OtpsIssued
<1> QED BY <1>6, <1>7, <1>8, <1>9, <1>10 DEF CodesInv, SlotsOK

LEMMA OtherStep ==
  ASSUME CodesInv, NEW p \in Slots, PerformOther(p)
  PROVE  CodesInv'
<1>1. PICK k \in Keys \ OtpKeys :
        \/ Done(p, SetKey(k)) /\ left' = [left EXCEPT ![k] = TTL[k]]
        \/ Done(p, DelKey(k)) /\ left' = [left EXCEPT ![k] = 0]
  BY DEF PerformOther, PerformSet, PerformDel
<1>0. PICK s : s \in {SetKey(k), DelKey(k)} /\ Done(p, s)
  BY <1>1
<1>2. PICK r \in Request :
        req' = [req EXCEPT ![p] = r] /\ r.pc = req[p].pc /\ r.todo = req[p].todo \ {s}
  BY <1>0, DoneRecord
<1>3. /\ carry \in [Slots -> Carry] /\ left \in [Keys -> Nat]
      /\ SlotOK(req[p], carry[p], issued, alone) /\ UNCHANGED codeVars
  BY DEF CodesInv, CodesTypeOK, SlotsOK, PerformOther
<1>4. \A l \in OtpKeys : SetKey(l) # s
  BY <1>0, OtpStatements
<1>5. SlotOK(r, carry[p], issued, alone)
  BY <1>2, <1>3, <1>4, OtpStatements DEF SlotOK
<1>6. left' \in [Keys -> Nat] /\ \A l \in OtpKeys : left'[l] = left[l]
  BY <1>1, <1>3, OtpStatements, TtlAssumption
<1>7. carry' = [carry EXCEPT ![p] = carry[p]] /\ CodesRest /\ asked' \in 0..MaxMails
  BY <1>3 DEF codeVars, CodesRest, CodesInv, CodesTypeOK
<1>8. OtpsIssued'
  BY <1>7 DEF PerformOther, QueueRests, queueVars, CodesRest, CodesInv, OtpsIssued
<1>9. carry[p] \in Carry
  BY <1>3
<1> QED BY <1>2, <1>5, <1>6, <1>7, <1>8, <1>9, RequestStep

(* A request that adds a mail has a number and a stored code for it.       *)
LEMMA MayMail ==
  ASSUME CodesInv, NEW p \in Slots,
         At(p, "mail") \/ At(p, "done") \/ At(p, "unmailed")
  PROVE  /\ carry[p].mail # Queue!NoMail =>
              carry[p].mail \in Queue!Mails /\ carry[p].otp \in issued \cap Queue!Otps
         /\ At(p, "mail") => carry[p].mail # Queue!NoMail
<1>1. carry[p] \in Carry /\ SlotOK(req[p], carry[p], issued, alone)
  BY DEF CodesInv, CodesTypeOK, SlotsOK
<1> QED BY <1>1 DEF At, SlotOK, Carry, Queue!NoMail, Queue!Mails

LEMMA MailStep ==
  ASSUME QueueInv, CodesInv, NEW p \in Slots, MailReset(p) \/ MailResetLost(p) \/ Return(p)
  PROVE  /\ CodesInv'
         /\ \/ UNCHANGED queueVars
            \/ \E m \in Queue!Mails, name \in Queue!Names, otp \in Queue!Otps :
                 Queue!Add(m, name, otp)
<1>1. At(p, "mail") \/ At(p, "done") \/ At(p, "unmailed")
  BY DEF MailReset, MailResetLost, Return, ForgotMail, ForgotMailLost, Finish
<1>2. /\ UNCHANGED <<left, asked>> /\ CodesRest /\ Drop(p)
  BY DEF MailReset, MailResetLost, Return, ForgotMail, ForgotMailLost, Finish
<1>3. \/ UNCHANGED queueVars
      \/ \E m \in Queue!Mails, name \in Queue!Names, otp \in issued \cap Queue!Otps :
           Queue!Add(m, name, otp)
  <2>1. {"send-otp", "send-reset-password"} \subseteq Queue!Names
    BY DEF Queue!Names
  <2>2. CASE MailReset(p)
    BY <1>1, <2>1, <2>2, MayMail DEF MailReset, ForgotMail
  <2>3. CASE MailResetLost(p)
    BY <2>3 DEF MailResetLost, QueueRests
  <2>4. CASE Return(p)
    BY <1>1, <2>1, <2>4, MayMail DEF Return, QueueRests
  <2> QED BY <2>2, <2>3, <2>4
<1>4. OtpsIssued'
  <2>1. UNCHANGED issued /\ OtpsIssued
    BY <1>2 DEF CodesRest, CodesInv
  <2>2. CASE UNCHANGED queueVars
    BY <2>1, <2>2 DEF queueVars, OtpsIssued
  <2> QED BY <1>3, <2>1, <2>2, OtpsAdd
<1>5. PICK c \in Carry : carry' = [carry EXCEPT ![p] = c] /\ c.mail = Queue!NoMail
  BY <1>2, Drops
<1>6. PICK r \in Request :
        /\ req' = [req EXCEPT ![p] = r]
        /\ \/ r.pc = "idle" /\ r.todo = {}
           \/ r.pc \in {"done", "unmailed"} /\ r.todo = {SetKey("cooldown")}
  <2>1. CASE MailReset(p) \/ MailResetLost(p)
    <3>1. PICK pc \in {"done", "unmailed"} : Goto(p, pc, {SetKey("cooldown")})
      BY <2>1 DEF MailReset, MailResetLost, ForgotMail, ForgotMailLost
    <3>2. {SetKey("cooldown")} \in SUBSET Commands /\ pc \in PCs
      BY OtpStatements DEF PCs
    <3> QED BY <3>1, <3>2, GotoRecord
  <2>2. CASE Return(p)
    BY <2>2, EndRecord DEF Return, Finish
  <2> QED BY <2>1, <2>2
<1>7. SlotOK(r, c, issued, alone)
  <2>1. \A k \in OtpKeys : SetKey(k) # SetKey("cooldown")
    BY OtpStatements
  <2> QED BY <1>5, <1>6, <2>1 DEF SlotOK
<1>8. /\ asked' \in 0..MaxMails /\ left' \in [Keys -> Nat]
      /\ \A k \in OtpKeys : left'[k] = left[k]
  BY <1>2 DEF CodesInv, CodesTypeOK
<1>9. CodesInv'
  BY <1>2, <1>4, <1>5, <1>6, <1>7, <1>8, RequestStep
<1> QED BY <1>3, <1>9

LEMMA ThrowStep ==
  ASSUME CodesInv, NEW p \in Slots, Throw(p)
  PROVE  CodesInv'
<1> DEFINE c == [mail |-> Queue!NoMail, otp |-> carry[p].otp]
<1>1. /\ carry \in [Slots -> Carry] /\ req \in [Slots -> Request]
      /\ SlotOK(req[p], carry[p], issued, alone)
  BY DEF CodesInv, CodesTypeOK, SlotsOK
<1>2. Quiet
  BY DEF Throw, Reject, Quiet
<1>3. PICK rest \in SUBSET req[p].todo : Goto(p, "done", rest)
  BY DEF Throw, Reject
<1>4. rest \in SUBSET Commands /\ "done" \in PCs
  BY <1>1 DEF Request, PCs
<1>5. PICK r \in Request : req' = [req EXCEPT ![p] = r] /\ r.pc = "done" /\ r.todo = rest
  BY <1>3, <1>4, GotoRecord
<1>6. carry' = [carry EXCEPT ![p] = c] /\ c \in Carry /\ c.mail = Queue!NoMail
  <2>1. carry[p] \in Carry /\ carry' = [carry EXCEPT ![p].mail = Queue!NoMail]
    BY <1>1 DEF Throw
  <2>2. c \in Carry /\ c = [carry[p] EXCEPT !.mail = Queue!NoMail]
    BY <2>1 DEF Carry
  <2>3. c.mail = Queue!NoMail
    OBVIOUS
  <2> HIDE DEF c
  <2> QED BY <2>1, <2>2, <2>3
<1> HIDE DEF c
<1>7. SlotOK(r, c, issued, alone)
  BY <1>1, <1>3, <1>5, <1>6 DEF SlotOK
<1> QED BY <1>2, <1>5, <1>6, <1>7, QuietStep

(* The process ends: every slot is free, and nothing is carried.           *)
LEMMA ExitStep ==
  ASSUME QueueInv, CodesInv, Exit
  PROVE  CodesInv'
<1>1. /\ req' = [p \in Slots |-> Idle] /\ carry' = [p \in Slots |-> NoCarry]
      /\ UNCHANGED <<left, asked>> /\ CodesRest /\ Queue!Die
  BY DEF Exit, Crash
<1>2. Idle \in Request /\ Idle.pc = "idle" /\ Idle.todo = {}
  BY DEF Idle, Request, PCs, Counters
<1>3. CodesTypeOK' /\ KeysOK'
  BY <1>1, <1>2, NoCarryOK DEF CodesInv, CodesTypeOK, KeysOK, CodesRest, Stored
<1>4. ASSUME NEW p \in Slots PROVE SlotOK(req'[p], carry'[p], issued', alone')
  <2>1. req'[p].pc = "idle" /\ req'[p].todo = {}
    BY <1>1, <1>2
  <2> QED BY <2>1 DEF SlotOK
<1>5. OtpsIssued'
  BY <1>1, OtpsStay DEF CodesInv, CodesRest
<1> QED BY <1>3, <1>4, <1>5 DEF CodesInv, SlotsOK

LEMMA PassStep ==
  ASSUME CodesInv, Pass
  PROVE  CodesInv'
<1>1. /\ left' = [k \in Keys |-> NextLeft(k)]
      /\ alone' = {k \in alone : left'[k] > 0}
      /\ code' = [k \in OtpKeys |-> IF left'[k] > 0 THEN code[k] ELSE Queue!NoOtp]
      /\ UNCHANGED <<req, asked, carry, issued, cut, job>>
  BY DEF Pass, Tick, QueueRests, queueVars
<1>2. /\ left \in [Keys -> Nat] /\ code \in [OtpKeys -> Queue!Otps]
      /\ alone \subseteq OtpKeys /\ OtpKeys \subseteq Keys
  BY OtpStatements DEF CodesInv, CodesTypeOK
<1>3. \A k \in Keys : NextLeft(k) \in Nat /\ (NextLeft(k) > 0 => left[k] > 0)
  BY <1>2 DEF NextLeft, Dec
<1>4. CodesTypeOK'
  <2>1. Queue!NoOtp \in Queue!Otps
    BY MailsAssumption DEF Queue!NoOtp, Queue!Otps
  <2>2. code' \in [OtpKeys -> Queue!Otps] /\ left' \in [Keys -> Nat] /\ alone' \subseteq OtpKeys
    BY <1>1, <1>2, <1>3, <2>1
  <2> QED BY <1>1, <2>2 DEF CodesInv, CodesTypeOK
<1>5. KeysOK'
  BY <1>1, <1>2, <1>3 DEF CodesInv, KeysOK, Stored
<1>6. SlotsOK' /\ OtpsIssued'
  BY <1>1 DEF CodesInv, SlotsOK, SlotOK, OtpsIssued
<1> QED BY <1>4, <1>5, <1>6 DEF CodesInv

(* Nothing happened to the requests or the codes.                          *)
LEMMA CodesStay ==
  ASSUME CodesInv, UNCHANGED <<accountVars, codeVars>>, OtpsIssued'
  PROVE  CodesInv'
<1>1. UNCHANGED <<req, left, asked, carry, code, issued, alone, cut>>
  BY DEF accountVars, vars, codeVars
<1> QED BY <1>1 DEF CodesInv, CodesTypeOK, KeysOK, Stored, SlotsOK, SlotOK

-----------------------------------------------------------------------------
(* The invariant *)

LEMMA MailStart == MailInit => MailInv
<1> SUFFICES ASSUME MailInit PROVE MailInv
  OBVIOUS
<1>1. QueueInv
  BY QueueStart DEF MailInit
<1>2. Process!StartupTypeOK
  BY RetriesAssumption DEF MailInit, Process!StartupInit, Process!StartupTypeOK, Process!Phases
<1>3. Idle \in Request /\ Idle.pc = "idle" /\ Idle.todo = {}
  BY DEF Idle, Request, PCs, Counters
<1>4. CodesTypeOK /\ KeysOK
  <2>1. Queue!NoOtp \in Queue!Otps
    BY MailsAssumption DEF Queue!NoOtp, Queue!Otps
  <2> QED BY <1>3, <2>1, NoCarryOK, OtpStatements, MailsAssumption
          DEF MailInit, Fresh, CodesTypeOK, KeysOK, Stored
<1>5. SlotsOK
  BY <1>3 DEF MailInit, Fresh, SlotsOK, SlotOK
<1>6. OtpsIssued
  BY DEF MailInit, Queue!QueueInit, Queue!NoJob, Queue!Untried, OtpsIssued
<1> QED BY <1>1, <1>2, <1>4, <1>5, <1>6 DEF MailInv, CodesInv

(* What the queue sees of each step                                        *)
LEMMA QueueView ==
  MailInv /\ [MailNext]_mailVars => [Queue!QueueNext]_queueVars
<1> SUFFICES ASSUME MailInv, MailNext, ~UNCHANGED queueVars PROVE Queue!QueueNext
  BY DEF mailVars
<1>1. ASSUME NEW p \in Slots, MailReset(p) \/ MailResetLost(p) \/ Return(p)
      PROVE  Queue!QueueNext
  BY <1>1, MailStep DEF MailInv, Queue!QueueNext
<1>2. CASE Work
  BY <1>2 DEF Work, Queue!QueueNext
<1>3. CASE Exit
  BY <1>3 DEF Exit, Queue!QueueNext
<1> QED BY <1>1, <1>2, <1>3
        DEF MailNext, Ask, Proceed, ChooseCode, StoreCode, PerformOther, Throw,
            Boot, Connect, HealthCheck, StartUpFails, OnlyProcess, Pass, QueueRests

LEMMA StartupView ==
  ASSUME Process!StartupTypeOK, [MailNext]_mailVars
  PROVE  Process!StartupTypeOK'
<1>1. CASE UNCHANGED <<phase, attempt>>
  BY <1>1 DEF Process!StartupTypeOK
<1>2. CASE Process!Boot \/ Process!Connect \/ Process!ConnectFails \/ Process!HealthCheck
             \/ Process!HealthCheckFails \/ Process!Exit
  BY <1>2, RetriesAssumption
     DEF Process!StartupTypeOK, Process!Phases, Process!Boot, Process!Connect,
         Process!ConnectFails, Process!HealthCheck, Process!HealthCheckFails, Process!Exit
<1> QED BY <1>1, <1>2
        DEF MailNext, mailVars, Ask, Proceed, ChooseCode, StoreCode, PerformOther,
            MailReset, MailResetLost, Return, Throw, Running, Work,
            Boot, Connect, HealthCheck, StartUpFails, Exit, Pass

LEMMA CodesStep ==
  ASSUME MailInv, [MailNext]_mailVars
  PROVE  CodesInv'
<1> USE DEF MailInv
<1>1. ASSUME NEW p \in Slots,
             Ask(p) \/ Proceed(p) \/ ChooseCode(p) \/ StoreCode(p) \/ PerformOther(p)
               \/ MailReset(p) \/ MailResetLost(p) \/ Return(p) \/ Throw(p)
      PROVE  CodesInv'
  BY <1>1, AskStep, ProceedStep, ChooseStep, StoreStep, OtherStep, MailStep, ThrowStep
<1>2. CASE Work
  <2>1. UNCHANGED <<accountVars, codeVars>> /\ Queue!Work
    BY <1>2 DEF Work
  <2>2. OtpsIssued'
    BY <2>1, OtpsStay DEF CodesInv, codeVars
  <2> QED BY <2>1, <2>2, CodesStay
<1>3. CASE UNCHANGED <<accountVars, queueVars, codeVars>>
  <2>1. OtpsIssued'
    BY <1>3 DEF queueVars, codeVars, CodesInv, OtpsIssued
  <2> QED BY <1>3, <2>1, CodesStay
<1>4. CASE Exit
  BY <1>4, ExitStep
<1>5. CASE Pass
  BY <1>5, PassStep
<1> QED BY <1>1, <1>2, <1>3, <1>4, <1>5
        DEF MailNext, mailVars, Boot, Connect, HealthCheck, StartUpFails, OnlyProcess,
            QueueRests

LEMMA MailInvariance == MailSpec => []MailInv
<1>1. MailInv /\ [MailNext]_mailVars => MailInv'
  BY QueueView, QueueStep, StartupView, CodesStep DEF MailInv
<1> QED BY <1>1, MailStart, PTL DEF MailSpec

-----------------------------------------------------------------------------
(* Jobs, codes and the process keep their shape.                           *)
THEOREM MailTypeCorrect == MailSpec => []MailTypeOK
<1>1. MailInv => MailTypeOK
  BY DEF MailInv, QueueInv, CodesInv, CodesTypeOK, MailTypeOK
<1> QED BY <1>1, MailInvariance, PTL

(* A mail that left the queue was sent, or its attempts were used up: the  *)
(* worker rethrows what sendMailHelper caught (mail.processor.ts:105-111). *)
THEOREM NoMailIsLost == MailSpec => []NoMailLost
<1>1. MailInv => NoMailLost
  BY DEF MailInv, QueueInv, NoMailLost
<1> QED BY <1>1, MailInvariance, PTL

(* The same mail goes out once for each attempt that was rejected and once *)
(* for a worker that died, whatever fails (mail.service.ts:23-28, 43-48).  *)
THEOREM CopiesAreBounded == MailSpec => []BoundedCopies
<1>1. MailInv => BoundedCopies
  <2> SUFFICES ASSUME MailInv, NEW m \in Queue!Mails
               PROVE  /\ Queue!JobState(m) # "completed" =>
                           sent[m] <= 1 + job[m].made + job[m].stalled
                      /\ sent[m] <= MAX_ATTEMPTS + Queue!MAX_STALLED
    BY DEF BoundedCopies, Queue!BoundedCopies
  <2>1. /\ CopiesOK(job[m], sent[m], m, worker) /\ sent[m] \in Nat
        /\ job[m].state \in Queue!States /\ job[m].made \in 0..MAX_ATTEMPTS
        /\ job[m].stalled \in 0..Queue!MAX_STALLED
    BY DEF MailInv, QueueInv, Queue!QueueTypeOK, Queue!Job
  <2> QED BY <2>1, AttemptsAssumption
          DEF CopiesOK, Queue!JobState, Queue!States, Queue!MAX_STALLED
<1> QED BY <1>1, MailInvariance, PTL

(* A mailed code was stored, and only a request that overlaps another of   *)
(* its address replaces it before its time (auth.service.ts:735-744).      *)
THEOREM MailedCodesWork == MailSpec => []MailedCodeWorks
<1>1. MailInv => MailedCodeWorks
  BY DEF MailInv, QueueInv, CodesInv, CodesTypeOK, OtpsIssued, MailedCodeWorks,
     CopiesOK
<1> QED BY <1>1, MailInvariance, PTL

-----------------------------------------------------------------------------
(* The promise *)

(* The states of a job that is neither new nor given up *)
Live == {"waiting", "active", "delayed", "completed"}

Fates == [m \in Queue!Mails |-> Queue!Fate(m)]

(* What a step may do to the job of a mail m and its count, so that its    *)
(* fate takes a step of the promise, if any                                *)
LEMMA FateStep ==
  ASSUME QueueInv, NEW m \in Queue!Mails, NEW j, NEW n,
         job' = [job EXCEPT ![m] = j], sent' = [sent EXCEPT ![m] = n],
         \/ /\ job[m].state = "none" /\ j.state = "waiting" /\ n = sent[m] /\ n = 0
         \/ /\ job[m].state \in Live /\ j.state \in Live
            /\ n = sent[m] \/ n = sent[m] + 1
         \/ /\ job[m].state \in Live /\ j.state = "failed" /\ n = sent[m]
  PROVE  [Queue!Promise!Next]_Fates
<1>1. /\ job \in [Queue!Mails -> Queue!Job] /\ sent \in [Queue!Mails -> Nat]
      /\ sent[m] \in Nat
  BY DEF QueueInv, Queue!QueueTypeOK
<1>2. \/ Queue!Fate(m)' = Queue!Fate(m)
      \/ Queue!Fate(m) = "none" /\ Queue!Fate(m)' = "accepted"
      \/ Queue!Fate(m) = "accepted" /\ Queue!Fate(m)' \in {"delivered", "failed"}
  <2>1. job'[m] = j /\ sent'[m] = n
    BY <1>1
  <2> QED BY <1>1, <2>1 DEF Queue!Fate, Queue!JobState, Live
<1>3. ASSUME NEW q \in Queue!Mails, q # m PROVE Queue!Fate(q)' = Queue!Fate(q)
  <2>1. job'[q] = job[q] /\ sent'[q] = sent[q]
    BY <1>1, <1>3
  <2> QED BY <2>1 DEF Queue!Fate, Queue!JobState
<1>4. Fates' = [Fates EXCEPT ![m] = Queue!Fate(m)']
  BY <1>3 DEF Fates
<1>5. Fates[m] = Queue!Fate(m)
  BY DEF Fates
<1>6. CASE Queue!Fate(m)' = Queue!Fate(m)
  BY <1>4, <1>5, <1>6 DEF Fates
<1>7. CASE Queue!Fate(m)' # Queue!Fate(m)
  <2>1. Queue!Promise!Accept(m) \/ Queue!Promise!Deliver(m) \/ Queue!Promise!GiveUp(m)
    BY <1>2, <1>4, <1>5, <1>7
       DEF Fates, Queue!Promise!Accept, Queue!Promise!Deliver, Queue!Promise!GiveUp
  <2>2. m \in Queue!Promise!Mails
    BY DEF Queue!Mails, Queue!Promise!Mails
  <2> QED BY <2>1, <2>2 DEF Queue!Promise!Next
<1> QED BY <1>6, <1>7

LEMMA PromiseStep ==
  QueueInv /\ [Queue!QueueNext]_queueVars => [Queue!Promise!Next]_Fates
<1> SUFFICES ASSUME QueueInv, [Queue!QueueNext]_queueVars
             PROVE  [Queue!Promise!Next]_Fates
  OBVIOUS
<1>1. /\ job \in [Queue!Mails -> Queue!Job] /\ sent \in [Queue!Mails -> Nat]
      /\ wait \in Seq(Queue!Mails)
  BY DEF QueueInv, Queue!QueueTypeOK
<1>2. \A m \in Queue!Mails : sent = [sent EXCEPT ![m] = sent[m]]
                           /\ job = [job EXCEPT ![m] = job[m]]
  BY <1>1
<1>3. CASE UNCHANGED <<job, sent>>
  BY <1>3 DEF Fates, Queue!Fate, Queue!JobState
<1>4. ASSUME NEW m \in Queue!Mails, NEW name, NEW otp, Queue!Add(m, name, otp)
      PROVE  [Queue!Promise!Next]_Fates
  <2> DEFINE j == Queue!Untried("waiting", name, otp)
  <2>1. job' = [job EXCEPT ![m] = j] /\ sent' = [sent EXCEPT ![m] = sent[m]]
    BY <1>2, <1>4 DEF Queue!Add
  <2>2. j.state = "waiting"
    BY DEF Queue!Untried
  <2>3. job[m].state = "none" /\ sent[m] = 0
    BY <1>4 DEF Queue!Add, Queue!JobState, QueueInv, CopiesOK
  <2> HIDE DEF j
  <2> QED BY <2>1, <2>2, <2>3, FateStep
<1>5. CASE Queue!Take
  <2> DEFINE m == Head(wait)
             j == [job[m] EXCEPT !.state = "active"]
  <2>1. m \in Queue!Mails /\ m = wait[1] /\ 1 \in 1..Len(wait) /\ job[m].state = "waiting"
    BY <1>1, <1>5, HeadTail DEF Queue!Take, QueueInv, WaitOK
  <2>2. job' = [job EXCEPT ![m] = j] /\ j.state = "active"
    BY <1>1, <1>5, <2>1 DEF Queue!Take, Queue!Job
  <2>3. sent' = [sent EXCEPT ![m] = sent[m]]
    BY <1>2, <1>5, <2>1 DEF Queue!Take
  <2> HIDE DEF m, j
  <2> QED BY <2>1, <2>2, <2>3, FateStep DEF Live
<1>6. ASSUME NEW m \in Queue!Mails,
             Queue!Deliver(m) \/ Queue!Refuse(m) \/ Queue!DeliverUnanswered(m) \/ Queue!Ignore(m)
      PROVE  [Queue!Promise!Next]_Fates
  <2>1. job' = [job EXCEPT ![m] = job[m]] /\ job[m].state = "active"
    BY <1>2, <1>6
       DEF Queue!Deliver, Queue!Refuse, Queue!DeliverUnanswered, Queue!Ignore, Queue!Settle,
           Queue!Working, QueueInv, WorkerOK, Queue!NoMail, Queue!Mails
  <2>2. PICK n \in {sent[m], sent[m] + 1} : sent' = [sent EXCEPT ![m] = n]
    BY <1>2, <1>6 DEF Queue!Deliver, Queue!Refuse, Queue!DeliverUnanswered, Queue!Ignore
  <2> QED BY <2>1, <2>2, FateStep DEF Live
<1>7. ASSUME NEW m \in Queue!Mails,
             Queue!Complete(m) \/ Queue!Reattempt(m) \/ Queue!Promote(m) \/ Queue!Stall(m)
      PROVE  [Queue!Promise!Next]_Fates
  <2>1. sent' = [sent EXCEPT ![m] = sent[m]] /\ job[m].state \in Live
    BY <1>2, <1>7 DEF Queue!Complete, Queue!Reattempt, Queue!Promote, Queue!Stall, Live,
       Queue!Working, Queue!JobState, QueueInv, WorkerOK, Queue!NoMail, Queue!Mails
  <2>2. PICK j : job' = [job EXCEPT ![m] = j] /\ j.state \in Live \cup {"failed"}
    <3>1. CASE Queue!Complete(m)
      <4> DEFINE j == Queue!Untried("completed", job[m].name, job[m].otp)
      <4>1. job' = [job EXCEPT ![m] = j] /\ j.state \in Live
        BY <3>1 DEF Queue!Complete, Queue!Untried, Live
      <4> QED BY <4>1
    <3>2. CASE Queue!Reattempt(m)
      <4> DEFINE s == IF Queue!LastAttempt(m) THEN "failed" ELSE "delayed"
                 j == [state |-> s, name |-> job[m].name, otp |-> job[m].otp,
                       made |-> job[m].made + 1, stalled |-> job[m].stalled]
      <4>1. job' = [job EXCEPT ![m] = j] /\ j.state \in Live \cup {"failed"}
        BY <3>2 DEF Queue!Reattempt, Queue!Turn, Live
      <4> QED BY <4>1
    <3>3. CASE Queue!Promote(m)
      <4> DEFINE j == [job[m] EXCEPT !.state = "waiting"]
      <4>1. job' = [job EXCEPT ![m] = j] /\ j.state \in Live
        BY <1>1, <3>3 DEF Queue!Promote, Queue!Job, Live
      <4> QED BY <4>1
    <3>4. CASE Queue!Stall(m) /\ job[m].stalled < Queue!MAX_STALLED
      <4> DEFINE j == [state |-> "waiting", name |-> job[m].name, otp |-> job[m].otp,
                       made |-> job[m].made, stalled |-> job[m].stalled + 1]
      <4>1. job' = [job EXCEPT ![m] = j] /\ j.state \in Live
        BY <3>4 DEF Queue!Stall, Queue!Turn, Live
      <4> QED BY <4>1
    <3>5. CASE Queue!Stall(m) /\ ~(job[m].stalled < Queue!MAX_STALLED)
      <4> DEFINE j == [job[m] EXCEPT !.state = "failed"]
      <4>1. job' = [job EXCEPT ![m] = j] /\ j.state = "failed"
        BY <1>1, <3>5 DEF Queue!Stall, Queue!Job
      <4> QED BY <4>1
    <3> QED BY <1>7, <3>1, <3>2, <3>3, <3>4, <3>5
  <2> QED BY <2>1, <2>2, FateStep
<1>8. CASE Queue!QueueNext
  BY <1>3, <1>4, <1>5, <1>6, <1>7, <1>8 DEF Queue!QueueNext, Queue!Work, Queue!Die
<1> QED BY <1>3, <1>8 DEF queueVars

(* The queue, worked by a process that ends and starts again, keeps the    *)
(* promise of MailPromise: what was given up is never sent.                *)
THEOREM PromiseCorrect == MailSpec => PromiseSpec
<1>1. MailInit => Queue!Promise!Init
  BY DEF MailInit, Queue!QueueInit, Queue!NoJob, Queue!Untried, Queue!Promise!Init,
         Queue!Promise!Mails, Queue!Mails, Queue!Fate, Queue!JobState
<1>2. MailInv /\ [MailNext]_mailVars => [Queue!Promise!Next]_Fates
  BY QueueView, PromiseStep DEF MailInv
<1> QED BY <1>1, <1>2, MailInvariance, PTL
        DEF MailSpec, PromiseSpec, Queue!PromiseSpec, Queue!Promise!Spec, Fates
=============================================================================

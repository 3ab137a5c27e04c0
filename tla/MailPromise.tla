----------------------------- MODULE MailPromise -----------------------------
(***************************************************************************)
(* What the mail queue promises the handlers: a mail, once accepted, is    *)
(* delivered or, after all attempts, given up, and that verdict is final.  *)
(***************************************************************************)
EXTENDS Naturals

CONSTANT MaxMails

VARIABLE fate

Mails == 1..MaxMails

Init == fate = [m \in Mails |-> "none"]

Accept(m) == fate[m] = "none" /\ fate' = [fate EXCEPT ![m] = "accepted"]
Deliver(m) == fate[m] = "accepted" /\ fate' = [fate EXCEPT ![m] = "delivered"]
GiveUp(m) == fate[m] = "accepted" /\ fate' = [fate EXCEPT ![m] = "failed"]

Next == \E m \in Mails : Accept(m) \/ Deliver(m) \/ GiveUp(m)

Spec == Init /\ [][Next]_fate
=============================================================================

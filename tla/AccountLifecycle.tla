-------------------------- MODULE AccountLifecycle --------------------------
(***************************************************************************)
(* What the endpoints that register, verify and link an account promise of *)
(* one e-mail address, whatever Redis forgets and however requests overlap: *)
(* it gets one account, which never disappears and never falls back to     *)
(* PENDING, and which is ACTIVE only once somebody has proved to own the   *)
(* address, by its OTP or through Google.                                  *)
(***************************************************************************)
VARIABLES
  status,  \* "NONE" before there is an account, then "PENDING" or "ACTIVE"
  proved   \* whether the ownership of the address has been proved

Init == status = "NONE" /\ proved = FALSE

Open ==
  /\ status = "NONE"
  /\ \/ status' = "PENDING" /\ proved' = FALSE
     \/ status' = "ACTIVE" /\ proved' = TRUE

Prove == status # "NONE" /\ proved' = TRUE /\ UNCHANGED status

Activate == status # "NONE" /\ proved' = TRUE /\ status' = "ACTIVE"

Next == Open \/ Prove \/ Activate

Spec == Init /\ [][Next]_<<status, proved>>
=============================================================================

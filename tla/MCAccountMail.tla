--------------------------- MODULE MCAccountMail ---------------------------
(* A small instance of AccountMail for TLC. *)
EXTENDS AccountMail

CONSTANTS p1, p2

Concurrent == {p1, p2}

(* One tick for each key: a reset OTP outlives the cooldown that is to     *)
(* protect it when the cooldown is not stored or cannot be read.           *)
Lifetimes == [k \in Keys |-> 1]
=============================================================================

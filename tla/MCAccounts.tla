----------------------------- MODULE MCAccounts -----------------------------
(* Small instances of Accounts for TLC. *)
EXTENDS Accounts, TLC

CONSTANTS p1, p2

Serial == {p1}
Concurrent == {p1, p2}

(* In the order of the real lifetimes: 60 s, 5, 10 and 15 minutes *)
Lifetimes ==
  [k \in Keys |-> IF k = "attempts" THEN 2 ELSE 1]

Symmetry == Permutations(Slots)
=============================================================================

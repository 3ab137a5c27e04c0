----------------------------- MODULE MCSessions -----------------------------
(* Small instances of Sessions for TLC. *)
EXTENDS Sessions, TLC

CONSTANTS u1, u2, b1, j1, j2, j3, p1, p2

OneUser == {u1}
TwoUsers == {u1, u2}
OneBrowser == {b1}
OneSession == {j1}
TwoSessions == {j1, j2}
ThreeSessions == {j1, j2, j3}
Serial == {p1}
Concurrent == {p1, p2}

(* The model never compares two members of one of these sets.              *)
Symmetry == Permutations(Users) \cup Permutations(Browsers)
              \cup Permutations(Jtis) \cup Permutations(Slots)

(* The endpoints of an instance *)
PasswordOps == AllOps \ {"google"}
ConcurrentOps == {"password", "refresh", "others"}
PasswordLogin == {"password"}
PasswordReset == {"password", "reset"}
LoginOps == {"password", "google", "refresh"}
LogoutOps == {"password", "refresh", "logout"}
=============================================================================

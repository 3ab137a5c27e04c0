---------------------------- MODULE MCRbacPaths ----------------------------
(* A small instance of RbacPaths for TLC. *)
EXTENDS RbacPaths

CONSTANTS r1, r2, c1, c2, x1, p1, p2

TwoRoles == {r1, r2}
TwoCodes == {c1, c2}
OneRole == {r1}
OnePermission == {x1}
Concurrent == {p1, p2}

(* A seeded permission, and one an administrator may add for all that is   *)
(* named by an id *)
TwoRoutes == {On("GET", <<"roles">>), On("GET", <<":module", ":id">>)}

AllWords ==
  {"permissions", "roles", "auth", "mail", "verify-email", "resend-otp",
   "logout-others", "test-mail", "7"}
AllParams == {":id", ":module"}
Numbers == {"7"}
=============================================================================

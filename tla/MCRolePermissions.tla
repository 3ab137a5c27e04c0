------------------------- MODULE MCRolePermissions -------------------------
(* A small instance of RolePermissions for TLC. *)
EXTENDS RolePermissions, TLC

CONSTANTS r1, c1, x1, x2, v1, v2, p1

OneRole == {r1}
OneCode == {c1}
TwoPermissions == {x1, x2}
TwoRoutes == {v1, v2}
Serial == {p1}

Symmetry == Permutations(Permissions) \cup Permutations(Routes)

RemovalOps == {"removePermission"}
=============================================================================

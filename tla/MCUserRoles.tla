------------------------------ MODULE MCUserRoles -----------------------------
(* The instances of UserRoles that TLC checks.                             *)
EXTENDS UserRoles, TLC

Interchangeable == Permutations(Users \ {DefaultUser}) \cup Permutations(Requests)
=============================================================================

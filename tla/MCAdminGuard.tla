---------------------------- MODULE MCAdminGuard ----------------------------
(* A small instance of AdminGuard for TLC. *)
EXTENDS AdminGuard, TLC

CONSTANTS a1, a2, m1, r1, r2, r3, b1, b2

NoneOrTwo == {{}, {a1, a2}}
Interchangeable == Permutations({a1, a2}) \cup Permutations(Requests) \cup Permutations(Boots)
=============================================================================

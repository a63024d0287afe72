------------------------- MODULE MCProviderSettings -------------------------
(* A small instance of ProviderSettings for TLC. *)
EXTENDS ProviderSettings, TLC

CONSTANTS r1, r2, r3, r4, u1, u2, m1, m2, t1, t2

\* Requests, and the values they carry, are interchangeable.
Interchangeable ==
    Permutations(Changes) \cup Permutations(Urls) \cup Permutations(Models) \cup Permutations(Timeouts)
=============================================================================

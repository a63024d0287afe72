--------------------------- MODULE MCTaskDocument ---------------------------
(* Small instances of TaskDocument for TLC. *)
EXTENDS TaskDocument, TLC

CONSTANTS r1, r2, r3, v1, v2, v3

Interchangeable == Permutations(Requests) \cup Permutations(Versions)
=============================================================================

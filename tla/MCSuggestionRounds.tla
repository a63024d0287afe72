------------------------- MODULE MCSuggestionRounds -------------------------
(* Small instances of SuggestionRounds for TLC. *)
EXTENDS SuggestionRounds, TLC

CONSTANTS k1, k2, k3, s1, s2, n1

Interchangeable == Permutations(Keys) \cup Permutations(Titles)
=============================================================================

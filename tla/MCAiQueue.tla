----------------------------- MODULE MCAiQueue -----------------------------
(* Small instances of AiQueue for TLC. *)
EXTENDS AiQueue, TLC

CONSTANTS m1, m2, t1, t2, o1, o2, o3, w1, w2

OneOwner == t1 :> m1 @@ t2 :> m1
TwoOwners == t1 :> m1 @@ t2 :> m2
OneTask == t1 :> m1

Interchangeable == Permutations(Ops) \cup Permutations(Workers)
=============================================================================

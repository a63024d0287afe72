----------------------------- MODULE MCAiSubmit -----------------------------
(* A small instance of AiSubmit for TLC. *)
EXTENDS AiSubmit, TLC

CONSTANTS c1, c3, k1, k2, b1

\* A click and a retry of the operation it created, each with its own key.
RetryKey == c1 :> k1 @@ c3 :> k2
OneBody == c1 :> b1
=============================================================================

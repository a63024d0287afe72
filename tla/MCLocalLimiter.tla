-------------------------- MODULE MCLocalLimiter --------------------------
(* A small instance of LocalLimiter for TLC. *)
EXTENDS LocalLimiter, TLC

CONSTANTS a1, u1, u2, u3, n1, n2

\* Two spellings of one account, and another account.
Spelling == u1 :> n1 @@ u2 :> n1 @@ u3 :> n2
Limits == "pair" :> 2 @@ "ip" :> 3 @@ "username" :> 3
=============================================================================

---------------------------- MODULE BilledCalls ----------------------------
(***************************************************************************)
(* What the queue promises about billed provider calls, whatever its       *)
(* processes, leases, retries and recoveries do: a member has at most one  *)
(* call at a time, and an operation is called at most once                 *)
(* (ARCHITECTURE.md:63, 76-77).  AiQueue implements it.                    *)
(***************************************************************************)
CONSTANTS Members, Ops, Workers

VARIABLES stage,        \* "new", "waiting" for its call, or "closed" to calls
          calls         \* the calls of each member: process and operation

vars == <<stage, calls>>

Init ==
    /\ stage = [o \in Ops |-> "new"]
    /\ calls = [m \in Members |-> {}]

\* The operation is submitted.
Enter(o) ==
    /\ stage[o] = "new"
    /\ stage' = [stage EXCEPT ![o] = "waiting"]
    /\ UNCHANGED calls

\* It is cancelled or fails before its call, or its submission does.
Drop(o) ==
    /\ stage[o] # "closed"
    /\ stage' = [stage EXCEPT ![o] = "closed"]
    /\ UNCHANGED calls

\* Process w calls the provider: for a member without a call, and never again for o.
Call(w, m, o) ==
    /\ stage[o] = "waiting" /\ calls[m] = {}
    /\ stage' = [stage EXCEPT ![o] = "closed"]
    /\ calls' = [calls EXCEPT ![m] = {<<w, o>>}]

\* The call of the member ends, with or without a result.
Return(m) ==
    /\ calls' = [calls EXCEPT ![m] = {}]
    /\ UNCHANGED stage

\* Process w dies with its calls.
Lose(w) ==
    /\ calls' = [m \in Members |-> {c \in calls[m] : c[1] # w}]
    /\ UNCHANGED stage

Next ==
    \/ \E o \in Ops : Enter(o) \/ Drop(o)
    \/ \E w \in Workers, m \in Members, o \in Ops : Call(w, m, o)
    \/ \E m \in Members : Return(m)
    \/ \E w \in Workers : Lose(w)

Spec == Init /\ [][Next]_vars
=============================================================================

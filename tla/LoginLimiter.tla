---------------------------- MODULE LoginLimiter ----------------------------
(***************************************************************************)
(* The login rate limiter on Redis (identity/rate_limit.py).  Each attempt *)
(* counts against three keys: its address, its username and the pair.  The *)
(* script runs atomically; a key expires Window seconds after it was first *)
(* counted.  Time passes in ticks, Second of them in a second, because a   *)
(* refusal names whole seconds.  This is also what the in-memory limiter   *)
(* has to do, with its own rounding: see LocalLimiter.                     *)
(***************************************************************************)
EXTENDS LoginKeys

VARIABLES bucket,   \* the Redis keys: a counter and its time to live in ticks, 0 and 0 if absent
          passed,   \* history: attempts let through in the key's current window
          refusal   \* history: the windows the last refusal named, and what is left of its wait

vars == <<bucket, passed, refusal>>

Absent == [count |-> 0, ttl |-> 0]

Init ==
    /\ bucket = [k \in Key |-> Absent]
    /\ passed = [k \in Key |-> 0]
    /\ refusal = [keys |-> {}, wait |-> 0]

\* incr; expire if the count is 1
Hit(k, b) == [count |-> Increment(k, b.count),
              ttl |-> IF b.count = 0 THEN Span ELSE b.ttl]

\* The script on three keys.
Script(keys) == [k \in Key |-> IF k \in keys THEN Hit(k, bucket[k]) ELSE bucket[k]]

\* retry_after is the longest of the three times to live, in whole seconds; here in
\* ticks.
RetryAfter(keys, after) == Second * Max({Seconds(after[k].ttl) : k \in keys} \cup {1})

\* What an attempt that counted leads to: authentication, or 429.
Answer(keys, after) ==
    LET exceeded == Exceeded(keys, after) IN
    \/ /\ exceeded = {}
       /\ passed' = [k \in Key |-> IF k \in keys THEN passed[k] + 1 ELSE passed[k]]
       /\ UNCHANGED refusal
    \/ /\ exceeded # {}
       /\ refusal' = [keys |-> exceeded, wait |-> RetryAfter(keys, after)]
       /\ UNCHANGED passed

Check(a, u) ==
    LET keys == RateKeys(a, u) IN
    /\ bucket' = Script(keys)
    /\ Answer(keys, Script(keys))

\* The answer of Redis is lost after the script ran: 503, nobody logs in.  An
\* attempt that does not reach Redis changes nothing.
CheckUnavailable(a, u) ==
    /\ bucket' = Script(RateKeys(a, u))
    /\ UNCHANGED <<passed, refusal>>

\* A tick; keys expire and windows end.
Aged(b) == IF b.ttl > 1 THEN [b EXCEPT !.ttl = @ - 1] ELSE Absent
WindowOpen(k) == bucket[k].ttl > 1

Tick ==
    /\ bucket' = [k \in Key |-> Aged(bucket[k])]
    /\ passed' = [k \in Key |-> IF WindowOpen(k) THEN passed[k] ELSE 0]
    /\ refusal' = [keys |-> {k \in refusal.keys : WindowOpen(k)},
                   wait |-> IF refusal.wait > 0 THEN refusal.wait - 1 ELSE 0]

Next ==
    \/ \E a \in Addresses, u \in Usernames : Check(a, u) \/ CheckUnavailable(a, u)
    \/ Tick

Spec == Init /\ [][Next]_vars

-----------------------------------------------------------------------------
(* Properties *)

\* Every variable keeps its type, and a counted key always has an expiry.
TypeOK ==
    /\ bucket \in [Key -> [count : Nat, ttl : 0..Span]]
    /\ passed \in [Key -> Nat]
    /\ refusal \in [keys : SUBSET Key, wait : Nat]
    /\ \A k \in Key : bucket[k].count = 0 <=> bucket[k].ttl = 0

\* In one window no key lets more attempts through than its limit, although every
\* attempt counts against three windows that start at different times and attempts
\* that are refused or lost count as well.
WindowLimit == \A k \in Key : passed[k] <= Limit[k.kind]

\* Who waits the retry_after of a refusal finds the windows that refused it closed, or
\* closing within Shortfall: under half a second on Redis, where TTL may round down.
RetryAfterSuffices == \A k \in refusal.keys : bucket[k].ttl <= refusal.wait + Shortfall

-----------------------------------------------------------------------------
(* The inductive invariant behind the safety properties *)

\* What a window let through, it has counted.
Charged == \A k \in Key : passed[k] <= bucket[k].count

\* The windows of a refusal that are still named have not ended.
RefusalOpen == \A k \in refusal.keys : bucket[k].count > 0

IInv == TypeOK /\ WindowLimit /\ Charged /\ RefusalOpen /\ RetryAfterSuffices
=============================================================================

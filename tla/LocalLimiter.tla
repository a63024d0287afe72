---------------------------- MODULE LocalLimiter ----------------------------
(***************************************************************************)
(* The in-memory login limiter of one process (rate_limit.py:81-121), with *)
(* absolute times and a dictionary that is cleaned now and then, shown to  *)
(* implement LoginLimiter with the rounding of int(x + 0.999).  check() has *)
(* no await: the event loop runs it as one step.                           *)
(***************************************************************************)
EXTENDS LoginKeys

CONSTANTS PruneEvery,   \* 1000
          MaxTime       \* bound of the instance

ASSUME LocalAssumption ==
    /\ PruneEvery \in Nat \ {0} /\ MaxTime \in Nat
    /\ None \notin [count : Nat, expires : Nat]
    /\ Rounding = (999 * Second) \div 1000      \* 0.999 of a second

VARIABLES buckets,      \* _buckets: None, or the count and expires_at
          checks,       \* _checks, modulo PruneEvery
          now,          \* the clock
          passed, refusal   \* the histories of LoginLimiter

vars == <<buckets, checks, now, passed, refusal>>

\* Slip: a window lasts one tick longer.
OverLate(expires) == expires < now

\* expires_at <= now
Over(expires) == expires <= now

\* What Redis would hold: it has no key whose window is over.
Shown(b, time) ==
    IF b = None THEN [count |-> 0, ttl |-> 0]
    ELSE IF b.expires > time THEN [count |-> b.count, ttl |-> b.expires - time]
    ELSE [count |-> 0, ttl |-> 0]
live == [k \in Key |-> Shown(buckets[k], now)]

Redis == INSTANCE LoginLimiter WITH bucket <- live

Init ==
    /\ buckets = [k \in Key |-> None]
    /\ checks = 0 /\ now = 0
    /\ passed = [k \in Key |-> 0]
    /\ refusal = [keys |-> {}, wait |-> 0]

\* Every thousandth check drops the windows that are over.
Pruned(n) ==
    IF n = 0 THEN [k \in Key |-> IF buckets[k] = None THEN None
                                 ELSE IF buckets[k].expires > now THEN buckets[k]
                                 ELSE None]
    ELSE buckets

\* A missing window and one that is over start again.
Counted(k, b) ==
    IF b = None THEN [count |-> 1, expires |-> now + Span]
    ELSE IF Over(b.expires) THEN [count |-> 1, expires |-> now + Span]
    ELSE [count |-> Increment(k, b.count), expires |-> b.expires]

\* The dictionary after an attempt that counts against keys.
After(keys, n) ==
    [k \in Key |-> IF k \in keys THEN Counted(k, Pruned(n)[k]) ELSE Pruned(n)[k]]

\* retry_after is the longest of the three remaining times, in whole seconds; here in
\* ticks.
RetryAfter(keys, after) ==
    Second * Max({Seconds(after[k].expires - now) : k \in keys} \cup {1})

Answer(keys, after) ==
    LET exceeded == Exceeded(keys, after) IN
    \/ /\ exceeded = {}
       /\ passed' = [k \in Key |-> IF k \in keys THEN passed[k] + 1 ELSE passed[k]]
       /\ UNCHANGED refusal
    \/ /\ exceeded # {}
       /\ refusal' = [keys |-> exceeded, wait |-> RetryAfter(keys, after)]
       /\ UNCHANGED passed

Check(a, u) ==
    LET keys == RateKeys(a, u)
        n == (checks + 1) % PruneEvery IN
    /\ buckets' = After(keys, n)
    /\ Answer(keys, After(keys, n))
    /\ checks' = n
    /\ UNCHANGED now

\* A tick.  The histories change as those of LoginLimiter.
Tick ==
    /\ now < MaxTime
    /\ now' = now + 1
    /\ passed' = [k \in Key |-> IF Redis!WindowOpen(k) THEN passed[k] ELSE 0]
    /\ refusal' = [keys |-> {k \in refusal.keys : Redis!WindowOpen(k)},
                   wait |-> IF refusal.wait > 0 THEN refusal.wait - 1 ELSE 0]
    /\ UNCHANGED <<buckets, checks>>

Next == (\E a \in Addresses, u \in Usernames : Check(a, u)) \/ Tick

Spec == Init /\ [][Next]_vars

-----------------------------------------------------------------------------
(* Properties *)

\* The dictionary holds counts and times, and no window ends later than it may.
TypeOK ==
    /\ buckets \in [Key -> [count : Nat \ {0}, expires : 1..(now + Span)] \cup {None}]
    /\ checks \in 0..(PruneEvery - 1) /\ now \in Nat
    /\ passed \in [Key -> Nat]
    /\ refusal \in [keys : SUBSET Key, wait : Nat]

\* The in-memory limiter answers every attempt as the one on Redis does: cleaning
\* forgets no open window, and a window that is over counts as a missing one.
ImplementsRedis == Redis!Spec

\* In one window no key lets more attempts through than its limit, although every
\* attempt counts against three windows that start at different times, attempts that
\* are refused count as well, and the dictionary is cleaned between them.
WindowLimit == Redis!WindowLimit

\* Who waits the retry_after of a refusal finds the windows that refused it closed, or
\* closing within Shortfall, the thousandth of a second that 0.999 leaves out.
RetryAfterSuffices == Redis!RetryAfterSuffices
=============================================================================

----------------------------- MODULE LoginKeys ------------------------------
(***************************************************************************)
(* What both login rate limiters share (identity/rate_limit.py): the three *)
(* keys an attempt counts against, and the limits.                         *)
(***************************************************************************)
EXTENDS Integers, FiniteSetsExt

CONSTANTS Addresses, Usernames,
          Names,        \* usernames after strip and casefold
          Normalized,   \* which name a username has
          Window,       \* window_seconds
          Second,       \* ticks of the clock in a second: 1000 on Redis
          Rounding,     \* ticks added before a time is cut to whole seconds
          Limit,        \* per_ip_username, per_ip, per_username by kind of key
          None

Kind == {"pair", "ip", "username"}

ASSUME LimitAssumption ==
    /\ Normalized \in [Usernames -> Names]
    /\ Window \in Nat \ {0} /\ Second \in Nat \ {0} /\ Rounding \in 0..(Second - 1)
    /\ Limit \in [Kind -> Nat \ {0}]
    /\ None \notin Addresses /\ None \notin Names

PairKey(a, n) == [kind |-> "pair", address |-> a, name |-> n]
AddressKey(a) == [kind |-> "ip", address |-> a, name |-> None]
NameKey(n) == [kind |-> "username", address |-> None, name |-> n]
Key == [kind : {"pair"}, address : Addresses, name : Names]
         \cup [kind : {"ip"}, address : Addresses, name : {None}]
         \cup [kind : {"username"}, address : {None}, name : Names]

\* _rate_keys
RateKeys(a, u) ==
    {PairKey(a, Normalized[u]), AddressKey(a), NameKey(Normalized[u])}

\* A window in ticks.
Span == Window * Second

\* Slip: the started second is dropped.
WholeSeconds(ticks) == ticks \div Second

\* What is left of a window in seconds.  TTL rounds to the nearest second, so that
\* Rounding is half a second on Redis; in memory it is int(x + 0.999).
Seconds(ticks) == (ticks + Rounding) \div Second

\* How much of a window may be left when the seconds have passed.
Shortfall == Second - 1 - Rounding

\* Counts above the limit of a key are not told apart.
Increment(k, n) == IF n > Limit[k.kind] THEN n ELSE n + 1

\* Slip: one attempt too many.
ExceededLate(keys, after) == {k \in keys : after[k].count > Limit[k.kind] + 1}

\* The keys whose count is above the limit; one of them refuses the attempt.
Exceeded(keys, after) == {k \in keys : after[k].count > Limit[k.kind]}
=============================================================================

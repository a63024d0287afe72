------------------------- MODULE LocalLimiterProofs -------------------------
(***************************************************************************)
(* The in-memory limiter implements the limiter on Redis, for any window,  *)
(* limits, addresses and usernames and however often it cleans up.         *)
(***************************************************************************)
EXTENDS LocalLimiter, TLAPS

Bucket == [count : Nat \ {0}, expires : Nat]

\* The instance has the same keys and limits.
LEMMA SameKeys ==
    /\ Redis!Key = Key
    /\ \A a, u : Redis!RateKeys(a, u) = RateKeys(a, u)
    /\ \A k, n : Redis!Increment(k, n) = Increment(k, n)
    /\ \A keys, after : Redis!Exceeded(keys, after) = Exceeded(keys, after)
    /\ Redis!Span = Span /\ \A t : Redis!Seconds(t) = Seconds(t)
BY DEF Redis!Key, Key, Redis!RateKeys, RateKeys, Redis!PairKey, PairKey, Redis!AddressKey,
       AddressKey, Redis!NameKey, NameKey, Redis!Increment, Increment, Redis!Exceeded, Exceeded,
       Redis!Span, Span, Redis!Seconds, Seconds

\* Every window lasts at least a tick.
LEMMA SpanTyped == Span \in Nat \ {0} /\ Second \in Nat \ {0}
<1>1. \A m, n \in Nat \ {0} : m * n \in Nat \ {0} OBVIOUS
<1> QED BY <1>1, LimitAssumption DEF Span

\* What is left of a window is a number of seconds.
LEMMA SecondsTyped == \A t \in Nat : Seconds(t) \in Nat
<1> SUFFICES ASSUME NEW t \in Nat PROVE Seconds(t) \in Nat OBVIOUS
<1>1. Second \in Nat \ {0} /\ Rounding \in 0..(Second - 1) BY LimitAssumption
<1>2. PICK d \in Nat : d = t + Rounding BY <1>1
<1>3. d \div Second \in Nat BY <1>1
<1> QED BY <1>2, <1>3 DEF Seconds

LEMMA KeyLimit == \A k \in Key : Limit[k.kind] \in Nat \ {0}
<1>1. \A k \in Key : k.kind \in Kind BY DEF Key, Kind
<1> QED BY <1>1, LimitAssumption

LEMMA KeysTyped ==
    ASSUME NEW a \in Addresses, NEW u \in Usernames
    PROVE  RateKeys(a, u) \subseteq Key
<1>1. Normalized[u] \in Names BY LimitAssumption
<1> QED BY <1>1 DEF RateKeys, PairKey, AddressKey, NameKey, Key

\* What the dictionary can hold.
LEMMA BucketTyped ==
    ASSUME TypeOK
    PROVE  /\ \A k \in Key : buckets[k] = None \/ buckets[k] \in Bucket
           /\ now \in Nat
<1>1. now \in Nat BY DEF TypeOK
<1>2. Span \in Nat BY SpanTyped
<1>3. \A e \in 1..(now + Span) : e \in Nat BY <1>1, <1>2
<1>4. \A k \in Key : buckets[k] = None \/ buckets[k] \in [count : Nat \ {0}, expires : 1..(now + Span)]
  BY DEF TypeOK
<1> QED BY <1>1, <1>3, <1>4 DEF Bucket

\* Cleaning changes nothing that Redis would still hold.
LEMMA PrunedShown ==
    ASSUME TypeOK, NEW n, NEW k \in Key
    PROVE  /\ Pruned(n)[k] = None \/ Pruned(n)[k] = buckets[k]
           /\ Shown(Pruned(n)[k], now) = Shown(buckets[k], now)
<1>1. CASE n = 0
  <2>1. Pruned(n)[k] = IF buckets[k] = None THEN None
                       ELSE IF buckets[k].expires > now THEN buckets[k] ELSE None
    BY <1>1 DEF Pruned
  <2> QED BY <2>1 DEF Shown
<1>2. CASE n # 0 BY <1>2 DEF Pruned
<1> QED BY <1>1, <1>2

\* Counting an attempt is the script's incr and expire.
LEMMA CountedShown ==
    ASSUME NEW k \in Key, NEW b, b = None \/ b \in Bucket, now \in Nat
    PROVE  /\ Counted(k, b) \in Bucket
           /\ Counted(k, b).expires > now
           /\ Shown(Counted(k, b), now) = [count |-> Counted(k, b).count, ttl |-> Counted(k, b).expires - now]
           /\ Shown(Counted(k, b), now) = Redis!Hit(k, Shown(b, now))
<1>1. Span \in Nat \ {0} BY SpanTyped
<1>2. Limit[k.kind] \in Nat \ {0} BY KeyLimit
<1>3. Increment(k, 0) = 1 BY <1>2 DEF Increment
<1>4. None \notin Bucket
  <2>1. Bucket \subseteq [count : Nat, expires : Nat] BY DEF Bucket
  <2> QED BY <2>1, LocalAssumption
<1>5. CASE b = None \/ ~(b.expires > now)
  <2>1. Shown(b, now) = [count |-> 0, ttl |-> 0] BY <1>5 DEF Shown
  <2>2. Redis!Hit(k, Shown(b, now)) = [count |-> 1, ttl |-> Span]
    BY <2>1, <1>3, SameKeys DEF Redis!Hit
  <2>3. Counted(k, b) = [count |-> 1, expires |-> now + Span]
    <3>1. CASE b = None BY <3>1 DEF Counted
    <3>2. CASE b # None
      <4>1. b.expires \in Nat BY <3>2 DEF Bucket
      <4>2. Over(b.expires) BY <4>1, <3>2, <1>5 DEF Over
      <4> QED BY <4>2, <3>2 DEF Counted
    <3> QED BY <3>1, <3>2
  <2>4. Counted(k, b) \in Bucket BY <2>3, <1>1 DEF Bucket
  <2>5. Counted(k, b) # None BY <2>4, <1>4
  <2>6. Counted(k, b).expires > now /\ Counted(k, b).expires - now = Span BY <2>3, <1>1
  <2>7. Shown(Counted(k, b), now) = [count |-> Counted(k, b).count, ttl |-> Counted(k, b).expires - now]
    BY <2>5, <2>6 DEF Shown
  <2> QED BY <2>2, <2>3, <2>4, <2>6, <2>7
<1>6. CASE b # None /\ b.expires > now
  <2>1. b \in Bucket BY <1>6
  <2>2. b.count \in Nat \ {0} /\ b.expires \in Nat BY <2>1 DEF Bucket
  <2>3. Shown(b, now) = [count |-> b.count, ttl |-> b.expires - now] BY <1>6 DEF Shown
  <2>4. Redis!Hit(k, Shown(b, now)) = [count |-> Increment(k, b.count), ttl |-> b.expires - now]
    BY <2>2, <2>3, SameKeys DEF Redis!Hit
  <2>5. ~Over(b.expires) BY <1>6, <2>2 DEF Over
  <2>6. Counted(k, b) = [count |-> Increment(k, b.count), expires |-> b.expires]
    BY <1>6, <2>5 DEF Counted
  <2>7. Increment(k, b.count) \in Nat \ {0} BY <1>2, <2>2 DEF Increment
  <2>8. Counted(k, b) \in Bucket BY <2>2, <2>6, <2>7 DEF Bucket
  <2>9. Counted(k, b) # None BY <2>8, <1>4
  <2>10. Shown(Counted(k, b), now) = [count |-> Counted(k, b).count, ttl |-> Counted(k, b).expires - now]
    BY <2>6, <2>9, <1>6 DEF Shown
  <2> QED BY <2>4, <2>6, <2>8, <2>10, <1>6
<1> QED BY <1>5, <1>6

\* The greatest of four numbers is one of them and below none.
LEMMA MaxOfFour ==
    ASSUME NEW a \in Int, NEW b \in Int, NEW c \in Int, NEW d \in Int,
           NEW S, S = {a, b, c, d}
    PROVE  Max(S) \in S /\ \A y \in S : y <= Max(S)
<1>1. \E x \in S : \A y \in S : x >= y
  <2>1. CASE a >= b /\ a >= c /\ a >= d BY <2>1
  <2>2. CASE b >= a /\ b >= c /\ b >= d BY <2>2
  <2>3. CASE c >= a /\ c >= b /\ c >= d BY <2>3
  <2>4. CASE d >= a /\ d >= b /\ d >= c BY <2>4
  <2> QED BY <2>1, <2>2, <2>3, <2>4
<1>2. Max(S) \in S /\ \A y \in S : Max(S) >= y BY <1>1 DEF Max
<1>3. S \subseteq Int OBVIOUS
<1> QED BY <1>2, <1>3

\* Redis, seen through the dictionary, executes its script.
LEMMA AfterIsScript ==
    ASSUME TypeOK, NEW keys \in SUBSET Key, NEW n, buckets' = After(keys, n), now' = now
    PROVE  /\ live' = Redis!Script(keys)
           /\ \A k \in keys : /\ buckets'[k] \in Bucket /\ buckets'[k].expires > now
                              /\ live'[k].count = buckets'[k].count
                              /\ live'[k].ttl = buckets'[k].expires - now
<1>1. now \in Nat /\ \A k \in Key : buckets[k] = None \/ buckets[k] \in Bucket BY BucketTyped
<1>2. \A k \in Key : /\ Pruned(n)[k] = None \/ Pruned(n)[k] \in Bucket
                     /\ Shown(Pruned(n)[k], now) = Shown(buckets[k], now)
  BY <1>1, PrunedShown
<1>3. \A k \in keys : buckets'[k] = Counted(k, Pruned(n)[k]) BY DEF After
<1>4. \A k \in Key \ keys : buckets'[k] = Pruned(n)[k] BY DEF After
<1>5. live' = [k \in Key |-> Shown(buckets'[k], now)] BY DEF live
<1>6. \A k \in Key : live'[k] = Shown(buckets'[k], now) BY <1>5
<1>7. \A k \in Key : live[k] = Shown(buckets[k], now) BY DEF live
<1>8. \A k \in keys : /\ Counted(k, Pruned(n)[k]) \in Bucket
                      /\ Counted(k, Pruned(n)[k]).expires > now
                      /\ Shown(Counted(k, Pruned(n)[k]), now) =
                           [count |-> Counted(k, Pruned(n)[k]).count,
                            ttl |-> Counted(k, Pruned(n)[k]).expires - now]
                      /\ Shown(Counted(k, Pruned(n)[k]), now) = Redis!Hit(k, Shown(Pruned(n)[k], now))
  BY <1>1, <1>2, CountedShown
<1>9. \A k \in Key : live'[k] = IF k \in keys THEN Redis!Hit(k, live[k]) ELSE live[k]
  <2> TAKE k \in Key
  <2>1. live[k] = Shown(Pruned(n)[k], now) BY <1>2, <1>7
  <2>2. CASE k \in keys
    <3>1. live'[k] = Shown(Counted(k, Pruned(n)[k]), now) BY <1>3, <1>6, <2>2
    <3>2. Shown(Counted(k, Pruned(n)[k]), now) = Redis!Hit(k, Shown(Pruned(n)[k], now))
      BY <1>8, <2>2
    <3>3. live'[k] = Redis!Hit(k, live[k]) BY <2>1, <3>1, <3>2
    <3> QED BY <3>3, <2>2
  <2>3. CASE k \notin keys
    <3>1. live'[k] = Shown(Pruned(n)[k], now) BY <1>4, <1>6, <2>3
    <3> QED BY <3>1, <2>1, <2>3
  <2> QED BY <2>2, <2>3
<1>10. live' = Redis!Script(keys) BY <1>5, <1>9, SameKeys DEF Redis!Script
<1>11. \A k \in keys : /\ buckets'[k] \in Bucket /\ buckets'[k].expires > now
                       /\ live'[k].count = buckets'[k].count
                       /\ live'[k].ttl = buckets'[k].expires - now
  <2> TAKE k \in keys
  <2>1. /\ buckets'[k] = Counted(k, Pruned(n)[k]) /\ Counted(k, Pruned(n)[k]) \in Bucket
        /\ Counted(k, Pruned(n)[k]).expires > now
    BY <1>3, <1>8
  <2>2. live'[k] = Shown(Counted(k, Pruned(n)[k]), now) BY <1>6, <2>1
  <2>3. live'[k] = [count |-> Counted(k, Pruned(n)[k]).count,
                    ttl |-> Counted(k, Pruned(n)[k]).expires - now]
    BY <1>8, <2>2
  <2> QED BY <2>1, <2>3
<1> QED BY <1>10, <1>11

-----------------------------------------------------------------------------
LEMMA CheckRefines ==
    ASSUME TypeOK, NEW a \in Addresses, NEW u \in Usernames, Check(a, u)
    PROVE  Redis!Check(a, u)
<1>0. RateKeys(a, u) \subseteq Key BY KeysTyped
<1> PICK keys \in SUBSET Key : keys = RateKeys(a, u) BY <1>0
<1> PICK n : n = (checks + 1) % PruneEvery OBVIOUS
<1>1. buckets' = After(keys, n) /\ Answer(keys, buckets') /\ now' = now BY DEF Check
<1>2. /\ live' = Redis!Script(keys)
      /\ \A k \in keys : /\ live'[k].count = buckets'[k].count
                         /\ live'[k].ttl = buckets'[k].expires - now
  BY <1>1, AfterIsScript
<1>3. Redis!Exceeded(keys, live') = Exceeded(keys, buckets')
  BY <1>2, SameKeys DEF Exceeded
<1>4. Redis!RetryAfter(keys, live') = RetryAfter(keys, buckets')
  <2>1. {Redis!Seconds(live'[k].ttl) : k \in keys}
          = {Seconds(buckets'[k].expires - now) : k \in keys}
    BY <1>2, SameKeys
  <2> QED BY <2>1 DEF Redis!RetryAfter, RetryAfter, Redis!Max, Max
<1>5. Redis!Answer(keys, live')
  BY <1>1, <1>3, <1>4, SameKeys DEF Answer, Redis!Answer
<1> QED BY <1>2, <1>5, SameKeys DEF Redis!Check

LEMMA TickRefines ==
    ASSUME TypeOK, Tick
    PROVE  Redis!Tick
<1>1. now \in Nat /\ now' = now + 1 /\ buckets' = buckets BY BucketTyped DEF Tick
<1>2. \A k \in Key : buckets[k] = None \/ buckets[k] \in Bucket BY BucketTyped
<1>3. live' = [k \in Key |-> Redis!Aged(live[k])]
  <2>1. \A k \in Key : live'[k] = Redis!Aged(live[k])
    <3> TAKE k \in Key
    <3>1. live[k] = Shown(buckets[k], now) BY DEF live
    <3>2. live'[k] = IF buckets[k] = None THEN [count |-> 0, ttl |-> 0]
                     ELSE IF buckets[k].expires > now + 1
                       THEN [count |-> buckets[k].count, ttl |-> buckets[k].expires - (now + 1)]
                     ELSE [count |-> 0, ttl |-> 0]
      BY <1>1 DEF live, Shown
    <3>3. CASE buckets[k] = None
      BY <3>1, <3>2, <3>3 DEF Shown, Redis!Aged, Redis!Absent
    <3>4. CASE buckets[k] # None
      <4>1. buckets[k].expires \in Nat /\ buckets[k].count \in Nat BY <1>2, <3>4 DEF Bucket
      <4>2. CASE buckets[k].expires > now + 1
        <5>1. live[k] = [count |-> buckets[k].count, ttl |-> buckets[k].expires - now]
          BY <1>1, <3>1, <3>4, <4>1, <4>2 DEF Shown
        <5>2. live'[k] = [count |-> buckets[k].count, ttl |-> buckets[k].expires - (now + 1)]
          BY <3>2, <3>4, <4>2
        <5>3. live[k].ttl > 1 /\ live[k].ttl - 1 = buckets[k].expires - (now + 1)
          BY <1>1, <4>1, <4>2, <5>1
        <5>4. Redis!Aged(live[k]) = [live[k] EXCEPT !.ttl = live[k].ttl - 1]
          BY <5>3 DEF Redis!Aged
        <5> QED BY <5>1, <5>2, <5>3, <5>4
      <4>3. CASE ~(buckets[k].expires > now + 1)
        <5>1. live'[k] = [count |-> 0, ttl |-> 0] BY <3>2, <3>4, <4>3
        <5>2. ~(live[k].ttl > 1) BY <1>1, <3>1, <3>4, <4>1, <4>3 DEF Shown
        <5> QED BY <5>1, <5>2 DEF Redis!Aged, Redis!Absent
      <4> QED BY <4>2, <4>3
    <3> QED BY <3>3, <3>4
  <2>2. live' = [k \in Key |-> Shown(buckets'[k], now')] BY DEF live
  <2> QED BY <2>1, <2>2
<1> QED BY <1>3, SameKeys DEF Tick, Redis!Tick

-----------------------------------------------------------------------------
\* The dictionary keeps its types.
LEMMA CheckTyped ==
    ASSUME TypeOK, NEW a \in Addresses, NEW u \in Usernames, Check(a, u)
    PROVE  TypeOK'
<1>0. RateKeys(a, u) \subseteq Key BY KeysTyped
<1> PICK keys \in SUBSET Key : keys = RateKeys(a, u) BY <1>0
<1> DEFINE n == (checks + 1) % PruneEvery
           Good == [count : Nat \ {0}, expires : 1..(now + Span)]
<1>1. buckets' = After(keys, n) /\ Answer(keys, buckets') /\ now' = now /\ checks' = n
  BY DEF Check
<1>2. Span \in Nat \ {0} /\ now \in Nat BY SpanTyped DEF TypeOK
<1>3. \A k \in Key : Pruned(n)[k] = None \/ Pruned(n)[k] = buckets[k] BY PrunedShown
<1>4. \A k \in Key : buckets[k] = None \/ buckets[k] \in Good BY DEF TypeOK
<1>5. \A k \in Key : \A b : b = None \/ b \in Good => Counted(k, b) \in Good
  <2> SUFFICES ASSUME NEW k \in Key, NEW b, b = None \/ b \in Good
               PROVE  Counted(k, b) \in Good
    OBVIOUS
  <2>1. now + Span \in 1..(now + Span) BY <1>2
  <2>2. CASE b = None \/ Over(b.expires)
    <3>1. Counted(k, b) = [count |-> 1, expires |-> now + Span] BY <2>2 DEF Counted
    <3> QED BY <2>1, <3>1
  <2>3. CASE b # None /\ ~Over(b.expires)
    <3>1. Counted(k, b) = [count |-> Increment(k, b.count), expires |-> b.expires]
      BY <2>3 DEF Counted
    <3>2. b.count \in Nat \ {0} /\ b.expires \in 1..(now + Span) BY <2>3
    <3>3. Increment(k, b.count) \in Nat \ {0} BY <3>2, KeyLimit DEF Increment
    <3> QED BY <3>1, <3>2, <3>3
  <2> QED BY <2>2, <2>3
<1>6. \A k \in Key : Pruned(n)[k] = None \/ Pruned(n)[k] \in Good BY <1>3, <1>4
<1>7. buckets' \in [Key -> Good \cup {None}]
  <2> HIDE DEF n, Good
  <2>1. \A k \in Key : (IF k \in keys THEN Counted(k, Pruned(n)[k]) ELSE Pruned(n)[k]) \in Good \cup {None}
    BY <1>5, <1>6
  <2> QED BY <1>1, <2>1 DEF After
<1>8. checks' \in 0..(PruneEvery - 1) BY <1>1, LocalAssumption DEF TypeOK
<1>9. passed' \in [Key -> Nat] BY <1>1 DEF Answer, TypeOK
<1>10. refusal' \in [keys : SUBSET Key, wait : Nat]
  <2>1. CASE refusal' = refusal BY <2>1 DEF TypeOK
  <2>2. CASE refusal' = [keys |-> Exceeded(keys, buckets'), wait |-> RetryAfter(keys, buckets')]
    <3>1. Exceeded(keys, buckets') \subseteq Key BY DEF Exceeded
    <3>2. \A k \in keys : buckets'[k] \in Bucket /\ buckets'[k].expires - now \in Nat
      <4>1. \A k \in keys : buckets'[k] \in Bucket /\ buckets'[k].expires > now
        BY <1>1, AfterIsScript
      <4> QED BY <4>1, <1>2 DEF Bucket
    <3>3. RetryAfter(keys, buckets') \in Nat
      <4>1. PICK p, q, r : keys = {p, q, r} BY DEF RateKeys
      <4>2. PICK i \in Nat : i = Seconds(buckets'[p].expires - now)
        BY <3>2, <4>1, SecondsTyped
      <4>3. PICK j \in Nat : j = Seconds(buckets'[q].expires - now)
        BY <3>2, <4>1, SecondsTyped
      <4>4. PICK l \in Nat : l = Seconds(buckets'[r].expires - now)
        BY <3>2, <4>1, SecondsTyped
      <4>5. PICK S : S = {i, j, l, 1} OBVIOUS
      <4>6. {Seconds(buckets'[k].expires - now) : k \in keys} \cup {1} = S
        BY <4>1, <4>2, <4>3, <4>4, <4>5
      <4>7. PICK m \in Nat : m = Max(S)
        <5>1. Max(S) \in S BY <4>5, MaxOfFour
        <5> QED BY <4>5, <5>1
      <4>8. RetryAfter(keys, buckets') = Second * m BY <4>6, <4>7 DEF RetryAfter
      <4>9. \A x, y \in Nat : x * y \in Nat OBVIOUS
      <4> QED BY <4>8, <4>9, SpanTyped
    <3> QED BY <2>2, <3>1, <3>3
  <2> QED BY <1>1, <2>1, <2>2 DEF Answer
<1> QED BY <1>1, <1>2, <1>7, <1>8, <1>9, <1>10 DEF TypeOK

LEMMA TickTyped ==
    ASSUME TypeOK, Tick
    PROVE  TypeOK'
<1>1. now \in Nat /\ now' = now + 1 /\ buckets' = buckets /\ checks' = checks
  BY DEF TypeOK, Tick
<1>2. Span \in Nat \ {0} BY SpanTyped
<1>3. 1..(now + Span) \subseteq 1..(now' + Span) BY <1>1, <1>2
<1>4. buckets' \in [Key -> [count : Nat \ {0}, expires : 1..(now' + Span)] \cup {None}]
  <2>1. [count : Nat \ {0}, expires : 1..(now + Span)]
          \subseteq [count : Nat \ {0}, expires : 1..(now' + Span)]
    BY <1>3
  <2>2. buckets \in [Key -> [count : Nat \ {0}, expires : 1..(now + Span)] \cup {None}]
    BY DEF TypeOK
  <2> QED BY <1>1, <2>1, <2>2
<1>5. passed' \in [Key -> Nat] BY DEF TypeOK, Tick
<1>6. refusal' \in [keys : SUBSET Key, wait : Nat] BY <1>2 DEF TypeOK, Tick
<1> QED BY <1>1, <1>4, <1>5, <1>6 DEF TypeOK

\* The dictionary, the clock and the histories keep their types.
THEOREM TypeCorrect == Spec => []TypeOK
<1>1. Init => TypeOK BY LimitAssumption, LocalAssumption DEF Init, TypeOK
<1>2. TypeOK /\ [Next]_vars => TypeOK'
  <2> SUFFICES ASSUME TypeOK, [Next]_vars PROVE TypeOK' OBVIOUS
  <2>1. ASSUME NEW a \in Addresses, NEW u \in Usernames, Check(a, u) PROVE TypeOK'
    BY <2>1, CheckTyped
  <2>2. CASE Tick BY <2>2, TickTyped
  <2>3. CASE UNCHANGED vars BY <2>3 DEF vars, TypeOK
  <2> QED BY <2>1, <2>2, <2>3 DEF Next
<1> QED BY <1>1, <1>2, PTL DEF Spec

\* Every behaviour of the in-memory limiter, seen through live, is one of the limiter
\* on Redis: an attempt is its Check, a tick its Tick.
THEOREM LocalImplementsRedis == Spec => ImplementsRedis
<1>1. Init => Redis!Init
  <2> SUFFICES ASSUME Init PROVE Redis!Init OBVIOUS
  <2>1. live = [k \in Key |-> [count |-> 0, ttl |-> 0]] BY DEF Init, live, Shown
  <2> QED BY <2>1, SameKeys DEF Init, Redis!Init, Redis!Absent
<1>2. TypeOK /\ [Next]_vars => [Redis!Next]_(Redis!vars)
  <2> SUFFICES ASSUME TypeOK, [Next]_vars PROVE [Redis!Next]_(Redis!vars) OBVIOUS
  <2>1. ASSUME NEW a \in Addresses, NEW u \in Usernames, Check(a, u) PROVE Redis!Next
    BY <2>1, CheckRefines DEF Redis!Next
  <2>2. CASE Tick BY <2>2, TickRefines DEF Redis!Next
  <2>3. CASE UNCHANGED vars BY <2>3 DEF vars, Redis!vars, live
  <2> QED BY <2>1, <2>2, <2>3 DEF Next
<1> QED BY <1>1, <1>2, TypeCorrect, PTL DEF Spec, ImplementsRedis, Redis!Spec

-----------------------------------------------------------------------------
(* What LoginLimiterProofs proves of the Redis limiter, brought to this one *)

RedisProofs == INSTANCE LoginLimiterProofs WITH bucket <- live

\* The instance of the proofs speaks of the specification ImplementsRedis names.
LEMMA SameSpecification == Redis!Spec => RedisProofs!Spec
<1> USE DEF Redis!Key, RedisProofs!Key, Redis!Span, RedisProofs!Span
<1>1. Redis!Init => RedisProofs!Init
  BY DEF Redis!Init, RedisProofs!Init, Redis!Absent, RedisProofs!Absent
<1>2. \A a, u : Redis!RateKeys(a, u) = RedisProofs!RateKeys(a, u)
  BY DEF Redis!RateKeys, RedisProofs!RateKeys, Redis!PairKey, RedisProofs!PairKey,
         Redis!AddressKey, RedisProofs!AddressKey, Redis!NameKey, RedisProofs!NameKey
<1>3. \A keys : Redis!Script(keys) = RedisProofs!Script(keys)
  BY DEF Redis!Script, RedisProofs!Script, Redis!Hit, RedisProofs!Hit,
         Redis!Increment, RedisProofs!Increment
<1>4. ASSUME NEW keys, NEW after, Redis!Answer(keys, after)
      PROVE  RedisProofs!Answer(keys, after)
  BY <1>4 DEF Redis!Answer, RedisProofs!Answer, Redis!Exceeded, RedisProofs!Exceeded,
         Redis!RetryAfter, RedisProofs!RetryAfter, Redis!Seconds, RedisProofs!Seconds,
         Redis!Max, RedisProofs!Max
<1>5. Redis!Tick => RedisProofs!Tick
  BY DEF Redis!Tick, RedisProofs!Tick, Redis!Aged, RedisProofs!Aged, Redis!Absent,
         RedisProofs!Absent, Redis!WindowOpen, RedisProofs!WindowOpen
<1>6. [Redis!Next]_(Redis!vars) => [RedisProofs!Next]_(RedisProofs!vars)
  BY <1>2, <1>3, <1>4, <1>5
     DEF Redis!Next, RedisProofs!Next, Redis!vars, RedisProofs!vars, Redis!Check,
         RedisProofs!Check, Redis!CheckUnavailable, RedisProofs!CheckUnavailable
<1> QED BY <1>1, <1>6, PTL DEF Redis!Spec, RedisProofs!Spec

\* The assumption the instance needs is the one on the limits.
LEMMA SameAssumption == RedisProofs!LimitAssumption
BY LimitAssumption DEF RedisProofs!Kind, Kind

\* Between cleanings, after them and across windows of three keys: no key lets more
\* attempts through in a window than its limit.
THEOREM LocalLimitKept == Spec => []WindowLimit
<1>1. RedisProofs!WindowLimit => WindowLimit
  BY DEF RedisProofs!WindowLimit, WindowLimit, Redis!WindowLimit, RedisProofs!Key, Redis!Key
<1> QED BY <1>1, LocalImplementsRedis, SameSpecification, SameAssumption,
           RedisProofs!LimitKept, PTL DEF ImplementsRedis

\* Who waits what a refusal asked for finds each window that caused it closed, or with
\* less than a thousandth of a second left, although the seconds are counted from
\* absolute times: Rounding is 0.999 of a second.
THEOREM LocalRetryAfterHonest == Spec => []RetryAfterSuffices
<1>1. RedisProofs!RetryAfterSuffices => RetryAfterSuffices
  BY DEF RedisProofs!RetryAfterSuffices, RetryAfterSuffices, Redis!RetryAfterSuffices,
         RedisProofs!Shortfall, Redis!Shortfall
<1> QED BY <1>1, LocalImplementsRedis, SameSpecification, SameAssumption,
           RedisProofs!RetryAfterHonest, PTL DEF ImplementsRedis
=============================================================================

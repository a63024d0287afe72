------------------------- MODULE LoginLimiterProofs -------------------------
(* Proofs about LoginLimiter, for any addresses, usernames, window and limits. *)
EXTENDS LoginLimiter, TLAPS

\* The greatest of four numbers is one of them and below none.
LEMMA MaxOfFour ==
    ASSUME NEW a \in Int, NEW b \in Int, NEW c \in Int, NEW d \in Int,
           NEW S, S = {a, b, c, d}
    PROVE  Max(S) \in S /\ \A y \in S : y <= Max(S)
<1>1. \E x \in S : \A y \in S : x >= y
  <2>1. CASE a >= b /\ a >= c /\ a >= d BY <2>1
  <2>2. CASE b >= a /\ b >= c /\ b >= d BY <2>2
  <2>3. CASE c >= a /\ c >= b /\ c >= d BY <2>3
  <2>4. CASE d >= a /\ d >= b /\ d >= c BY <2>4
  <2> QED BY <2>1, <2>2, <2>3, <2>4
<1>2. Max(S) \in S /\ \A y \in S : Max(S) >= y
  BY <1>1 DEF Max
<1>3. S \subseteq Int OBVIOUS
<1> QED BY <1>2, <1>3

\* Every window lasts at least a tick.
LEMMA SpanTyped == Span \in Nat \ {0} /\ Second \in Nat \ {0} /\ Shortfall \in Nat
<1>1. Window \in Nat \ {0} /\ Second \in Nat \ {0} /\ Rounding \in 0..(Second - 1)
  BY LimitAssumption
<1>2. \A m, n \in Nat \ {0} : m * n \in Nat \ {0}
  OBVIOUS
<1> QED BY <1>1, <1>2 DEF Span, Shortfall

\* The seconds that are left of a time, in ticks again, fall short by less than what
\* the rounding leaves out.
LEMMA SecondsCover ==
    ASSUME NEW t \in Nat
    PROVE  Seconds(t) \in Nat /\ t <= Second * Seconds(t) + Shortfall
<1>1. Second \in Nat \ {0} /\ Rounding \in 0..(Second - 1)
  BY LimitAssumption
<1>2. PICK d \in Nat, q \in Nat : d = t + Rounding /\ q = d \div Second
  BY <1>1
<1>3. q \in Nat /\ d < Second * q + Second
  BY <1>1, <1>2
<1>4. PICK p \in Int : p = Second * q
  BY <1>1, <1>3
<1>5. t + Rounding < p + Second
  BY <1>2, <1>3, <1>4
<1>6. t <= p + (Second - 1 - Rounding)
  BY <1>1, <1>4, <1>5
<1> QED BY <1>2, <1>3, <1>4, <1>6 DEF Seconds, Shortfall

\* An attempt counts against keys of the limiter.
LEMMA KeysTyped ==
    ASSUME NEW a \in Addresses, NEW u \in Usernames
    PROVE  RateKeys(a, u) \subseteq Key
<1>1. Normalized[u] \in Names BY LimitAssumption
<1> QED BY <1>1 DEF RateKeys, PairKey, AddressKey, NameKey, Key

LEMMA KeyKind == \A k \in Key : k.kind \in Kind /\ Limit[k.kind] \in Nat \ {0}
<1>1. \A k \in Key : k.kind \in Kind BY DEF Key, Kind
<1> QED BY <1>1, LimitAssumption

\* What a counted attempt does to a key: one more, and a window that was open keeps
\* its end.
LEMMA HitTyped ==
    ASSUME NEW k \in Key, NEW b \in [count : Nat, ttl : 0..Span],
           b.count = 0 <=> b.ttl = 0
    PROVE  /\ Hit(k, b) \in [count : Nat, ttl : 1..Span]
           /\ Hit(k, b).count > 0 /\ Hit(k, b).count >= b.count
           /\ Hit(k, b).count <= Limit[k.kind] => Hit(k, b).count = b.count + 1
           /\ b.count > 0 => Hit(k, b).ttl = b.ttl
           /\ b.count = 0 => Hit(k, b).ttl = Span
<1>1. Limit[k.kind] \in Nat \ {0} BY KeyKind
<1>2. Span \in Nat \ {0} BY SpanTyped
<1>3. b.count \in Nat /\ b.ttl \in 0..Span OBVIOUS
<1> QED BY <1>1, <1>2, <1>3 DEF Hit, Increment

\* The script keeps the types of the keys.
LEMMA ScriptTyped ==
    ASSUME TypeOK, NEW keys \in SUBSET Key
    PROVE  /\ Script(keys) \in [Key -> [count : Nat, ttl : 0..Span]]
           /\ \A k \in Key : Script(keys)[k].count = 0 <=> Script(keys)[k].ttl = 0
           /\ \A k \in keys : Script(keys)[k] = Hit(k, bucket[k])
           /\ \A k \in Key \ keys : Script(keys)[k] = bucket[k]
<1>1. \A k \in Key : bucket[k] \in [count : Nat, ttl : 0..Span]
                      /\ (bucket[k].count = 0 <=> bucket[k].ttl = 0)
  BY DEF TypeOK
<1>2. \A k \in Key : Hit(k, bucket[k]) \in [count : Nat, ttl : 1..Span]
                      /\ Hit(k, bucket[k]).count > 0
  BY <1>1, HitTyped
<1>3. \A k \in Key : Hit(k, bucket[k]) \in [count : Nat, ttl : 0..Span]
                      /\ Hit(k, bucket[k]).ttl > 0
  BY <1>2, SpanTyped
<1>4. /\ \A k \in keys : Script(keys)[k] = Hit(k, bucket[k])
      /\ \A k \in Key \ keys : Script(keys)[k] = bucket[k]
  BY DEF Script
<1>5. \A k \in Key : Script(keys)[k] \in [count : Nat, ttl : 0..Span]
  BY <1>1, <1>3, <1>4
<1>6. \A k \in Key : Script(keys)[k].count = 0 <=> Script(keys)[k].ttl = 0
  <2> TAKE k \in Key
  <2>1. CASE k \in keys
    <3>1. Script(keys)[k].count > 0 /\ Script(keys)[k].ttl > 0 BY <2>1, <1>2, <1>3, <1>4
    <3>2. Script(keys)[k].count \in Nat /\ Script(keys)[k].ttl \in 0..Span BY <1>5
    <3> QED BY <3>1, <3>2, SpanTyped
  <2>2. CASE k \notin keys BY <2>2, <1>1, <1>4
  <2> QED BY <2>1, <2>2
<1> QED BY <1>4, <1>5, <1>6 DEF Script

\* The wait a refusal asks for covers all windows of the attempt, up to the rounding.
LEMMA RetryAfterCovers ==
    ASSUME NEW a \in Addresses, NEW u \in Usernames,
           NEW after \in [Key -> [count : Nat, ttl : 0..Span]]
    PROVE  /\ RetryAfter(RateKeys(a, u), after) \in Nat
           /\ \A k \in RateKeys(a, u) :
                after[k].ttl <= RetryAfter(RateKeys(a, u), after) + Shortfall
<1> DEFINE p == PairKey(a, Normalized[u])
           q == AddressKey(a)
           r == NameKey(Normalized[u])
<1>1. RateKeys(a, u) = {p, q, r} BY DEF RateKeys
<1>2. p \in Key /\ q \in Key /\ r \in Key BY <1>1, KeysTyped
<1>3. after[p].ttl \in Nat /\ after[q].ttl \in Nat /\ after[r].ttl \in Nat
  BY <1>2, SpanTyped
<1>4. PICK i \in Nat : i = Seconds(after[p].ttl) BY <1>3, SecondsCover
<1>5. PICK j \in Nat : j = Seconds(after[q].ttl) BY <1>3, SecondsCover
<1>6. PICK l \in Nat : l = Seconds(after[r].ttl) BY <1>3, SecondsCover
<1>7. PICK S : S = {i, j, l, 1} OBVIOUS
<1>8. {Seconds(after[k].ttl) : k \in RateKeys(a, u)} \cup {1} = S
  BY <1>1, <1>4, <1>5, <1>6, <1>7
<1>9. PICK m : m = Max(S) OBVIOUS
<1>10. m \in Nat /\ i <= m /\ j <= m /\ l <= m
  <2>1. Max(S) \in S /\ \A y \in S : y <= Max(S)
    BY <1>7, MaxOfFour
  <2> QED BY <1>7, <1>9, <2>1
<1>11. RetryAfter(RateKeys(a, u), after) = Second * m BY <1>8, <1>9 DEF RetryAfter
<1>12. Second * m \in Nat /\ \A n \in Nat : n <= m => Second * n <= Second * m
  <2>1. \A x, y, z \in Nat : y <= z => x * y <= x * z
    OBVIOUS
  <2>2. \A x, y \in Nat : x * y \in Nat
    OBVIOUS
  <2> QED BY <1>10, <2>1, <2>2, SpanTyped
<1>13. ASSUME NEW t \in Nat, NEW n \in Nat, n = Seconds(t), n <= m
       PROVE  t <= Second * m + Shortfall
  <2>1. t <= Second * n + Shortfall BY <1>13, SecondsCover
  <2>2. PICK x \in Int, y \in Int : x = Second * n /\ y = Second * m
    BY <1>10, SpanTyped
  <2>3. x <= y BY <1>12, <1>13, <2>2
  <2>4. t <= x + Shortfall BY <2>1, <2>2
  <2>5. t <= y + Shortfall BY <2>2, <2>3, <2>4, SpanTyped
  <2> QED BY <2>2, <2>5
<1>14. /\ after[p].ttl <= Second * m + Shortfall /\ after[q].ttl <= Second * m + Shortfall
       /\ after[r].ttl <= Second * m + Shortfall
  BY <1>3, <1>4, <1>5, <1>6, <1>10, <1>13
<1> QED BY <1>1, <1>11, <1>12, <1>14

-----------------------------------------------------------------------------
LEMMA InitIInv == Init => IInv
<1> SUFFICES ASSUME Init PROVE IInv OBVIOUS
<1>1. Span \in Nat BY SpanTyped
<1>2. \A k \in Key : Limit[k.kind] \in Nat BY KeyKind
<1>3. TypeOK BY <1>1 DEF Init, TypeOK, Absent
<1>4. WindowLimit BY <1>2 DEF Init, WindowLimit
<1>5. Charged BY DEF Init, Charged, Absent
<1>6. RefusalOpen /\ RetryAfterSuffices BY DEF Init, RefusalOpen, RetryAfterSuffices
<1> QED BY <1>3, <1>4, <1>5, <1>6 DEF IInv

\* Both kinds of attempt count first.
LEMMA CountPreserves ==
    ASSUME IInv, NEW keys \in SUBSET Key, bucket' = Script(keys)
    PROVE  /\ bucket' \in [Key -> [count : Nat, ttl : 0..Span]]
           /\ \A k \in Key : bucket'[k].count = 0 <=> bucket'[k].ttl = 0
           /\ \A k \in Key : passed[k] <= bucket'[k].count
           /\ \A k \in refusal.keys : bucket'[k].count > 0 /\ bucket'[k].ttl = bucket[k].ttl
<1>1. TypeOK /\ Charged /\ RefusalOpen BY DEF IInv
<1>2. \A k \in Key : bucket[k] \in [count : Nat, ttl : 0..Span]
                      /\ (bucket[k].count = 0 <=> bucket[k].ttl = 0)
                      /\ passed[k] \in Nat
  BY <1>1 DEF TypeOK
<1>3. \A k \in Key : /\ Hit(k, bucket[k]).count > 0
                     /\ Hit(k, bucket[k]).count \in Nat
                     /\ Hit(k, bucket[k]).count >= bucket[k].count
                     /\ bucket[k].count > 0 => Hit(k, bucket[k]).ttl = bucket[k].ttl
  BY <1>2, HitTyped
<1>4. /\ bucket' \in [Key -> [count : Nat, ttl : 0..Span]]
      /\ \A k \in Key : bucket'[k].count = 0 <=> bucket'[k].ttl = 0
      /\ \A k \in keys : bucket'[k] = Hit(k, bucket[k])
      /\ \A k \in Key \ keys : bucket'[k] = bucket[k]
  BY <1>1, ScriptTyped
<1>5. \A k \in Key : passed[k] <= bucket'[k].count
  <2> TAKE k \in Key
  <2>1. passed[k] <= bucket[k].count BY <1>1 DEF Charged
  <2>2. bucket[k].count \in Nat BY <1>2
  <2>3. CASE k \in keys BY <2>1, <2>2, <2>3, <1>2, <1>3, <1>4
  <2>4. CASE k \notin keys BY <2>1, <2>4, <1>4
  <2> QED BY <2>3, <2>4
<1>6. \A k \in refusal.keys : bucket'[k].count > 0 /\ bucket'[k].ttl = bucket[k].ttl
  <2> TAKE k \in refusal.keys
  <2>1. k \in Key BY <1>1 DEF TypeOK
  <2>2. bucket[k].count > 0 BY <1>1 DEF RefusalOpen
  <2>3. CASE k \in keys BY <2>1, <2>2, <2>3, <1>3, <1>4
  <2>4. CASE k \notin keys BY <2>1, <2>2, <2>4, <1>4
  <2> QED BY <2>3, <2>4
<1> QED BY <1>4, <1>5, <1>6

LEMMA CheckPreserves ==
    ASSUME IInv, NEW a \in Addresses, NEW u \in Usernames, Check(a, u)
    PROVE  IInv'
<1>0. RateKeys(a, u) \subseteq Key BY KeysTyped
<1> PICK keys \in SUBSET Key : keys = RateKeys(a, u) BY <1>0
<1>1. bucket' = Script(keys) /\ Answer(keys, bucket') BY DEF Check
<1>2. TypeOK /\ WindowLimit /\ Charged /\ RefusalOpen /\ RetryAfterSuffices BY DEF IInv
<1>3. /\ bucket' \in [Key -> [count : Nat, ttl : 0..Span]]
      /\ \A k \in Key : bucket'[k].count = 0 <=> bucket'[k].ttl = 0
      /\ \A k \in Key : passed[k] <= bucket'[k].count
      /\ \A k \in refusal.keys : bucket'[k].count > 0 /\ bucket'[k].ttl = bucket[k].ttl
  BY <1>1, CountPreserves
<1>4. passed \in [Key -> Nat] /\ refusal \in [keys : SUBSET Key, wait : Nat]
  BY <1>2 DEF TypeOK
<1>5. \A k \in Key : Limit[k.kind] \in Nat BY KeyKind
<1>6. CASE Exceeded(keys, bucket') = {}
  <2>1. /\ passed' = [k \in Key |-> IF k \in keys THEN passed[k] + 1 ELSE passed[k]]
        /\ refusal' = refusal
    BY <1>1, <1>6 DEF Answer
  <2>2. \A k \in keys : bucket'[k].count = bucket[k].count + 1
                        /\ bucket'[k].count <= Limit[k.kind]
    <3> TAKE k \in keys
    <3>1. k \in Key OBVIOUS
    <3>2. ~(bucket'[k].count > Limit[k.kind]) BY <1>6 DEF Exceeded
    <3>3. bucket'[k].count \in Nat BY <3>1, <1>3
    <3>4. bucket'[k].count <= Limit[k.kind] BY <3>1, <3>2, <3>3, <1>5
    <3>5. bucket'[k] = Hit(k, bucket[k]) BY <1>1, <1>2, ScriptTyped
    <3>6. bucket[k] \in [count : Nat, ttl : 0..Span] /\ (bucket[k].count = 0 <=> bucket[k].ttl = 0)
      BY <3>1, <1>2 DEF TypeOK
    <3> QED BY <3>1, <3>4, <3>5, <3>6, HitTyped
  <2>3. \A k \in Key : passed'[k] <= bucket'[k].count /\ passed'[k] <= Limit[k.kind]
    <3> TAKE k \in Key
    <3>1. passed[k] <= bucket[k].count /\ passed[k] <= Limit[k.kind]
      BY <1>2 DEF Charged, WindowLimit
    <3>2. bucket[k].count \in Nat /\ passed[k] \in Nat BY <1>2 DEF TypeOK
    <3>3. CASE k \in keys
      <4>1. passed'[k] = passed[k] + 1 BY <2>1, <3>3
      <4>2. bucket'[k].count = bucket[k].count + 1 /\ bucket'[k].count <= Limit[k.kind]
        BY <2>2, <3>3
      <4> QED BY <3>1, <3>2, <4>1, <4>2, <1>5
    <3>4. CASE k \notin keys
      <4>1. passed'[k] = passed[k] BY <2>1, <3>4
      <4> QED BY <3>1, <4>1, <1>3
    <3> QED BY <3>3, <3>4
  <2>4. TypeOK' BY <1>3, <1>4, <2>1 DEF TypeOK
  <2>5. WindowLimit' /\ Charged' BY <2>3 DEF WindowLimit, Charged
  <2>6. RefusalOpen' /\ RetryAfterSuffices'
    BY <2>1, <1>2, <1>3 DEF RefusalOpen, RetryAfterSuffices
  <2> QED BY <2>4, <2>5, <2>6 DEF IInv
<1>7. CASE Exceeded(keys, bucket') # {}
  <2>1. /\ refusal' = [keys |-> Exceeded(keys, bucket'), wait |-> RetryAfter(keys, bucket')]
        /\ passed' = passed
    BY <1>1, <1>7 DEF Answer
  <2>2. Exceeded(keys, bucket') \subseteq keys BY DEF Exceeded
  <2> PICK after \in [Key -> [count : Nat, ttl : 0..Span]] : after = bucket' BY <1>3
  <2>3. /\ RetryAfter(keys, after) \in Nat
        /\ \A k \in keys : after[k].ttl <= RetryAfter(keys, after) + Shortfall
    BY RetryAfterCovers
  <2>4. TypeOK' BY <1>3, <1>4, <2>1, <2>2, <2>3 DEF TypeOK
  <2>5. WindowLimit' /\ Charged' BY <1>2, <1>3, <2>1 DEF WindowLimit, Charged
  <2>6. RefusalOpen'
    <3> SUFFICES ASSUME NEW k \in refusal'.keys PROVE bucket'[k].count > 0 BY DEF RefusalOpen
    <3>1. k \in keys /\ k \in Key BY <2>1, <2>2
    <3>2. bucket'[k] = Hit(k, bucket[k]) BY <1>1, <1>2, <3>1, ScriptTyped
    <3>3. bucket[k] \in [count : Nat, ttl : 0..Span] /\ (bucket[k].count = 0 <=> bucket[k].ttl = 0)
      BY <3>1, <1>2 DEF TypeOK
    <3> QED BY <3>1, <3>2, <3>3, HitTyped
  <2>7. RetryAfterSuffices' BY <2>1, <2>2, <2>3 DEF RetryAfterSuffices
  <2> QED BY <2>4, <2>5, <2>6, <2>7 DEF IInv
<1> QED BY <1>6, <1>7

LEMMA UnavailablePreserves ==
    ASSUME IInv, NEW a \in Addresses, NEW u \in Usernames, CheckUnavailable(a, u)
    PROVE  IInv'
<1>0. RateKeys(a, u) \subseteq Key BY KeysTyped
<1> PICK keys \in SUBSET Key : keys = RateKeys(a, u) BY <1>0
<1>1. bucket' = Script(keys) /\ passed' = passed /\ refusal' = refusal
  BY DEF CheckUnavailable
<1>2. TypeOK /\ WindowLimit /\ Charged /\ RefusalOpen /\ RetryAfterSuffices BY DEF IInv
<1>3. /\ bucket' \in [Key -> [count : Nat, ttl : 0..Span]]
      /\ \A k \in Key : bucket'[k].count = 0 <=> bucket'[k].ttl = 0
      /\ \A k \in Key : passed[k] <= bucket'[k].count
      /\ \A k \in refusal.keys : bucket'[k].count > 0 /\ bucket'[k].ttl = bucket[k].ttl
  BY <1>1, CountPreserves
<1>4. TypeOK' BY <1>1, <1>2, <1>3 DEF TypeOK
<1>5. WindowLimit' /\ Charged' BY <1>1, <1>2, <1>3 DEF WindowLimit, Charged
<1>6. RefusalOpen' /\ RetryAfterSuffices'
  BY <1>1, <1>2, <1>3 DEF RefusalOpen, RetryAfterSuffices
<1> QED BY <1>4, <1>5, <1>6 DEF IInv

LEMMA TickPreserves == IInv /\ Tick => IInv'
<1> SUFFICES ASSUME IInv, Tick PROVE IInv' OBVIOUS
<1>1. TypeOK /\ WindowLimit /\ Charged /\ RefusalOpen /\ RetryAfterSuffices BY DEF IInv
<1>2. Span \in Nat \ {0} BY SpanTyped
<1>3. \A k \in Key : bucket[k] \in [count : Nat, ttl : 0..Span]
                      /\ (bucket[k].count = 0 <=> bucket[k].ttl = 0)
  BY <1>1 DEF TypeOK
<1>4. \A k \in Key : /\ bucket'[k] = Aged(bucket[k])
                     /\ passed'[k] = IF WindowOpen(k) THEN passed[k] ELSE 0
  BY DEF Tick
<1>5. \A k \in Key : bucket[k].ttl > 1 =>
                       /\ bucket'[k] = [count |-> bucket[k].count, ttl |-> bucket[k].ttl - 1]
                       /\ passed'[k] = passed[k]
  BY <1>3, <1>4 DEF Aged, WindowOpen
<1>6. \A k \in Key : ~(bucket[k].ttl > 1) => bucket'[k] = [count |-> 0, ttl |-> 0] /\ passed'[k] = 0
  BY <1>4 DEF Aged, WindowOpen, Absent
<1>7. passed \in [Key -> Nat] /\ refusal \in [keys : SUBSET Key, wait : Nat]
  BY <1>1 DEF TypeOK
<1>8. \A k \in Key : /\ bucket'[k] \in [count : Nat, ttl : 0..Span]
                     /\ bucket'[k].count = 0 <=> bucket'[k].ttl = 0
                     /\ passed'[k] \in Nat
                     /\ passed'[k] <= bucket'[k].count /\ passed'[k] <= Limit[k.kind]
  <2> TAKE k \in Key
  <2>1. passed[k] \in Nat /\ passed[k] <= bucket[k].count /\ passed[k] <= Limit[k.kind]
    BY <1>1, <1>7 DEF Charged, WindowLimit
  <2>2. Limit[k.kind] \in Nat BY KeyKind
  <2>3. bucket[k].count \in Nat /\ bucket[k].ttl \in 0..Span BY <1>3
  <2>4. CASE bucket[k].ttl > 1
    <3>1. bucket'[k] = [count |-> bucket[k].count, ttl |-> bucket[k].ttl - 1] /\ passed'[k] = passed[k]
      BY <1>5, <2>4
    <3>2. bucket[k].count # 0 BY <1>3, <2>4
    <3> QED BY <1>2, <2>1, <2>3, <2>4, <3>1, <3>2
  <2>5. CASE ~(bucket[k].ttl > 1)
    BY <1>2, <1>6, <2>2, <2>5
  <2> QED BY <2>4, <2>5
<1>9. TypeOK'
  <2>1. bucket' = [k \in Key |-> Aged(bucket[k])]
        /\ passed' = [k \in Key |-> IF WindowOpen(k) THEN passed[k] ELSE 0]
    BY DEF Tick
  <2>2. bucket' \in [Key -> [count : Nat, ttl : 0..Span]] /\ passed' \in [Key -> Nat]
    BY <1>8, <2>1
  <2>3. refusal' \in [keys : SUBSET Key, wait : Nat]
    BY <1>2, <1>7 DEF Tick
  <2> QED BY <1>8, <2>2, <2>3 DEF TypeOK
<1>10. WindowLimit' /\ Charged' BY <1>8 DEF WindowLimit, Charged
<1>11. \A k \in refusal'.keys : /\ bucket'[k].count > 0
                                 /\ bucket'[k].ttl <= refusal'.wait + Shortfall
  <2> TAKE k \in refusal'.keys
  <2>1. k \in refusal.keys /\ bucket[k].ttl > 1 BY DEF Tick, WindowOpen
  <2>2. k \in Key BY <2>1, <1>7
  <2>3. bucket'[k] = [count |-> bucket[k].count, ttl |-> bucket[k].ttl - 1] BY <1>5, <2>1, <2>2
  <2>4. bucket[k].count > 0 /\ bucket[k].ttl <= refusal.wait + Shortfall
    BY <1>1, <2>1 DEF RefusalOpen, RetryAfterSuffices
  <2>5. refusal.wait \in Nat /\ bucket[k].ttl \in Nat /\ Shortfall \in Nat
    BY <1>2, <1>3, <1>7, <2>2, SpanTyped
  <2>6. refusal'.wait \in Nat /\ refusal'.wait >= refusal.wait - 1 BY <2>5 DEF Tick
  <2> QED BY <2>3, <2>4, <2>5, <2>6
<1>12. RefusalOpen' /\ RetryAfterSuffices' BY <1>11 DEF RefusalOpen, RetryAfterSuffices
<1> QED BY <1>9, <1>10, <1>12 DEF IInv

-----------------------------------------------------------------------------
\* The inductive invariant holds in every reachable state.
THEOREM Inductive == Spec => []IInv
<1>1. Init => IInv BY InitIInv
<1>2. IInv /\ [Next]_vars => IInv'
  <2> SUFFICES ASSUME IInv, [Next]_vars PROVE IInv' OBVIOUS
  <2>1. ASSUME NEW a \in Addresses, NEW u \in Usernames, Check(a, u) PROVE IInv'
    BY <2>1, CheckPreserves
  <2>2. ASSUME NEW a \in Addresses, NEW u \in Usernames, CheckUnavailable(a, u) PROVE IInv'
    BY <2>2, UnavailablePreserves
  <2>3. CASE Tick BY <2>3, TickPreserves
  <2>4. CASE UNCHANGED vars
    BY <2>4 DEF vars, IInv, TypeOK, WindowLimit, Charged, RefusalOpen, RetryAfterSuffices
  <2> QED BY <2>1, <2>2, <2>3, <2>4 DEF Next
<1> QED BY <1>1, <1>2, PTL DEF Spec

\* Types, and an expiry on every counted key.
THEOREM TypeCorrect == Spec => []TypeOK
<1>1. IInv => TypeOK BY DEF IInv
<1> QED BY <1>1, Inductive, PTL

\* No window of any key lets more attempts through than its limit.
THEOREM LimitKept == Spec => []WindowLimit
<1>1. IInv => WindowLimit BY DEF IInv
<1> QED BY <1>1, Inductive, PTL

\* Who waits what a refusal asked for finds each window that caused it closed, or with
\* less than Second - Rounding ticks left: under half a second on Redis, where TTL
\* rounds to the nearest second (Rounding = Second \div 2).
THEOREM RetryAfterHonest == Spec => []RetryAfterSuffices
<1>1. IInv => RetryAfterSuffices BY DEF IInv
<1> QED BY <1>1, Inductive, PTL
=============================================================================

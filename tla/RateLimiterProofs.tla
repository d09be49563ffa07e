-------------------------- MODULE RateLimiterProofs --------------------------
(***************************************************************************)
(* RateLimiter keeps the rate, and refuses nothing it need not refuse, for *)
(* every rate, burst, number of callers and length of run.                 *)
(*                                                                         *)
(* The argument follows one number per bucket, its level: lastSeen less    *)
(* tokens.  The passing of time leaves it alone, also when a late caller   *)
(* takes lastSeen back; a granted call raises it by Period; the cap can    *)
(* only raise it.  A granted call leaves tokens, so the level never passes *)
(* the time its caller brought.                                            *)
(***************************************************************************)
EXTENDS RateLimiter, TLAPS

level(b) == b.lastSeen - b.tokens

\* The types, and what the mutex and the bound on waiting leave of time
InTime ==
  /\ clock \in Nat
  /\ buckets \in [Origins -> [tokens: Int, lastSeen: Int]]
  /\ caller \in [Callers -> [key: Origins, now: Nat] \cup {outside}]
  /\ spent \in [Origins -> Nat]
  /\ grants \in [Origins -> SUBSET [at: Nat, before: Nat]]
  /\ \A c \in Callers : caller[c] # outside => caller[c].now <= clock /\ clock - caller[c].now <= MaxDelay
  /\ \A k \in Origins : buckets[k] # noBucket =>
       /\ 0 <= buckets[k].lastSeen /\ buckets[k].lastSeen <= clock
       /\ level(buckets[k]) <= clock
       /\ buckets[k].tokens >= -MaxDelay

\* No granted call has more after it than the level accounts for; where the
\* bucket was dropped, the time since then accounts for it.
Accounted ==
  \A k \in Origins : \A g \in grants[k] :
    /\ g.before + Period <= spent[k]
    /\ buckets[k] # noBucket => spent[k] - g.before <= Capacity - g.at + level(buckets[k])
    /\ buckets[k] = noBucket => spent[k] - g.before <= clock - MaxDelay - g.at

\* The level is no higher than it has to be: since the last time the bucket
\* was full, it has risen by what was granted.
Tight ==
  \A k \in Origins : buckets[k] # noBucket =>
    \E g \in grants[k] : spent[k] - g.before = Capacity - g.at + level(buckets[k])

LimiterInv == InTime /\ Accounted /\ Tight /\ RateIsKept

\* A burst of at least one call holds at least one call.
LEMMA CapacityFact == Capacity \in Nat /\ Period <= Capacity /\ Period \in Nat /\ Period > 0
<1>1. Period \in Nat /\ Burst \in Nat /\ Period >= 1 /\ Burst >= 1
  BY LimiterAssumption
<1>2. Burst * Period \in Nat /\ Period <= Burst * Period
  BY <1>1
<1> QED
  BY <1>1, <1>2 DEF Capacity

\* What a caller with the mutex finds: the level of its bucket, old or new,
\* accounts for all grants; the refill leaves the level or fills the bucket.
LEMMA AtTheBucket ==
  ASSUME LimiterInv, NEW c \in Callers, caller[c] # outside
  PROVE  LET k == caller[c].key
             called == caller[c].now
             b == bucketFor(k, called)
             refilled == refill(b, called)
         IN  /\ k \in Origins /\ called \in Nat /\ called <= clock /\ clock - called <= MaxDelay
             /\ b.tokens \in Int /\ b.lastSeen \in Int /\ refilled \in Int
             /\ level(b) <= clock
             /\ refilled <= Capacity
             /\ refilled = called - level(b) \/ (refilled = Capacity /\ called - level(b) > Capacity)
             /\ \A g \in grants[k] : spent[k] - g.before <= Capacity - g.at + level(b)
             /\ refilled < Period =>
                  /\ refilled = called - level(b)
                  /\ b = buckets[k] /\ buckets[k] # noBucket
<1> DEFINE k == caller[c].key
           called == caller[c].now
           b == bucketFor(k, called)
           refilled == refill(b, called)
<1>1. k \in Origins /\ called \in Nat /\ called <= clock /\ clock - called <= MaxDelay /\ clock \in Nat
  BY DEF LimiterInv, InTime
<1>2. buckets[k] \in [tokens: Int, lastSeen: Int]
  BY <1>1 DEF LimiterInv, InTime
<1>3. spent[k] \in Nat /\ \A g \in grants[k] : g.at \in Nat /\ g.before \in Nat
  BY <1>1 DEF LimiterInv, InTime
<1>4. MaxDelay \in Nat
  BY LimiterAssumption
<1>5. CASE buckets[k] = noBucket
  <2>1. b = [tokens |-> Capacity, lastSeen |-> called]
    BY <1>5 DEF bucketFor
  <2>2. b.tokens = Capacity /\ b.lastSeen = called
    BY <2>1
  <2>3. level(b) = called - Capacity
    BY <2>2 DEF level
  <2>4. refilled = Capacity
    BY <2>2, <1>1, CapacityFact DEF refill
  <2>5. \A g \in grants[k] : spent[k] - g.before <= clock - MaxDelay - g.at
    BY <1>1, <1>5 DEF LimiterInv, Accounted
  <2>6. \A g \in grants[k] : spent[k] - g.before <= Capacity - g.at + level(b)
    BY <2>5, <2>3, <1>1, <1>3, <1>4, CapacityFact
  <2> QED
    BY <1>1, <1>3, <2>2, <2>3, <2>4, <2>6, CapacityFact
<1>6. CASE buckets[k] # noBucket
  <2>1. b = buckets[k]
    BY <1>6 DEF bucketFor
  <2>2. b.tokens \in Int /\ b.lastSeen \in Int
    BY <2>1, <1>2
  <2>3. level(b) <= clock
    BY <2>1, <1>1, <1>6 DEF LimiterInv, InTime
  <2>4. level(b) = b.lastSeen - b.tokens
    BY DEF level
  <2>5. b.tokens + (called - b.lastSeen) = called - level(b)
    BY <2>2, <2>4, <1>1
  <2>6. refilled = IF called - level(b) > Capacity THEN Capacity ELSE called - level(b)
    BY <2>5 DEF refill
  <2>7. \A g \in grants[k] : spent[k] - g.before <= Capacity - g.at + level(b)
    BY <2>1, <1>1, <1>6 DEF LimiterInv, Accounted
  <2>8. level(b) \in Int
    BY <2>2, <2>4
  <2> HIDE DEF b, refilled
  <2>9. refilled \in Int /\ refilled <= Capacity
    BY <2>6, <2>8, <1>1, CapacityFact
  <2>10. refilled = called - level(b) \/ (refilled = Capacity /\ called - level(b) > Capacity)
    BY <2>6
  <2>11. refilled < Period => refilled = called - level(b)
    BY <2>10, <2>9, CapacityFact
  <2> QED
    BY <1>1, <1>6, <2>1, <2>2, <2>3, <2>7, <2>9, <2>10, <2>11 DEF b, refilled
<1> QED
  BY <1>5, <1>6

\* A granted call keeps the invariant.
LEMMA GrantKeeps ==
  ASSUME LimiterInv, NEW c \in Callers, Grant(c)
  PROVE  LimiterInv'
<1> DEFINE k == caller[c].key
           called == caller[c].now
           b == bucketFor(k, called)
           refilled == refill(b, called)
           g0 == [at |-> called, before |-> spent[k]]
<1>1. /\ caller[c] # outside /\ refilled >= Period
      /\ buckets' = [buckets EXCEPT ![k] = [tokens |-> refilled - Period, lastSeen |-> called]]
      /\ caller' = [caller EXCEPT ![c] = outside]
      /\ spent' = [spent EXCEPT ![k] = @ + Period]
      /\ grants' = [grants EXCEPT ![k] = @ \cup {g0}]
      /\ clock' = clock
  BY DEF Grant
<1>2. /\ k \in Origins /\ called \in Nat /\ called <= clock /\ clock - called <= MaxDelay
      /\ b.tokens \in Int /\ b.lastSeen \in Int /\ refilled \in Int
      /\ level(b) <= clock
      /\ refilled <= Capacity
      /\ refilled = called - level(b) \/ (refilled = Capacity /\ called - level(b) > Capacity)
      /\ \A g \in grants[k] : spent[k] - g.before <= Capacity - g.at + level(b)
  BY <1>1, AtTheBucket
<1>3. level(b) \in Int
  BY <1>2 DEF level
<1>4. /\ clock \in Nat /\ MaxDelay \in Nat
      /\ buckets \in [Origins -> [tokens: Int, lastSeen: Int]]
      /\ caller \in [Callers -> [key: Origins, now: Nat] \cup {outside}]
      /\ spent \in [Origins -> Nat]
      /\ grants \in [Origins -> SUBSET [at: Nat, before: Nat]]
  BY LimiterAssumption DEF LimiterInv, InTime
<1> HIDE DEF k, called, b, refilled
<1>5. g0 \in [at: Nat, before: Nat] /\ g0.at = called /\ g0.before = spent[k] /\ spent[k] \in Nat
  BY <1>2, <1>4
<1>6. /\ buckets'[k] = [tokens |-> refilled - Period, lastSeen |-> called]
      /\ buckets'[k].tokens = refilled - Period /\ buckets'[k].lastSeen = called
      /\ spent'[k] = spent[k] + Period
      /\ grants'[k] = grants[k] \cup {g0}
  BY <1>1, <1>2, <1>4
<1>7. buckets'[k] # noBucket
  BY <1>6, <1>2 DEF noBucket
<1>8. level(buckets'[k]) = called - refilled + Period
  BY <1>6, <1>2, CapacityFact DEF level
<1>9. \A j \in Origins : j # k => buckets'[j] = buckets[j] /\ spent'[j] = spent[j] /\ grants'[j] = grants[j]
  BY <1>1, <1>4
<1>10. \A g \in grants[k] : g.at \in Nat /\ g.before \in Nat /\ g.before + Period <= spent[k]
  BY <1>2, <1>4 DEF LimiterInv, Accounted
<1>11. called - refilled >= level(b) /\ called - refilled + Period <= called
  BY <1>1, <1>2, <1>3, CapacityFact
<1>12. InTime'
  <2>1. /\ buckets' \in [Origins -> [tokens: Int, lastSeen: Int]]
        /\ caller' \in [Callers -> [key: Origins, now: Nat] \cup {outside}]
        /\ spent' \in [Origins -> Nat]
        /\ grants' \in [Origins -> SUBSET [at: Nat, before: Nat]]
    <3>1. [tokens |-> refilled - Period, lastSeen |-> called] \in [tokens: Int, lastSeen: Int]
      BY <1>2, CapacityFact
    <3>2. spent[k] + Period \in Nat
      BY <1>5, CapacityFact
    <3> QED
      BY <1>1, <1>2, <1>4, <1>5, <3>1, <3>2
  <2>2. \A d \in Callers : caller'[d] # outside =>
          caller'[d].now <= clock' /\ clock' - caller'[d].now <= MaxDelay
    BY <1>1, <1>4 DEF LimiterInv, InTime
  <2>3. \A j \in Origins : buckets'[j] # noBucket =>
          /\ 0 <= buckets'[j].lastSeen /\ buckets'[j].lastSeen <= clock'
          /\ level(buckets'[j]) <= clock'
          /\ buckets'[j].tokens >= -MaxDelay
    <3> SUFFICES ASSUME NEW j \in Origins, buckets'[j] # noBucket
                 PROVE  /\ 0 <= buckets'[j].lastSeen /\ buckets'[j].lastSeen <= clock'
                        /\ level(buckets'[j]) <= clock'
                        /\ buckets'[j].tokens >= -MaxDelay
      OBVIOUS
    <3>1. CASE j = k
      BY <3>1, <1>1, <1>2, <1>4, <1>6, <1>8, <1>11, CapacityFact
    <3>2. CASE j # k
      BY <3>2, <1>1, <1>9 DEF LimiterInv, InTime
    <3> QED
      BY <3>1, <3>2
  <2> QED
    BY <2>1, <2>2, <2>3, <1>1, <1>4 DEF InTime, level, outside, noBucket
<1>13. Accounted'
  <2> SUFFICES ASSUME NEW j \in Origins, NEW g \in grants'[j]
               PROVE  /\ g.before + Period <= spent'[j]
                      /\ buckets'[j] # noBucket => spent'[j] - g.before <= Capacity - g.at + level(buckets'[j])
                      /\ buckets'[j] = noBucket => spent'[j] - g.before <= clock' - MaxDelay - g.at
    BY DEF Accounted, level, noBucket
  <2>1. CASE j # k
    BY <2>1, <1>1, <1>9 DEF LimiterInv, Accounted
  <2>2. CASE j = k /\ g = g0
    BY <2>2, <1>2, <1>5, <1>6, <1>7, <1>8, CapacityFact
  <2>3. CASE j = k /\ g \in grants[k]
    <3>1. spent[k] - g.before <= Capacity - g.at + level(b)
      BY <2>3, <1>2
    <3>2. g.at \in Nat /\ g.before \in Nat /\ g.before + Period <= spent[k]
      BY <2>3, <1>10
    <3>3. spent[k] + Period - g.before <= Capacity - g.at + (called - refilled + Period)
      BY <3>1, <3>2, <1>2, <1>3, <1>5, <1>11, CapacityFact
    <3> QED
      BY <2>3, <3>2, <3>3, <1>5, <1>6, <1>7, <1>8, CapacityFact
  <2> QED
    BY <2>1, <2>2, <2>3, <1>6
<1>14. Tight'
  <2> SUFFICES ASSUME NEW j \in Origins, buckets'[j] # noBucket
               PROVE  \E g \in grants'[j] : spent'[j] - g.before = Capacity - g.at + level(buckets'[j])
    BY DEF Tight, level, noBucket
  <2>1. CASE j # k
    BY <2>1, <1>9 DEF LimiterInv, Tight
  <2>2. CASE j = k /\ refilled = Capacity
    <3>1. spent'[k] - g0.before = Capacity - g0.at + level(buckets'[k])
      BY <2>2, <1>2, <1>5, <1>6, <1>8, CapacityFact
    <3> QED
      BY <2>2, <3>1, <1>6, Zenon
  <2>3. CASE j = k /\ refilled # Capacity
    <3>1. refilled = called - level(b)
      BY <2>3, <1>2
    <3>2. buckets[k] # noBucket /\ b = buckets[k]
      <4>1. SUFFICES ASSUME buckets[k] = noBucket PROVE FALSE
        BY DEF b, bucketFor
      <4>2. b.tokens = Capacity /\ b.lastSeen = called
        BY <4>1 DEF b, bucketFor
      <4>3. level(b) = called - Capacity
        BY <4>2 DEF level
      <4> QED
        BY <4>3, <3>1, <2>3, <1>2, CapacityFact
    <3>3. PICK g \in grants[k] : spent[k] - g.before = Capacity - g.at + level(b)
      BY <3>2, <1>2 DEF LimiterInv, Tight
    <3>4. spent'[k] - g.before = Capacity - g.at + level(buckets'[k])
      BY <3>1, <3>3, <1>2, <1>3, <1>5, <1>6, <1>8, <1>10, CapacityFact
    <3> QED
      BY <2>3, <3>4, <1>6
  <2> QED
    BY <2>1, <2>2, <2>3
<1>15. RateIsKept'
  <2> SUFFICES ASSUME NEW j \in Origins, NEW first \in grants'[j], NEW last \in grants'[j],
                      first.before <= last.before
               PROVE  last.before + Period - first.before <= Capacity + last.at - first.at
    BY DEF RateIsKept
  <2>1. CASE j # k
    BY <2>1, <1>9 DEF LimiterInv, RateIsKept
  <2>2. CASE j = k /\ first \in grants[k] /\ last \in grants[k]
    BY <2>2, <1>2 DEF LimiterInv, RateIsKept
  <2>3. CASE j = k /\ first \in grants[k] /\ last = g0
    <3>1. spent[k] - first.before <= Capacity - first.at + level(b)
      BY <2>3, <1>2
    <3>2. first.at \in Nat /\ first.before \in Nat
      BY <2>3, <1>10
    <3> QED
      BY <2>3, <3>1, <3>2, <1>2, <1>3, <1>5, <1>11, CapacityFact
  <2>4. CASE j = k /\ first = g0 /\ last \in grants[k]
    <3>1. last.before + Period <= spent[k] /\ last.before \in Nat
      BY <2>4, <1>10
    <3> QED
      BY <2>4, <3>1, <1>5, CapacityFact
  <2>5. CASE j = k /\ first = g0 /\ last = g0
    BY <2>5, <1>2, <1>5, CapacityFact
  <2> QED
    BY <2>1, <2>2, <2>3, <2>4, <2>5, <1>6
<1> QED
  BY <1>12, <1>13, <1>14, <1>15 DEF LimiterInv

\* A refused call keeps the invariant: the level stays, only lastSeen moves.
LEMMA RefuseKeeps ==
  ASSUME LimiterInv, NEW c \in Callers, Refuse(c)
  PROVE  LimiterInv'
<1> DEFINE k == caller[c].key
           called == caller[c].now
           b == bucketFor(k, called)
           refilled == refill(b, called)
<1>1. /\ caller[c] # outside /\ refilled < Period
      /\ buckets' = [buckets EXCEPT ![k] = [tokens |-> refilled, lastSeen |-> called]]
      /\ caller' = [caller EXCEPT ![c] = outside]
      /\ spent' = spent /\ grants' = grants /\ clock' = clock
  BY DEF Refuse
<1>2. /\ k \in Origins /\ called \in Nat /\ called <= clock /\ clock - called <= MaxDelay
      /\ refilled \in Int /\ refilled = called - level(b)
      /\ b = buckets[k] /\ buckets[k] # noBucket
  BY <1>1, AtTheBucket
<1>3. /\ clock \in Nat /\ MaxDelay \in Nat
      /\ buckets \in [Origins -> [tokens: Int, lastSeen: Int]]
      /\ caller \in [Callers -> [key: Origins, now: Nat] \cup {outside}]
  BY LimiterAssumption DEF LimiterInv, InTime
<1> HIDE DEF k, called, b, refilled
<1>4. level(buckets[k]) \in Int /\ level(buckets[k]) <= clock
  BY <1>2, <1>3 DEF LimiterInv, InTime, level
<1>5. /\ buckets'[k] = [tokens |-> refilled, lastSeen |-> called]
      /\ buckets'[k].tokens = refilled /\ buckets'[k].lastSeen = called
  BY <1>1, <1>2, <1>3
<1>6. buckets'[k] # noBucket
  BY <1>2, <1>5 DEF noBucket
<1>7. level(buckets'[k]) = level(buckets[k])
  BY <1>2, <1>4, <1>5 DEF level
<1>8. \A j \in Origins : j # k => buckets'[j] = buckets[j]
  BY <1>1, <1>3
<1>9. \A j \in Origins : /\ buckets'[j] = noBucket <=> buckets[j] = noBucket
                         /\ buckets[j] # noBucket => level(buckets'[j]) = level(buckets[j])
  BY <1>2, <1>6, <1>7, <1>8
<1>10. InTime'
  <2>1. /\ buckets' \in [Origins -> [tokens: Int, lastSeen: Int]]
        /\ caller' \in [Callers -> [key: Origins, now: Nat] \cup {outside}]
    <3>1. [tokens |-> refilled, lastSeen |-> called] \in [tokens: Int, lastSeen: Int]
      BY <1>2
    <3> QED
      BY <1>1, <1>2, <1>3, <3>1
  <2>2. \A d \in Callers : caller'[d] # outside =>
          caller'[d].now <= clock' /\ clock' - caller'[d].now <= MaxDelay
    BY <1>1, <1>3 DEF LimiterInv, InTime
  <2>3. \A j \in Origins : buckets'[j] # noBucket =>
          /\ 0 <= buckets'[j].lastSeen /\ buckets'[j].lastSeen <= clock'
          /\ level(buckets'[j]) <= clock'
          /\ buckets'[j].tokens >= -MaxDelay
    <3> SUFFICES ASSUME NEW j \in Origins, buckets'[j] # noBucket
                 PROVE  /\ 0 <= buckets'[j].lastSeen /\ buckets'[j].lastSeen <= clock'
                        /\ level(buckets'[j]) <= clock'
                        /\ buckets'[j].tokens >= -MaxDelay
      OBVIOUS
    <3>1. CASE j = k
      BY <3>1, <1>1, <1>2, <1>3, <1>4, <1>5, <1>7
    <3>2. CASE j # k
      BY <3>2, <1>1, <1>8 DEF LimiterInv, InTime
    <3> QED
      BY <3>1, <3>2
  <2> QED
    BY <2>1, <2>2, <2>3, <1>1 DEF LimiterInv, InTime, level, outside, noBucket
<1>11. Accounted'
  BY <1>1, <1>9 DEF LimiterInv, Accounted, level, noBucket
<1>12. Tight'
  BY <1>1, <1>9 DEF LimiterInv, Tight, level, noBucket
<1>13. RateIsKept'
  BY <1>1 DEF LimiterInv, RateIsKept
<1> QED
  BY <1>10, <1>11, <1>12, <1>13 DEF LimiterInv

\* Dropping an idle bucket keeps the invariant: by then it would be full.
LEMMA CleanupKeeps ==
  ASSUME LimiterInv, Cleanup
  PROVE  LimiterInv'
<1>1. PICK called \in 0..clock :
        /\ buckets' = [k \in Origins |-> IF buckets[k] # noBucket /\ called - buckets[k].lastSeen > idleEvictAfter
                                         THEN noBucket ELSE buckets[k]]
        /\ clock' = clock /\ caller' = caller /\ spent' = spent /\ grants' = grants
  BY DEF Cleanup
<1>2. \A k \in Origins : \/ buckets'[k] = buckets[k]
                         \/ /\ buckets'[k] = noBucket /\ buckets[k] # noBucket
                            /\ called - buckets[k].lastSeen > idleEvictAfter
  BY <1>1
<1>3. noBucket \in [tokens: Int, lastSeen: Int]
  BY DEF noBucket
<1>4. buckets' \in [Origins -> [tokens: Int, lastSeen: Int]]
  BY <1>1, <1>3 DEF LimiterInv, InTime
<1>5. InTime'
  BY <1>1, <1>2, <1>4 DEF LimiterInv, InTime, level, outside, noBucket
<1>6. Accounted'
  <2> SUFFICES ASSUME NEW k \in Origins, NEW g \in grants[k]
               PROVE  /\ g.before + Period <= spent[k]
                      /\ buckets'[k] # noBucket => spent[k] - g.before <= Capacity - g.at + level(buckets'[k])
                      /\ buckets'[k] = noBucket => spent[k] - g.before <= clock - MaxDelay - g.at
    BY <1>1 DEF Accounted, level, noBucket
  <2>1. CASE buckets'[k] = buckets[k]
    BY <2>1 DEF LimiterInv, Accounted
  <2>2. CASE /\ buckets'[k] = noBucket /\ buckets[k] # noBucket
             /\ called - buckets[k].lastSeen > idleEvictAfter
    <3>1. /\ buckets[k].tokens \in Int /\ buckets[k].lastSeen \in Int /\ buckets[k].tokens >= -MaxDelay
          /\ clock \in Nat /\ spent[k] \in Nat /\ g.at \in Nat /\ g.before \in Nat
      BY <2>2 DEF LimiterInv, InTime
    <3>2. spent[k] - g.before <= Capacity - g.at + (buckets[k].lastSeen - buckets[k].tokens)
      BY <2>2 DEF LimiterInv, Accounted, level
    <3>3. MaxDelay \in Nat /\ idleEvictAfter \in Nat /\ idleEvictAfter >= Capacity + 2 * MaxDelay
      BY LimiterAssumption, IdleAssumption
    <3>4. spent[k] - g.before <= clock - MaxDelay - g.at
      BY <2>2, <3>1, <3>2, <3>3, CapacityFact
    <3> QED
      BY <2>2, <3>4 DEF LimiterInv, Accounted
  <2> QED
    BY <2>1, <2>2, <1>2
<1>7. Tight'
  BY <1>1, <1>2 DEF LimiterInv, Tight, level, noBucket
<1>8. RateIsKept'
  BY <1>1 DEF LimiterInv, RateIsKept
<1> QED
  BY <1>5, <1>6, <1>7, <1>8 DEF LimiterInv

\* Every step keeps the invariant.
LEMMA StepKeeps == LimiterInv /\ [LimiterNext]_limiterVars => LimiterInv'
<1> SUFFICES ASSUME LimiterInv, [LimiterNext]_limiterVars PROVE LimiterInv'
  OBVIOUS
<1>1. ASSUME Elapse PROVE LimiterInv'
  <2>1. /\ clock' = clock + 1
        /\ \A c \in Callers : caller[c] # outside => clock - caller[c].now < MaxDelay
        /\ buckets' = buckets /\ caller' = caller /\ spent' = spent /\ grants' = grants
    BY <1>1 DEF Elapse
  <2>2. clock \in Nat /\ MaxDelay \in Nat
    BY LimiterAssumption DEF LimiterInv, InTime
  <2>3. \A c \in Callers : caller[c] # outside => caller[c].now \in Nat
    BY DEF LimiterInv, InTime
  <2>4. \A k \in Origins : level(buckets[k]) \in Int /\ buckets[k].lastSeen \in Int /\ spent[k] \in Nat
    BY DEF LimiterInv, InTime, level
  <2>5. \A k \in Origins : \A g \in grants[k] : g.at \in Nat /\ g.before \in Nat
    BY DEF LimiterInv, InTime
  <2>6. InTime'
    <3>1. \A c \in Callers : caller[c] # outside =>
            caller[c].now <= clock + 1 /\ (clock + 1) - caller[c].now <= MaxDelay
      BY <2>1, <2>2, <2>3 DEF LimiterInv, InTime
    <3>2. \A k \in Origins : buckets[k] # noBucket =>
            buckets[k].lastSeen <= clock + 1 /\ level(buckets[k]) <= clock + 1
      BY <2>2, <2>4 DEF LimiterInv, InTime
    <3>3. clock + 1 \in Nat
      BY <2>2
    <3>4. \A c \in Callers : caller'[c] # outside =>
            caller'[c].now <= clock' /\ clock' - caller'[c].now <= MaxDelay
      <4>1. clock' = clock + 1 /\ caller' = caller
        BY <2>1
      <4> QED
        BY <4>1, <3>1
    <3>5. \A k \in Origins : buckets'[k] # noBucket =>
            /\ 0 <= buckets'[k].lastSeen /\ buckets'[k].lastSeen <= clock'
            /\ level(buckets'[k]) <= clock'
            /\ buckets'[k].tokens >= -MaxDelay
      BY <2>1, <3>2 DEF LimiterInv, InTime
    <3>6. /\ clock' \in Nat
          /\ buckets' \in [Origins -> [tokens: Int, lastSeen: Int]]
          /\ caller' \in [Callers -> [key: Origins, now: Nat] \cup {outside}]
          /\ spent' \in [Origins -> Nat]
          /\ grants' \in [Origins -> SUBSET [at: Nat, before: Nat]]
      BY <2>1, <3>3 DEF LimiterInv, InTime
    <3> QED
      BY <3>4, <3>5, <3>6 DEF InTime, level, outside, noBucket
  <2>7. Accounted'
    BY <2>1, <2>2, <2>4, <2>5 DEF LimiterInv, Accounted, level, noBucket
  <2> QED
    BY <2>1, <2>6, <2>7 DEF LimiterInv, Tight, RateIsKept, level, noBucket
<1>2. ASSUME NEW c \in Callers, NEW k \in Origins, Arrive(c, k) PROVE LimiterInv'
  <2>1. /\ caller' = [caller EXCEPT ![c] = [key |-> k, now |-> clock]]
        /\ clock' = clock /\ buckets' = buckets /\ spent' = spent /\ grants' = grants
    BY <1>2 DEF Arrive
  <2>2. clock \in Nat /\ MaxDelay \in Nat
    BY LimiterAssumption DEF LimiterInv, InTime
  <2>3. caller' \in [Callers -> [key: Origins, now: Nat] \cup {outside}]
    BY <2>1, <2>2 DEF LimiterInv, InTime
  <2>4. \A d \in Callers : caller'[d] # outside =>
          caller'[d].now <= clock /\ clock - caller'[d].now <= MaxDelay
    BY <2>1, <2>2 DEF LimiterInv, InTime
  <2>5. InTime'
    BY <2>1, <2>3, <2>4 DEF LimiterInv, InTime, level, outside, noBucket
  <2> QED
    BY <2>1, <2>5 DEF LimiterInv, Accounted, Tight, RateIsKept, level, noBucket
<1>3. ASSUME StopCleanup \/ UNCHANGED limiterVars PROVE LimiterInv'
  BY <1>3 DEF StopCleanup, limiterVars, LimiterInv, InTime, Accounted, Tight, RateIsKept, level, outside, noBucket
<1> QED
  BY <1>1, <1>2, <1>3, GrantKeeps, RefuseKeeps, CleanupKeeps DEF LimiterNext

\* The invariant holds of the empty limiter, hence always.
LEMMA InvariantHolds == LimiterSpec => []LimiterInv
<1>1. LimiterInit => LimiterInv
  <2> SUFFICES ASSUME LimiterInit PROVE LimiterInv
    OBVIOUS
  <2>1. noBucket \in [tokens: Int, lastSeen: Int]
    BY DEF noBucket
  <2>2. InTime
    BY <2>1 DEF LimiterInit, InTime
  <2> QED
    BY <2>2 DEF LimiterInit, LimiterInv, Accounted, Tight, RateIsKept
<1> QED
  BY <1>1, StepKeeps, PTL DEF LimiterSpec

\* Allow keeps every key to its rate (RateIsKept), for every rate and burst,
\* any number of callers and origins, and any clock.
THEOREM LimiterKeepsTheRate == LimiterSpec => []RateIsKept
<1>1. LimiterInv => RateIsKept
  BY DEF LimiterInv
<1> QED
  BY <1>1, InvariantHolds, PTL

\* Allow refuses only what would have broken the limit
\* (RefusedOnlyAtTheLimit), dropped buckets and late callers included.
THEOREM LimiterRefusesOnlyAtTheLimit == LimiterSpec => RefusedOnlyAtTheLimit
<1> DEFINE A == \A c \in Callers : caller[c] # outside /\ caller'[c] = outside /\ spent' = spent =>
                  \E first \in grants[caller[c].key] :
                    spent[caller[c].key] + Period - first.before > Capacity + caller[c].now - first.at
<1>1. LimiterInv /\ [LimiterNext]_limiterVars => [A]_limiterVars
  <2> SUFFICES ASSUME LimiterInv, LimiterNext, NEW c \in Callers,
                      caller[c] # outside, caller'[c] = outside, spent' = spent
               PROVE  \E first \in grants[caller[c].key] :
                        spent[caller[c].key] + Period - first.before > Capacity + caller[c].now - first.at
    OBVIOUS
  <2>1. caller \in [Callers -> [key: Origins, now: Nat] \cup {outside}] /\ spent \in [Origins -> Nat]
    BY DEF LimiterInv, InTime
  <2>2. Refuse(c)
    <3>1. ~ (Elapse \/ Cleanup \/ StopCleanup)
      BY DEF Elapse, Cleanup, StopCleanup
    <3>2. ASSUME NEW d \in Callers, NEW k \in Origins, Arrive(d, k) PROVE FALSE
      <4>1. caller' = [caller EXCEPT ![d] = [key |-> k, now |-> clock]] /\ clock \in Nat
        BY <3>2 DEF Arrive, LimiterInv, InTime
      <4>2. [key |-> k, now |-> clock].now = clock /\ outside.now = -1
        BY DEF outside
      <4>3. [key |-> k, now |-> clock] # outside
        BY <4>1, <4>2
      <4> QED
        BY <4>1, <4>3, <2>1
    <3>3. ASSUME NEW d \in Callers, Grant(d) PROVE FALSE
      <4>1. caller[d] # outside /\ spent' = [spent EXCEPT ![caller[d].key] = @ + Period]
        BY <3>3, Zenon DEF Grant
      <4>2. caller[d].key \in Origins
        BY <4>1, <2>1
      <4>3. spent[caller[d].key] \in Nat /\ spent'[caller[d].key] = spent[caller[d].key] + Period
        BY <4>1, <4>2, <2>1
      <4> QED
        BY <4>3, CapacityFact
    <3>4. ASSUME NEW d \in Callers, Refuse(d), d # c PROVE FALSE
      <4>1. caller' = [caller EXCEPT ![d] = outside]
        BY <3>4 DEF Refuse
      <4> QED
        BY <4>1, <3>4, <2>1
    <3> QED
      BY <3>1, <3>2, <3>3, <3>4 DEF LimiterNext
  <2> DEFINE k == caller[c].key
             called == caller[c].now
             b == bucketFor(k, called)
             refilled == refill(b, called)
  <2>3. refilled < Period
    BY <2>2 DEF Refuse
  <2>4. /\ k \in Origins /\ called \in Nat /\ refilled \in Int
        /\ refilled = called - level(b) /\ b = buckets[k] /\ buckets[k] # noBucket
    BY <2>3, AtTheBucket
  <2> HIDE DEF k, called, b, refilled
  <2>5. PICK first \in grants[k] : spent[k] - first.before = Capacity - first.at + level(buckets[k])
    BY <2>4 DEF LimiterInv, Tight
  <2>6. first.at \in Nat /\ first.before \in Nat /\ spent[k] \in Nat
    BY <2>4, <2>5 DEF LimiterInv, InTime
  <2>7. level(buckets[k]) \in Int
    BY <2>4 DEF LimiterInv, InTime, level
  <2>8. spent[k] + Period - first.before > Capacity + called - first.at
    BY <2>3, <2>4, <2>5, <2>6, <2>7, CapacityFact
  <2> QED
    BY <2>5, <2>8 DEF k, called
<1>2. LimiterSpec => [][A]_limiterVars
  BY <1>1, InvariantHolds, PTL DEF LimiterSpec
<1> QED
  BY <1>2 DEF RefusedOnlyAtTheLimit
=============================================================================

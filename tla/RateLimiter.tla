----------------------------- MODULE RateLimiter -----------------------------
(***************************************************************************)
(* The limiter of discovery requests (internal/ratelimit/tokenbucket.go):  *)
(* one token bucket per origin node, created when a key is first seen and  *)
(* dropped after an idle time.                                             *)
(*                                                                         *)
(* Time advances by the clock.  A bucket counts in ticks of refill: a tick *)
(* that passes is worth one, a call costs Period, and a full bucket holds  *)
(* Burst calls; these are the float64 tokens of the code times Period.     *)
(* Allow reads the clock before it waits for the mutex, so that callers    *)
(* reach the bucket in another order than that of the times they bring,    *)
(* and the elapsed time a bucket sees may be negative.                     *)
(***************************************************************************)
EXTENDS Integers

CONSTANTS Callers,        \* goroutines in BroadcastDiscovery
          Origins,        \* keys: req.OriginNodeID
          Period, Burst,  \* 1 / rate in ticks, and burst, as New leaves them
          idleEvictAfter,
          MaxDelay,       \* the longest wait for the mutex, in ticks
          MaxClock        \* the bound on time

ASSUME LimiterAssumption ==
  /\ Period \in Nat \ {0} /\ Burst \in Nat \ {0}
  /\ idleEvictAfter \in Nat /\ MaxDelay \in Nat /\ MaxClock \in Nat

Capacity == Burst * Period

\* A bucket is dropped only after it would have been full again, however late
\* its last caller was and the next one is: with 10 calls a second and a burst
\* of 20, two seconds against five minutes.
ASSUME IdleAssumption == idleEvictAfter >= Capacity + 2 * MaxDelay

VARIABLES clock,
          buckets,  \* Limiter.buckets
          caller,   \* for each goroutine in Allow, its key and its `now'
          cleaning, \* is the goroutine of cleanup running
          spent,    \* what each key has been granted so far, Period for each call
          grants    \* the calls granted to each key: their `now', and spent before them

limiterVars == <<clock, buckets, caller, cleaning, spent, grants>>

noBucket == [tokens |-> 0, lastSeen |-> -1]
outside == [key |-> "", now |-> -1]

LimiterTypeOK ==
  /\ clock \in 0..MaxClock
  /\ buckets \in [Origins -> [tokens: Int, lastSeen: Int]]
  /\ caller \in [Callers -> [key: Origins, now: Nat] \cup {outside}]
  /\ cleaning \in BOOLEAN
  /\ spent \in [Origins -> Nat]
  /\ \A k \in Origins : grants[k] \subseteq [at: Nat, before: Nat]

LimiterInit ==
  /\ clock = 0
  /\ buckets = [k \in Origins |-> noBucket]
  /\ caller = [c \in Callers |-> outside]
  /\ cleaning = TRUE
  /\ spent = [k \in Origins |-> 0]
  /\ grants = [k \in Origins |-> {}]

Elapse ==
  /\ clock < MaxClock
  /\ \A c \in Callers : caller[c] # outside => clock - caller[c].now < MaxDelay
  /\ clock' = clock + 1
  /\ UNCHANGED <<buckets, caller, cleaning, spent, grants>>

\* Allow: now := time.Now()
Arrive(c, k) ==
  /\ caller[c] = outside
  /\ caller' = [caller EXCEPT ![c] = [key |-> k, now |-> clock]]
  /\ UNCHANGED <<clock, buckets, cleaning, spent, grants>>

\* The bucket that Allow finds, or makes
bucketFor(k, now) == IF buckets[k] = noBucket THEN [tokens |-> Capacity, lastSeen |-> now] ELSE buckets[k]

\* Mutant: the tokens are not capped.
refillUncapped(b, now) == b.tokens + (now - b.lastSeen)

refill(b, now) ==
  LET tokens == b.tokens + (now - b.lastSeen)
  IN  IF tokens > Capacity THEN Capacity ELSE tokens

Grant(c) ==
  LET k == caller[c].key
      now == caller[c].now
      tokens == refill(bucketFor(k, now), now)
  IN  /\ caller[c] # outside
      /\ tokens >= Period
      /\ buckets' = [buckets EXCEPT ![k] = [tokens |-> tokens - Period, lastSeen |-> now]]
      /\ caller' = [caller EXCEPT ![c] = outside]
      /\ spent' = [spent EXCEPT ![k] = @ + Period]
      /\ grants' = [grants EXCEPT ![k] = @ \cup {[at |-> now, before |-> spent[k]]}]
      /\ UNCHANGED <<clock, cleaning>>

\* Mutant: a refusal costs a token too.
RefuseAndCharge(c) ==
  LET k == caller[c].key
      now == caller[c].now
      tokens == refill(bucketFor(k, now), now)
  IN  /\ caller[c] # outside
      /\ tokens < Period
      /\ buckets' = [buckets EXCEPT ![k] = [tokens |-> tokens - Period, lastSeen |-> now]]
      /\ caller' = [caller EXCEPT ![c] = outside]
      /\ UNCHANGED <<clock, cleaning, spent, grants>>

Refuse(c) ==
  LET k == caller[c].key
      now == caller[c].now
      tokens == refill(bucketFor(k, now), now)
  IN  /\ caller[c] # outside
      /\ tokens < Period
      /\ buckets' = [buckets EXCEPT ![k] = [tokens |-> tokens, lastSeen |-> now]]
      /\ caller' = [caller EXCEPT ![c] = outside]
      /\ UNCHANGED <<clock, cleaning, spent, grants>>

\* A tick of cleanup, which may be handled late: it drops the idle buckets.
Cleanup ==
  \E now \in 0..clock :
    LET idle == {k \in Origins : buckets[k] # noBucket /\ now - buckets[k].lastSeen > idleEvictAfter}
    IN  /\ cleaning
        /\ idle # {}
        /\ buckets' = [k \in Origins |-> IF k \in idle THEN noBucket ELSE buckets[k]]
        /\ UNCHANGED <<clock, caller, cleaning, spent, grants>>

\* Close
StopCleanup ==
  /\ cleaning
  /\ cleaning' = FALSE
  /\ UNCHANGED <<clock, buckets, caller, spent, grants>>

LimiterNext ==
  \/ Elapse
  \/ \E c \in Callers, k \in Origins : Arrive(c, k)
  \/ \E c \in Callers : Grant(c) \/ Refuse(c)
  \/ Cleanup
  \/ StopCleanup

LimiterSpec == LimiterInit /\ [][LimiterNext]_limiterVars
-----------------------------------------------------------------------------
\* Allow keeps every key to its rate: from any call it has granted up to the
\* latest one, it has granted no more than a burst and what the time between
\* them refills, by the times the callers brought, whatever the order in which
\* they got the mutex and although idle buckets are dropped and made anew, full.
RateIsKept ==
  \A k \in Origins : \A first, last \in grants[k] : first.before <= last.before =>
    last.before + Period - first.before <= Capacity + last.at - first.at

\* Allow refuses a call only where granting it would have broken that limit:
\* since some granted call the key has used up its burst and the refill.
RefusedOnlyAtTheLimit ==
  [][\A c \in Callers : caller[c] # outside /\ caller'[c] = outside /\ spent' = spent =>
       \E first \in grants[caller[c].key] :
         spent[caller[c].key] + Period - first.before > Capacity + caller[c].now - first.at]_limiterVars
=============================================================================

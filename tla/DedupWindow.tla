---------------------------- MODULE DedupWindow ----------------------------
(***************************************************************************)
(* What the deduplication index promises its callers, without shards,      *)
(* maps or a purger: once a key has been answered "not seen" for a time    *)
(* ttl, every call for that key is answered "seen" until the ttl is over,  *)
(* and the first call after it is answered "not seen" again.               *)
(*                                                                         *)
(* until[k] is the instant at which the window of key k closes, 0 when k   *)
(* is in no window.  The clock starts at 1, so no window closes at 0.      *)
(***************************************************************************)
EXTENDS Naturals

CONSTANTS Keys,   \* idempotency keys
          TTLs    \* the windows callers ask for, in clock ticks

VARIABLES now,    \* the node's monotonic clock
          until,  \* [Keys -> Nat], see above
          reply   \* the last answer given: which key, and was it seen

windowVars == <<now, until, reply>>

WindowInit ==
  /\ now = 1
  /\ until = [k \in Keys |-> 0]
  /\ reply \in [key: Keys, seen: {FALSE}]

Fresh(k, ttl) ==
  /\ until[k] = 0
  /\ until' = [until EXCEPT ![k] = now + ttl]
  /\ reply' = [key |-> k, seen |-> FALSE]
  /\ UNCHANGED now

Duplicate(k) ==
  /\ until[k] # 0
  /\ reply' = [key |-> k, seen |-> TRUE]
  /\ UNCHANGED <<now, until>>

\* Time passes; the windows it reaches the end of close.
Pass ==
  /\ now' = now + 1
  /\ until' = [k \in Keys |-> IF now' < until[k] THEN until[k] ELSE 0]
  /\ UNCHANGED reply

WindowNext ==
  \/ \E k \in Keys, ttl \in TTLs : Fresh(k, ttl)
  \/ \E k \in Keys : Duplicate(k)
  \/ Pass

WindowSpec == WindowInit /\ [][WindowNext]_windowVars
=============================================================================

----------------------------- MODULE DedupIndex -----------------------------
(***************************************************************************)
(* The in-memory deduplication index of a node (internal/dedup/index.go).  *)
(*                                                                         *)
(* The Go type holds 16 maps, each behind its own mutex.  Here entries[k]  *)
(* is the expiry stored for k, and 0 says that the map of k's shard has no *)
(* row for k (the clock starts at 1 and ttls are positive, so no stored    *)
(* expiry is 0).  A critical section of the code is one step.  Purge is    *)
(* not one critical section: it reads the clock once and then locks the    *)
(* shards one after the other, so SeenOrAdd runs between any two of its    *)
(* steps and the instant it compares with grows old.                       *)
(***************************************************************************)
EXTENDS Naturals

CONSTANTS Keys,      \* idempotency keys
          TTLs,      \* ttls that reach the index: the profile's and the iso20022 one
          numShards, \* the number of shards
          shardFor,  \* the shard of each key
          MaxTime    \* the bound on the clock

ASSUME KeysAssumption == Keys # {}
ASSUME TTLAssumption == TTLs \subseteq Nat \ {0}
ASSUME ShardAssumption == numShards \in Nat \ {0} /\ shardFor \in [Keys -> 1..numShards]
ASSUME MaxTimeAssumption == MaxTime \in Nat

VARIABLES now,      \* the monotonic clock behind time.Now
          entries,  \* [Keys -> Nat], see above
          purgeAt,  \* the instant the purge under way has read
          purged,   \* the shards it has done; numShards when no purge is under way
          reply     \* what the last call of SeenOrAdd returned, and for which key

vars == <<now, entries, purgeAt, purged, reply>>

TypeOK ==
  /\ now \in Nat \ {0}
  /\ entries \in [Keys -> Nat]
  /\ purgeAt \in Nat
  /\ purged \in 0..numShards
  /\ reply \in [key: Keys, seen: BOOLEAN]

Init ==
  /\ now = 1
  /\ entries = [k \in Keys |-> 0]
  /\ purgeAt = 0
  /\ purged = numShards
  /\ reply \in [key: Keys, seen: {FALSE}]

\* ok && now.Before(exp), for the row of k
Seen(k) == entries[k] # 0 /\ now < entries[k]

\* Mutant: every call restarts the window of its key.
SeenOrAddSliding(k, ttl) ==
  /\ reply' = [key |-> k, seen |-> Seen(k)]
  /\ entries' = [entries EXCEPT ![k] = now + ttl]
  /\ UNCHANGED <<now, purgeAt, purged>>

\* SeenOrAdd and SeenOrAddWithTTL: they differ in where the ttl comes from.
SeenOrAddWithTTL(k, ttl) ==
  /\ reply' = [key |-> k, seen |-> Seen(k)]
  /\ entries' = IF Seen(k) THEN entries ELSE [entries EXCEPT ![k] = now + ttl]
  /\ UNCHANGED <<now, purgeAt, purged>>

\* Purge reads the clock, then goes through the shards in order.
PurgeBegin ==
  /\ purged = numShards
  /\ purgeAt' = now
  /\ purged' = 0
  /\ UNCHANGED <<now, entries, reply>>

\* Mutant: the first shard is skipped.
PurgeFromSecond ==
  /\ purged < numShards
  /\ purged' = purged + 1
  /\ entries' = [k \in Keys |-> IF shardFor[k] = purged' + 1 /\ purgeAt > entries[k]
                                  THEN 0 ELSE entries[k]]
  /\ UNCHANGED <<now, purgeAt, reply>>

PurgeShard ==
  /\ purged < numShards
  /\ purged' = purged + 1
  /\ entries' = [k \in Keys |-> IF shardFor[k] = purged' /\ purgeAt > entries[k]
                                  THEN 0 ELSE entries[k]]
  /\ UNCHANGED <<now, purgeAt, reply>>

Tick ==
  /\ now < MaxTime
  /\ now' = now + 1
  /\ UNCHANGED <<entries, purgeAt, purged, reply>>

Purge == PurgeBegin \/ PurgeShard

Next ==
  \/ \E k \in Keys, ttl \in TTLs : SeenOrAddWithTTL(k, ttl)
  \/ Purge
  \/ Tick

Spec == Init /\ [][Next]_vars

\* runPurge calls Purge from a ticker for as long as the node runs.
FairSpec == Spec /\ WF_vars(Purge)

-----------------------------------------------------------------------------
(* A call sees the windows of DedupWindow: shards, lazily kept expired rows
   and the purger's old clock reading make no difference to any answer.     *)
Window == INSTANCE DedupWindow
            WITH until <- [k \in Keys |-> IF now < entries[k] THEN entries[k] ELSE 0]

\* Every SeenOrAdd answer is the one the abstract window gives: within its ttl
\* a key is reported new once, and a purge that compares with an instant read
\* long before it locks the shard never cuts a window short.
AnswersAsWindow == Window!WindowSpec

\* Purge bounds memory: the row of a key that is not sent again does not stay
\* behind once it has expired; it is removed, or renewed by a new call.
ExpiredRowsGo ==
  \A k \in Keys : (entries[k] # 0 /\ now > entries[k]) ~> (entries[k] = 0 \/ now <= entries[k])
=============================================================================

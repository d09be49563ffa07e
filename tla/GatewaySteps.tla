---------------------------- MODULE GatewaySteps ----------------------------
(***************************************************************************)
(* Facts about the steps of a node that handles envelopes, for any number  *)
(* of calls, keys and peers, any capacity of the transit cache and any     *)
(* number of retries and restarts: what the operators of Gateway return,   *)
(* and what each place of SendEnvelope does to the types of the state      *)
(* (GatewayTypes), to settlement (Acked), to the envelopes the node is     *)
(* answerable for (KeepsEnvelopes), and to the count of evaluations in     *)
(* each deduplication window (WindowInv). GatewayProofs puts them          *)
(* together.                                                               *)
(***************************************************************************)
EXTENDS Gateway, FiniteSetTheorems, TLAPS

Places == Held \cup {"dummy", "dedup", "duplicate", "policy", "final", "reply"}

TaskRecords ==
  [pc: Places, key: Keys, replays: Nat, ctxDone: BOOLEAN, list: Seq(peerKeys), attempt: 0..MaxAttempts]

QueueEntries == [key: Keys, reason: {"cutoff", "exhausted", "expired"}]

CallTypes ==
  /\ task \in [Calls -> TaskRecords \cup {idle}]
  /\ \A c \in Calls : task[c].pc \in {"send", "backoff"} => task[c].list # <<>> /\ task[c].attempt > 0

CacheTypes ==
  /\ transit \in Seq(Keys) /\ Len(transit) <= maxEntries /\ IsInjective(transit)
  /\ drained \in SUBSET Keys
  /\ dlq \in Seq(QueueEntries)

RecordTypes ==
  /\ seen \in SUBSET Keys
  /\ open \in BOOLEAN
  /\ peer \in [peerKeys \X Keys -> {"none", "ALLOW", "DENY"}]
  /\ audit \in [Keys \X Decisions -> Nat]
  /\ ended \in [Keys -> Nat]
  /\ dropped \in [Keys -> Drops]
  /\ calls \in 0..MaxCalls
  /\ restarts \in 0..MaxRestarts

GatewayTypes == CallTypes /\ CacheTypes /\ RecordTypes

\* Where the node may hold the envelope of k
inCall(k) == \E c \in Calls : task[c] # idle /\ task[c].pc \in Held /\ task[c].key = k
queued(k) == \E i \in DOMAIN dlq : dlq[i].key = k
cached(k) == k \in drained \cup Range(transit)

\* Settlement waits for a peer: a call that is past Forward has had an answer.
Acked ==
  /\ \A c \in Calls : task[c].pc = "final" => delivered(task[c].key)
  /\ FinalAfterAck

\* What every step does to the envelopes: a delivery is not taken back, a key is
\* accepted by a call that then holds it, what was given up stays so until it is
\* accepted again, and what was held is held, delivered or given up.
KeepsEnvelopes ==
  \A k \in Keys :
    /\ delivered(k) => delivered(k)'
    /\ audit'[<<k, "ALLOW">>] > 0 => audit[<<k, "ALLOW">>] > 0 \/ inCall(k)'
    /\ dropped[k] # "no" => dropped'[k] # "no" \/ inCall(k)'
    /\ holding(k) => holding(k)' \/ delivered(k)' \/ dropped'[k] # "no"
-----------------------------------------------------------------------------
\* A list without the member at one place: what is left, and nothing else
LEMMA WithoutFacts ==
  ASSUME NEW S, NEW s \in Seq(S), NEW i \in DOMAIN s
  PROVE  /\ without(s, i) \in Seq(S)
         /\ Len(without(s, i)) = Len(s) - 1
         /\ \A j \in DOMAIN s : j # i => \E m \in DOMAIN without(s, i) : without(s, i)[m] = s[j]
<1> DEFINE r == without(s, i)
<1>1. Len(s) - 1 \in Nat /\ i \in 1..Len(s) /\ DOMAIN s = 1..Len(s)
  OBVIOUS
<1>2. r = [j \in 1..(Len(s) - 1) |-> IF j < i THEN s[j] ELSE s[j + 1]]
  BY DEF without
<1> HIDE DEF r
<1>3. \A j \in 1..(Len(s) - 1) : r[j] \in S
  BY <1>1, <1>2
<1>4. r \in Seq(S) /\ Len(r) = Len(s) - 1
  BY <1>1, <1>2, <1>3
<1>5. ASSUME NEW j \in DOMAIN s, j # i PROVE \E m \in DOMAIN r : r[m] = s[j]
  <2>1. CASE j < i
    BY <1>1, <1>2, <2>1
  <2>2. CASE j > i
    <3>1. j - 1 \in 1..(Len(s) - 1) /\ ~(j - 1 < i) /\ (j - 1) + 1 = j
      BY <1>1, <2>2
    <3> QED
      BY <1>2, <3>1
  <2> QED
    BY <1>1, <1>5, <2>1, <2>2
<1> QED
  BY <1>4, <1>5 DEF r

\* A list without repetition, without the member at one place, does not have that member.
LEMMA WithoutInjective ==
  ASSUME NEW S, NEW s \in Seq(S), IsInjective(s), NEW i \in DOMAIN s
  PROVE  /\ IsInjective(without(s, i)) /\ s[i] \notin Range(without(s, i))
         /\ Range(s) \ {s[i]} \subseteq Range(without(s, i))
<1> DEFINE r == without(s, i)
<1>1. DOMAIN s = 1..Len(s) /\ Len(s) \in Nat /\ i \in 1..Len(s)
  OBVIOUS
<1>2. r = [j \in 1..(Len(s) - 1) |-> IF j < i THEN s[j] ELSE s[j + 1]]
  BY DEF without
<1>3. \A j, k \in 1..Len(s) : s[j] = s[k] => j = k
  BY <1>1 DEF IsInjective
<1>4. \A j \in DOMAIN s : j # i => \E m \in DOMAIN r : r[m] = s[j]
  BY WithoutFacts
<1> HIDE DEF r
<1>5. \A j, k \in DOMAIN r : r[j] = r[k] => j = k
  BY <1>1, <1>2, <1>3
<1>6. \A j \in DOMAIN r : r[j] # s[i]
  BY <1>1, <1>2, <1>3
<1> QED
  BY <1>4, <1>5, <1>6 DEF IsInjective, Range, r

\* Ranging over a map gives a list of its keys.
LEMMA OrdersType == ASSUME NEW S, NEW T, S \subseteq T, NEW s \in orders(S) PROVE s \in Seq(T)
<1>1. PICK n \in 0..Cardinality(S) : s \in Bijection(1..n, S)
  BY DEF orders
<1>2. n \in Nat /\ s \in [1..n -> T]
  BY <1>1 DEF Bijection, Injection
<1> QED
  BY <1>2

\* The list of PeersFor is regional peers, then those of the alliance, then global ones.
LEMMA PeersForShape ==
  ASSUME NEW peers, NEW allowVia, NEW to, NEW list \in PeersFor(peers, allowVia, to)
  PROVE  \E r \in orders(tierPeers(peers, allowVia, to, "regional")),
            a \in orders(tierPeers(peers, allowVia, to, "alliance")),
            g \in orders(tierPeers(peers, allowVia, to, "global")) : list = r \o a \o g
  BY DEF PeersFor

\* Whatever list of peers the forwarder goes through is one of configured peers.
LEMMA RoutesType ==
  ASSUME NEW k \in Keys, NEW list \in Routes(k)
  PROVE  list \in Seq(peerKeys)
<1> DEFINE tier(scope) == tierPeers(Peers, AllowVia, Env[k].to, scope)
<1>1. PICK l \in PeersFor(Peers, AllowVia, Env[k].to) : list = reorderByHint(Peers, l, Env[k].hint)
  BY DEF Routes, routes
<1>2. \A scope : tier(scope) \subseteq peerKeys
  BY Zenon DEF tierPeers, peerKeys
<1>3. PICK r \in orders(tier("regional")), a \in orders(tier("alliance")), g \in orders(tier("global")) :
        l = r \o a \o g
  BY <1>1, PeersForShape
<1> HIDE DEF tier
<1>4. r \in Seq(peerKeys) /\ a \in Seq(peerKeys) /\ g \in Seq(peerKeys)
  BY <1>2, OrdersType
<1>5. l \in Seq(peerKeys)
  BY <1>3, <1>4
<1>6. ASSUME list # l PROVE \E i \in DOMAIN l : list = <<l[i]>> \o without(l, i)
  BY <1>1, <1>6, Zenon DEF reorderByHint
<1>7. ASSUME NEW i \in DOMAIN l PROVE <<l[i]>> \o without(l, i) \in Seq(peerKeys)
  BY <1>5, WithoutFacts
<1> QED
  BY <1>5, <1>6, <1>7, Zenon

\* Cache.Put keeps the cache within its capacity, one entry for each key, and loses
\* only the entry it evicts.
LEMMA PutFacts ==
  ASSUME NEW k \in Keys, CacheTypes
  PROVE  /\ put(k) \in Seq(Keys) /\ Len(put(k)) <= maxEntries /\ IsInjective(put(k))
         /\ k \in Range(put(k))
         /\ Range(transit) \ evicted(k) \subseteq Range(put(k))
<1> DEFINE kept == IF Len(transit) >= maxEntries THEN Tail(transit) ELSE transit
           old == {i \in DOMAIN kept : kept[i] = k}
           r == IF old = {} THEN kept ELSE without(kept, CHOOSE i \in old : TRUE)
<1>1. transit \in Seq(Keys) /\ Len(transit) \in Nat /\ Len(transit) <= maxEntries /\ IsInjective(transit)
      /\ DOMAIN transit = 1..Len(transit) /\ maxEntries \in Nat \ {0}
  BY BoundsAssumption DEF CacheTypes
<1>2. /\ kept \in Seq(Keys) /\ Len(kept) < maxEntries /\ IsInjective(kept)
      /\ Range(transit) \ evicted(k) \subseteq Range(kept) \cup {k}
  <2>1. CASE Len(transit) >= maxEntries
    <3>1. transit # <<>> /\ kept = Tail(transit)
      BY <1>1, <2>1
    <3>2. transit \in Seq(Keys) /\ transit # <<>>
      BY <1>1, <3>1, Zenon
    <3> HIDE DEF kept
    <3>3. Head(transit) = transit[1]
      BY <3>2
    <3>4. /\ Tail(transit) \in Seq(Keys) /\ Len(Tail(transit)) = Len(transit) - 1
          /\ \A i \in 1..(Len(transit) - 1) : Tail(transit)[i] = transit[i + 1]
      BY <3>2
    <3>5. /\ kept \in Seq(Keys) /\ Len(kept) = Len(transit) - 1 /\ DOMAIN kept = 1..(Len(transit) - 1)
          /\ \A i \in 1..(Len(transit) - 1) : kept[i] = transit[i + 1]
      BY <3>1, <3>4
    <3>6. \A i, j \in 1..Len(transit) : transit[i] = transit[j] => i = j
      BY <1>1 DEF IsInjective
    <3>7. IsInjective(kept)
      <4>1. \A i, j \in 1..(Len(transit) - 1) : kept[i] = kept[j] => i = j
        BY <1>1, <3>5, <3>6
      <4> QED
        BY <3>5, <4>1 DEF IsInjective
    <3>8. ASSUME NEW i \in DOMAIN transit, i # 1 PROVE transit[i] \in Range(kept)
      <4>1. i - 1 \in DOMAIN kept /\ kept[i - 1] = transit[i]
        BY <1>1, <3>5, <3>8
      <4> QED
        BY <4>1 DEF Range
    <3>9. Range(transit) \ {Head(transit)} \subseteq Range(kept)
      BY <3>3, <3>8 DEF Range
    <3> QED
      BY <1>1, <2>1, <3>5, <3>7, <3>9 DEF evicted
  <2>2. CASE ~(Len(transit) >= maxEntries)
    BY <1>1, <2>2
  <2> QED
    BY <2>1, <2>2
<1>3. put(k) = Append(r, k)
  BY DEF put
<1> HIDE DEF kept
<1>4. /\ r \in Seq(Keys) /\ Len(r) <= Len(kept) /\ IsInjective(r) /\ k \notin Range(r)
      /\ Range(kept) \ {k} \subseteq Range(r)
  <2>1. CASE old = {}
    BY <1>2, <2>1 DEF Range
  <2>2. CASE old # {}
    <3>1. PICK i \in old : i = CHOOSE j \in old : TRUE
      BY <2>2
    <3>2. i \in DOMAIN kept /\ kept[i] = k /\ r = without(kept, i)
      BY <2>2, <3>1
    <3> HIDE DEF old, r
    <3> QED
      BY <1>2, <3>2, WithoutFacts, WithoutInjective
  <2> QED
    BY <2>1, <2>2, Zenon
<1> HIDE DEF r, old
<1>5. /\ Append(r, k) \in Seq(Keys) /\ Len(Append(r, k)) = Len(r) + 1 /\ Len(r) \in Nat /\ Len(kept) \in Nat
      /\ DOMAIN Append(r, k) = 1..(Len(r) + 1) /\ DOMAIN r = 1..Len(r)
      /\ \A i \in 1..Len(r) : Append(r, k)[i] = r[i]
      /\ Append(r, k)[Len(r) + 1] = k
  BY <1>2, <1>4
<1>6. Len(Append(r, k)) <= maxEntries
  BY <1>1, <1>2, <1>4, <1>5
<1>7. IsInjective(Append(r, k))
  BY <1>4, <1>5 DEF IsInjective, Range
<1>8. k \in Range(Append(r, k)) /\ Range(r) \subseteq Range(Append(r, k))
  BY <1>5 DEF Range
<1> QED
  BY <1>2, <1>3, <1>4, <1>5, <1>6, <1>7, <1>8

\* DLQ.Remove takes out at most the entry at its index.
LEMMA RemoveFacts ==
  ASSUME NEW i \in Nat, dlq \in Seq(QueueEntries)
  PROVE  /\ remove(i) \in Seq(QueueEntries)
         /\ removed(i) \in SUBSET Keys
         /\ \A j \in DOMAIN dlq : dlq[j].key \in removed(i) \/ \E m \in DOMAIN remove(i) : remove(i)[m] = dlq[j]
<1>1. CASE i \in DOMAIN dlq
  <2>1. remove(i) = without(dlq, i) /\ removed(i) = {dlq[i].key}
    BY <1>1 DEF remove, removed
  <2>2. dlq[i] \in QueueEntries
    BY <1>1
  <2>3. /\ without(dlq, i) \in Seq(QueueEntries)
        /\ \A j \in DOMAIN dlq : j # i => \E m \in DOMAIN without(dlq, i) : without(dlq, i)[m] = dlq[j]
    BY <1>1, WithoutFacts
  <2>4. dlq[i].key \in Keys
    BY <2>2 DEF QueueEntries
  <2> QED
    BY <2>1, <2>3, <2>4
<1>2. CASE i \notin DOMAIN dlq
  BY <1>2 DEF remove, removed
<1> QED
  BY <1>1, <1>2
-----------------------------------------------------------------------------
\* A call that is at one of the places of SendEnvelope is not idle.
LEMMA TaskFields ==
  ASSUME CallTypes, NEW c \in Calls
  PROVE  /\ task[c] = idle <=> task[c].pc = "idle"
         /\ task[c] # idle => task[c] \in TaskRecords
<1>1. task[c] \in TaskRecords \cup {idle}
  BY DEF CallTypes
<1>2. idle.pc = "idle"
  BY DEF idle
<1>3. ASSUME NEW t \in TaskRecords PROVE t.pc # "idle"
  BY DEF TaskRecords, Places, Held
<1> QED
  BY <1>1, <1>2, <1>3

\* One call moves, and the others stay where they are.
LEMMA CallMoves ==
  ASSUME CallTypes, NEW c \in Calls, NEW t \in TaskRecords \cup {idle},
         t.pc \in {"send", "backoff"} => t.list # <<>> /\ t.attempt > 0,
         task' = [task EXCEPT ![c] = t]
  PROVE  CallTypes' /\ task'[c] = t /\ \A d \in Calls \ {c} : task'[d] = task[d]
<1>1. task \in [Calls -> TaskRecords \cup {idle}]
  BY DEF CallTypes
<1>2. task' \in [Calls -> TaskRecords \cup {idle}] /\ task'[c] = t /\ \A d \in Calls \ {c} : task'[d] = task[d]
  BY <1>1
<1>3. ASSUME NEW d \in Calls, task'[d].pc \in {"send", "backoff"}
      PROVE  task'[d].list # <<>> /\ task'[d].attempt > 0
  BY <1>2, <1>3 DEF CallTypes
<1> QED
  BY <1>2, <1>3 DEF CallTypes

\* A call that goes on to another place keeps its envelope, and the other calls are where they were.
LEMMA GoFacts ==
  ASSUME CallTypes, NEW c \in Calls, task[c] # idle, NEW pc \in Places,
         pc \in {"send", "backoff"} => task[c].list # <<>> /\ task[c].attempt > 0,
         go(c, pc)
  PROVE  /\ CallTypes'
         /\ task'[c] \in TaskRecords
         /\ task'[c].pc = pc /\ task'[c].key = task[c].key
         /\ \A d \in Calls \ {c} : task'[d] = task[d]
<1> DEFINE t == [task[c] EXCEPT !.pc = pc]
<1>1. task[c] \in TaskRecords
  BY TaskFields
<1>2. t \in TaskRecords /\ t.pc = pc /\ t.key = task[c].key /\ t.list = task[c].list /\ t.attempt = task[c].attempt
  BY <1>1 DEF TaskRecords
<1>3. task' = [task EXCEPT ![c] = t]
  BY DEF go
<1> HIDE DEF t
<1>4. CallTypes' /\ task'[c] = t /\ \A d \in Calls \ {c} : task'[d] = task[d]
  BY <1>2, <1>3, CallMoves, Zenon
<1> QED
  BY <1>2, <1>4

\* A step of a call that leaves the cache, the queue and the peers alone, and moves
\* the call between places that both hold its envelope, or that both do not
LEMMA LocalStep ==
  ASSUME GatewayTypes, Acked, NEW c \in Calls, CallTypes',
         UNCHANGED node,
         task'[c].key = task[c].key \/ task[c].pc \notin Held,
         task[c].pc \in Held => task'[c].pc \in Held,
         task'[c].pc = "final" => task[c].pc = "final" /\ task'[c].key = task[c].key,
         \A d \in Calls \ {c} : task'[d] = task[d]
  PROVE  /\ CacheTypes'
         /\ \A k \in Keys : (delivered(k) <=> delivered(k)') /\ dropped'[k] = dropped[k]
         /\ \A k \in Keys : holding(k) => holding(k)'
         /\ (\A d \in Calls : task[d].pc = "final" => delivered(task[d].key))'
<1>1. UNCHANGED <<transit, drained, dlq, open, peer, ended, dropped>>
  BY DEF node
<1>2. CacheTypes'
  BY <1>1 DEF GatewayTypes, CacheTypes
<1>3. \A k : (delivered(k) <=> delivered(k)')
  BY <1>1 DEF delivered
<1>4. ASSUME NEW k \in Keys, inCall(k) PROVE inCall(k)'
  <2>1. PICK d \in Calls : task[d] # idle /\ task[d].pc \in Held /\ task[d].key = k
    BY <1>4 DEF inCall
  <2>2. task'[d].pc \in Held /\ task'[d].key = k
    BY <2>1
  <2>3. task'[d] # idle
    BY <2>2 DEF idle, Held
  <2> QED
    BY <2>2, <2>3 DEF inCall
<1>5. ASSUME NEW k \in Keys, holding(k) PROVE holding(k)'
  BY <1>1, <1>4, <1>5 DEF holding, inCall
<1>6. \A d \in Calls : task'[d].pc = "final" => task[d].pc = "final" /\ task'[d].key = task[d].key
  OBVIOUS
<1>7. (\A d \in Calls : task[d].pc = "final" => delivered(task[d].key))'
  BY <1>3, <1>6 DEF Acked
<1> QED
  BY <1>1, <1>2, <1>3, <1>5, <1>7

\* A row of the audit log counts for one key and one decision.
LEMMA LogFacts ==
  ASSUME NEW k \in Keys, NEW d \in Decisions, audit \in [Keys \X Decisions -> Nat], log(k, d)
  PROVE  /\ audit' \in [Keys \X Decisions -> Nat]
         /\ \A j \in Keys, e \in Decisions :
              audit'[<<j, e>>] = IF j = k /\ e = d THEN audit[<<j, e>>] + 1 ELSE audit[<<j, e>>]
<1>1. audit' = [audit EXCEPT ![<<k, d>>] = audit[<<k, d>>] + 1] /\ <<k, d>> \in Keys \X Decisions
  BY DEF log
<1>2. audit[<<k, d>>] + 1 \in Nat
  BY <1>1
<1> QED
  BY <1>1, <1>2

\* Dummy and Duplicate only log; Final logs settlement for an envelope that a peer has had.
LEMMA LoggingKeeps ==
  ASSUME GatewayTypes, Acked, NEW c \in Calls, Dummy(c) \/ Duplicate(c) \/ Final(c)
  PROVE  GatewayTypes' /\ Acked' /\ KeepsEnvelopes
<1> DEFINE k == task[c].key
<1>1. /\ task[c].pc \in {"dummy", "duplicate", "final"} /\ go(c, "reply")
      /\ UNCHANGED <<seen, node, calls, restarts>>
      /\ \/ audit' = audit
         \/ \E d \in {"DUMMY", "DUPLICATE", "FINAL"} : log(k, d) /\ (d = "FINAL" => task[c].pc = "final")
  BY DEF Dummy, Duplicate, Final, at
<1>2. task[c] # idle /\ task[c] \in TaskRecords
  BY <1>1, TaskFields DEF GatewayTypes
<1>3. k \in Keys
  BY <1>2 DEF TaskRecords
<1>4. CallTypes' /\ task'[c].pc = "reply" /\ task'[c].key = task[c].key /\ \A d \in Calls \ {c} : task'[d] = task[d]
  <2>1. "reply" \in Places
    BY DEF Places
  <2> QED
    BY <1>1, <1>2, <2>1, GoFacts DEF GatewayTypes
<1>5. /\ CacheTypes'
      /\ \A j \in Keys : (delivered(j) <=> delivered(j)') /\ dropped'[j] = dropped[j]
      /\ \A j \in Keys : holding(j) => holding(j)'
      /\ (\A d \in Calls : task[d].pc = "final" => delivered(task[d].key))'
  <2>1. task[c].pc \notin Held
    BY <1>1 DEF Held
  <2> QED
    BY <1>1, <1>4, <2>1, LocalStep DEF node
<1> DEFINE logged ==
             /\ audit' \in [Keys \X Decisions -> Nat]
             /\ \A j \in Keys :
                  /\ audit'[<<j, "ALLOW">>] = audit[<<j, "ALLOW">>]
                  /\ audit'[<<j, "FINAL">>] > 0 => audit[<<j, "FINAL">>] > 0 \/ (j = k /\ task[c].pc = "final")
<1>6. logged
  <2>1. CASE audit' = audit
    BY <2>1 DEF GatewayTypes, RecordTypes
  <2>2. ASSUME NEW d \in {"DUMMY", "DUPLICATE", "FINAL"}, log(k, d), d = "FINAL" => task[c].pc = "final"
        PROVE  logged
    <3> HIDE DEF k
    <3>1. d \in Decisions /\ "ALLOW" \in Decisions /\ "FINAL" \in Decisions /\ audit \in [Keys \X Decisions -> Nat]
      BY DEF Decisions, GatewayTypes, RecordTypes
    <3>2. /\ audit' \in [Keys \X Decisions -> Nat]
          /\ \A j \in Keys, e \in Decisions :
               audit'[<<j, e>>] = IF j = k /\ e = d THEN audit[<<j, e>>] + 1 ELSE audit[<<j, e>>]
      BY <1>3, <2>2, <3>1, LogFacts
    <3> QED
      BY <2>2, <3>1, <3>2
  <2> QED
    BY <1>1, <2>1, <2>2
<1>7. RecordTypes'
  BY <1>1, <1>6 DEF GatewayTypes, RecordTypes, node
<1>8. FinalAfterAck'
  BY <1>3, <1>5, <1>6, Zenon DEF Acked, FinalAfterAck
<1>9. KeepsEnvelopes
  BY <1>5, <1>6 DEF KeepsEnvelopes
<1> QED
  BY <1>4, <1>5, <1>7, <1>8, <1>9 DEF GatewayTypes, Acked

\* The call has a new record; nothing else changes but the deduplication index and
\* the number of calls.
LEMMA MovingKeeps ==
  ASSUME GatewayTypes, Acked, NEW c \in Calls, NEW t \in TaskRecords,
         task' = [task EXCEPT ![c] = t],
         t.pc \in {"send", "backoff"} => t.list # <<>> /\ t.attempt > 0,
         t.pc = "final" => task[c].pc = "final",
         task[c].pc \in Held => t.pc \in Held,
         task[c] # idle => t.key = task[c].key,
         UNCHANGED <<node, audit, restarts>>,
         seen' \in SUBSET Keys, calls' \in 0..MaxCalls
  PROVE  GatewayTypes' /\ Acked' /\ KeepsEnvelopes
<1>1. CallTypes' /\ task'[c] = t /\ \A d \in Calls \ {c} : task'[d] = task[d]
  BY CallMoves, Zenon DEF GatewayTypes
<1>2. task[c] = idle => task[c].pc \notin Held /\ task[c].pc # "final"
  BY DEF idle, Held
<1>3. /\ CacheTypes'
      /\ \A j \in Keys : (delivered(j) <=> delivered(j)') /\ dropped'[j] = dropped[j]
      /\ \A j \in Keys : holding(j) => holding(j)'
      /\ (\A d \in Calls : task[d].pc = "final" => delivered(task[d].key))'
  BY <1>1, <1>2, LocalStep
<1>4. RecordTypes'
  BY DEF GatewayTypes, RecordTypes, node
<1>5. FinalAfterAck'
  BY <1>3 DEF Acked, FinalAfterAck
<1>6. KeepsEnvelopes
  BY <1>3 DEF KeepsEnvelopes
<1> QED
  BY <1>1, <1>3, <1>4, <1>5, <1>6 DEF GatewayTypes, Acked

\* A call of SendEnvelope begins, for a new envelope or a replayed one.
LEMMA BeginKeeps ==
  ASSUME GatewayTypes, Acked, NEW c \in Calls, NEW k \in Keys, NEW pc \in {"dedup", "dummy"}, NEW i \in Nat,
         begin(c, k, pc, i)
  PROVE  GatewayTypes' /\ Acked' /\ KeepsEnvelopes
<1> DEFINE t == [pc |-> pc, key |-> k, replays |-> i, ctxDone |-> FALSE, list |-> <<>>, attempt |-> 0]
<1>1. /\ task[c] = idle /\ calls < MaxCalls /\ calls' = calls + 1 /\ task' = [task EXCEPT ![c] = t]
      /\ UNCHANGED <<node, audit, restarts>> /\ seen' = seen
  BY DEF begin, node
<1>2. t \in TaskRecords
  <2>1. pc \in Places /\ 0 \in 0..MaxAttempts /\ <<>> \in Seq(peerKeys)
    BY BoundsAssumption DEF Places
  <2> QED
    BY <2>1 DEF TaskRecords
<1>3. t.pc = pc
  OBVIOUS
<1>4. task[c].pc = "idle"
  BY <1>1 DEF idle
<1>5. seen' \in SUBSET Keys /\ calls' \in 0..MaxCalls
  BY <1>1, BoundsAssumption DEF GatewayTypes, RecordTypes
<1> HIDE DEF t
<1> QED
  BY <1>1, <1>2, <1>3, <1>4, <1>5, MovingKeeps, Zenon DEF Held

\* The deduplication index is asked, and the key enters it.
LEMMA DedupKeeps ==
  ASSUME GatewayTypes, Acked, NEW c \in Calls, Dedup(c)
  PROVE  GatewayTypes' /\ Acked' /\ KeepsEnvelopes
<1>1. /\ task[c].pc = "dedup" /\ UNCHANGED <<node, audit, restarts>> /\ calls' = calls
      /\ seen' \in {seen, seen \cup {task[c].key}}
  BY DEF Dedup, at, node
<1>2. PICK pc \in {"duplicate", "policy"} : go(c, pc)
  BY DEF Dedup
<1>3. task[c] # idle /\ task[c] \in TaskRecords
  BY <1>1, TaskFields DEF GatewayTypes
<1> DEFINE t == [task[c] EXCEPT !.pc = pc]
<1>4. t \in TaskRecords /\ t.pc = pc /\ t.key = task[c].key
  BY <1>3 DEF TaskRecords, Places
<1>5. task' = [task EXCEPT ![c] = t]
  BY <1>2 DEF go
<1>6. seen' \in SUBSET Keys /\ calls' \in 0..MaxCalls
  BY <1>1, <1>3 DEF GatewayTypes, RecordTypes, TaskRecords
<1> HIDE DEF t
<1> QED
  BY <1>1, <1>4, <1>5, <1>6, MovingKeeps, Zenon DEF Held

\* The context of a call ends.
LEMMA CancelKeeps ==
  ASSUME GatewayTypes, Acked, NEW c \in Calls, Cancel(c)
  PROVE  GatewayTypes' /\ Acked' /\ KeepsEnvelopes
<1> DEFINE t == [task[c] EXCEPT !.ctxDone = TRUE]
<1>1. /\ task' = [task EXCEPT ![c] = t] /\ UNCHANGED <<node, audit, restarts>> /\ calls' = calls /\ seen' = seen
      /\ task[c] # idle
  BY DEF Cancel, node
<1>2. task[c] \in TaskRecords
  BY <1>1, TaskFields DEF GatewayTypes
<1>3. /\ t \in TaskRecords /\ t.pc = task[c].pc /\ t.key = task[c].key
      /\ t.list = task[c].list /\ t.attempt = task[c].attempt
  BY <1>2, Zenon DEF TaskRecords
<1>4. t.pc \in {"send", "backoff"} => t.list # <<>> /\ t.attempt > 0
  BY <1>3 DEF GatewayTypes, CallTypes
<1>5. seen' \in SUBSET Keys /\ calls' \in 0..MaxCalls
  BY <1>1 DEF GatewayTypes, RecordTypes
<1> HIDE DEF t
<1> QED
  BY <1>1, <1>3, <1>4, <1>5, MovingKeeps, Zenon

\* What is left of a list of several members
LEMMA TailNotEmpty ==
  ASSUME NEW S, NEW s \in Seq(S), Len(s) > 1
  PROVE  Tail(s) \in Seq(S) /\ Tail(s) # <<>>
<1>1. Tail(s) \in Seq(S) /\ Len(Tail(s)) = Len(s) - 1 /\ Len(s) \in Nat
  OBVIOUS
<1>2. \A r : r = <<>> => Len(r) = 0
  OBVIOUS
<1>3. Len(Tail(s)) # 0
  BY <1>1
<1> QED
  BY <1>1, <1>2, <1>3, Zenon

\* The retries: the attempts of a peer are bounded, and a peer that failed is dropped
\* from the list.
LEMMA BackOffKeeps ==
  ASSUME GatewayTypes, Acked, NEW c \in Calls, BackOff(c)
  PROVE  GatewayTypes' /\ Acked' /\ KeepsEnvelopes
<1> DEFINE u == task[c]
           more == [u EXCEPT !.pc = "send", !.attempt = u.attempt + 1]
           next == [u EXCEPT !.pc = "send", !.list = Tail(u.list), !.attempt = 1]
           park == [u EXCEPT !.pc = "park"]
<1>1. u.pc = "backoff" /\ UNCHANGED <<node, audit, restarts>> /\ calls' = calls /\ seen' = seen
  BY DEF BackOff, at, node
<1>2. \/ u.attempt < MaxAttempts /\ task' = [task EXCEPT ![c] = more]
      \/ Len(u.list) > 1 /\ task' = [task EXCEPT ![c] = next]
      \/ task' = [task EXCEPT ![c] = park]
  BY Zenon DEF BackOff
<1>3. u # idle /\ u \in TaskRecords /\ u.list # <<>> /\ u.attempt > 0
  BY <1>1, TaskFields DEF GatewayTypes, CallTypes
<1>4. u.key \in Keys /\ u.list \in Seq(peerKeys) /\ u.attempt \in 0..MaxAttempts /\ MaxAttempts \in Nat \ {0}
  BY <1>3, BoundsAssumption DEF TaskRecords
<1>5. seen' \in SUBSET Keys /\ calls' \in 0..MaxCalls
  BY <1>1 DEF GatewayTypes, RecordTypes
<1>6. "send" \in Held /\ "park" \in Held /\ Held \subseteq Places
  BY DEF Held, Places
<1>7. CASE u.attempt < MaxAttempts /\ task' = [task EXCEPT ![c] = more]
  <2>1. more \in TaskRecords /\ more.pc = "send" /\ more.key = u.key /\ more.list = u.list /\ more.attempt > 0
    <3>1. u.attempt + 1 \in 0..MaxAttempts /\ u.attempt + 1 > 0
      BY <1>4, <1>7
    <3> QED
      BY <1>3, <1>6, <3>1, Zenon DEF TaskRecords
  <2> HIDE DEF more
  <2> QED
    BY <1>1, <1>3, <1>5, <1>6, <1>7, <2>1, MovingKeeps, Zenon
<1>8. CASE Len(u.list) > 1 /\ task' = [task EXCEPT ![c] = next]
  <2>1. Tail(u.list) \in Seq(peerKeys) /\ Tail(u.list) # <<>>
    BY <1>4, <1>8, TailNotEmpty
  <2>2. next \in TaskRecords /\ next.pc = "send" /\ next.key = u.key /\ next.list = Tail(u.list) /\ next.attempt = 1
    <3>1. 1 \in 0..MaxAttempts
      BY <1>4
    <3> QED
      BY <1>3, <1>6, <2>1, <3>1, Zenon DEF TaskRecords
  <2> HIDE DEF next
  <2>3. next.list # <<>> /\ next.attempt > 0
    BY <2>1, <2>2
  <2> QED
    BY <1>1, <1>3, <1>5, <1>6, <1>8, <2>2, <2>3, MovingKeeps, Zenon
<1>9. CASE task' = [task EXCEPT ![c] = park]
  <2>1. park \in TaskRecords /\ park.pc = "park" /\ park.key = u.key
    BY <1>3, <1>6 DEF TaskRecords
  <2> HIDE DEF park
  <2> QED
    BY <1>1, <1>3, <1>5, <1>6, <1>9, <2>1, MovingKeeps, Zenon
<1> QED
  BY <1>2, <1>7, <1>8, <1>9

\* Giving up the envelopes of S says nothing of the others.
LEMMA DropFacts ==
  ASSUME dropped \in [Keys -> Drops], NEW S, NEW why \in Drops, drop(S, why)
  PROVE  /\ dropped' \in [Keys -> Drops]
         /\ \A k \in Keys : dropped'[k] = IF k \in S THEN why ELSE dropped[k]
  BY DEF drop

\* When one call moves, only its own envelope may no longer be in a call.
LEMMA CallsHold ==
  ASSUME NEW c \in Calls, \A d \in Calls \ {c} : task'[d] = task[d], NEW k
  PROVE  /\ inCall(k) => inCall(k)' \/ (task[c].key = k /\ task[c].pc \in Held)
         /\ task'[c].pc \in Held /\ task'[c].key = k => inCall(k)'
<1>1. ASSUME NEW d \in Calls, task'[d].pc \in Held, task'[d].key = k PROVE inCall(k)'
  <2>1. task'[d] # idle
    BY <1>1 DEF idle, Held
  <2> QED
    BY <1>1, <2>1 DEF inCall
<1>2. ASSUME inCall(k) PROVE inCall(k)' \/ (task[c].key = k /\ task[c].pc \in Held)
  <2>1. PICK d \in Calls : task[d].pc \in Held /\ task[d].key = k
    BY <1>2 DEF inCall
  <2> QED
    BY <1>1, <2>1
<1> QED
  BY <1>1, <1>2

\* A step that leaves the peers alone and moves no call past Forward
LEMMA PeersKept ==
  ASSUME Acked, peer' = peer,
         \A d \in Calls : task'[d].pc = "final" => task[d].pc = "final" /\ task'[d].key = task[d].key,
         \A k \in Keys : audit'[<<k, "FINAL">>] = audit[<<k, "FINAL">>]
  PROVE  Acked' /\ \A k : delivered(k)' <=> delivered(k)
<1>1. \A k : delivered(k)' <=> delivered(k)
  BY DEF delivered
<1>2. (\A d \in Calls : task[d].pc = "final" => delivered(task[d].key))'
  BY <1>1 DEF Acked
<1>3. FinalAfterAck'
  BY <1>1 DEF Acked, FinalAfterAck
<1> QED
  BY <1>1, <1>2, <1>3 DEF Acked

\* The policy engine accepts a key: the call goes on with its envelope.
LEMMA EvaluateKeeps ==
  ASSUME GatewayTypes, Acked, NEW c \in Calls, Evaluate(c)
  PROVE  GatewayTypes' /\ Acked' /\ KeepsEnvelopes
<1>1. /\ task[c].pc = "policy"
      /\ UNCHANGED <<seen, transit, drained, dlq, open, peer, ended, calls, restarts>>
  BY DEF Evaluate, at
<1>2. task[c] # idle /\ task[c] \in TaskRecords
  BY <1>1, TaskFields DEF GatewayTypes
<1>3. PICK k \in Keys : k = task[c].key
  BY <1>2 DEF TaskRecords
<1>4. PICK d \in {"ALLOW", "DENY"} :
        /\ log(k, d)
        /\ \/ d = "ALLOW" /\ go(c, "jitter") /\ drop({k}, "no")
           \/ d = "DENY" /\ go(c, "reply") /\ dropped' = dropped
  BY <1>3 DEF Evaluate
<1>5. task[c].pc \notin Held /\ "jitter" \in Held /\ d \in Decisions
  BY <1>1 DEF Held, Decisions
<1>6. PICK pc \in {"jitter", "reply"} : go(c, pc) /\ (d = "ALLOW" => pc = "jitter")
  BY <1>4
<1>7. /\ CallTypes' /\ task'[c].pc = pc /\ task'[c].key = k
      /\ \A e \in Calls \ {c} : task'[e] = task[e]
  <2>1. pc \in Places
    BY DEF Places, Held
  <2> QED
    BY <1>3, <1>2, <1>6, <2>1, GoFacts DEF GatewayTypes
<1>8. /\ audit' \in [Keys \X Decisions -> Nat]
      /\ \A j \in Keys, e \in Decisions : audit'[<<j, e>>] = IF j = k /\ e = d THEN audit[<<j, e>>] + 1 ELSE audit[<<j, e>>]
  BY <1>4, <1>5, LogFacts DEF GatewayTypes, RecordTypes
<1>9. /\ dropped' \in [Keys -> Drops]
      /\ \A j \in Keys : j # k => dropped'[j] = dropped[j]
      /\ d = "DENY" => dropped' = dropped
  <2>1. dropped \in [Keys -> Drops] /\ "no" \in Drops
    BY DEF GatewayTypes, RecordTypes, Drops
  <2> QED
    BY <1>4, <2>1, DropFacts
<1>10. RecordTypes' /\ CacheTypes'
  BY <1>1, <1>8, <1>9 DEF GatewayTypes, RecordTypes, CacheTypes
<1>11. Acked' /\ \A j : delivered(j)' <=> delivered(j)
  <2>1. \A e \in Calls : task'[e].pc = "final" => task[e].pc = "final" /\ task'[e].key = task[e].key
    BY <1>7
  <2>2. \A j \in Keys : audit'[<<j, "FINAL">>] = audit[<<j, "FINAL">>]
    BY <1>8 DEF Decisions
  <2> QED
    BY <1>1, <2>1, <2>2, PeersKept
<1>12. d = "ALLOW" => inCall(k)'
  BY <1>5, <1>6, <1>7, CallsHold
<1>13. \A j \in Keys : inCall(j) => inCall(j)'
  BY <1>5, <1>7, CallsHold
<1>14. ASSUME NEW j \in Keys
       PROVE  /\ audit'[<<j, "ALLOW">>] > 0 => audit[<<j, "ALLOW">>] > 0 \/ inCall(j)'
              /\ dropped[j] # "no" => dropped'[j] # "no" \/ inCall(j)'
              /\ holding(j) => holding(j)'
  <2>1. audit'[<<j, "ALLOW">>] # audit[<<j, "ALLOW">>] => j = k /\ d = "ALLOW"
    BY <1>8, Zenon DEF Decisions
  <2>2. dropped'[j] # dropped[j] => j = k /\ d = "ALLOW"
    BY <1>9
  <2>3. holding(j) => holding(j)'
    BY <1>1, <1>13 DEF holding, inCall
  <2> QED
    BY <1>12, <2>1, <2>2, <2>3
<1> QED
  BY <1>7, <1>10, <1>11, <1>14 DEF GatewayTypes, KeepsEnvelopes

\* The sleep of applyJitter: what is cancelled is given up.
LEMMA JitterKeeps ==
  ASSUME GatewayTypes, Acked, NEW c \in Calls, Jitter(c)
  PROVE  GatewayTypes' /\ Acked' /\ KeepsEnvelopes
<1>1. /\ task[c].pc = "jitter"
      /\ UNCHANGED <<seen, transit, drained, dlq, open, peer, audit, ended, calls, restarts>>
  BY DEF Jitter, at
<1>2. task[c] # idle /\ task[c] \in TaskRecords
  BY <1>1, TaskFields DEF GatewayTypes
<1>3. PICK k \in Keys : k = task[c].key
  BY <1>2 DEF TaskRecords
<1>4. PICK pc \in {"forward", "reply"} :
        /\ go(c, pc)
        /\ \/ pc = "forward" /\ dropped' = dropped
           \/ drop({k}, "cancelled")
  BY <1>3 DEF Jitter
<1>5. "forward" \in Held
  BY DEF Held
<1>6. /\ CallTypes' /\ task'[c].pc = pc /\ task'[c].key = k
      /\ \A e \in Calls \ {c} : task'[e] = task[e]
  <2>1. pc \in Places
    BY DEF Places, Held
  <2> QED
    BY <1>3, <1>4, <1>2, <2>1, GoFacts DEF GatewayTypes
<1>7. /\ dropped' \in [Keys -> Drops]
      /\ \A j \in Keys : dropped'[j] = dropped[j] \/ dropped'[j] = "cancelled"
      /\ pc = "forward" \/ dropped'[k] = "cancelled"
  <2>1. dropped \in [Keys -> Drops] /\ "cancelled" \in Drops
    BY DEF GatewayTypes, RecordTypes, Drops
  <2> QED
    BY <1>4, <1>5, <2>1, DropFacts
<1>8. RecordTypes' /\ CacheTypes'
  BY <1>1, <1>7 DEF GatewayTypes, RecordTypes, CacheTypes
<1>9. Acked' /\ \A j : delivered(j)' <=> delivered(j)
  <2>1. \A e \in Calls : task'[e].pc = "final" => task[e].pc = "final" /\ task'[e].key = task[e].key
    BY <1>6
  <2> QED
    BY <1>1, <2>1, PeersKept
<1>10. ASSUME NEW j \in Keys, inCall(j) PROVE inCall(j)' \/ dropped'[j] # "no"
  BY <1>3, <1>5, <1>6, <1>7, <1>10, CallsHold
<1>11. ASSUME NEW j \in Keys PROVE holding(j) => holding(j)' \/ dropped'[j] # "no"
  BY <1>1, <1>10 DEF holding, inCall
<1> QED
  BY <1>1, <1>6, <1>7, <1>8, <1>9, <1>11 DEF GatewayTypes, KeepsEnvelopes
-----------------------------------------------------------------------------
\* The calls in policy.Evaluate with key k
evaluating(k) == {c \in Calls : task[c] # idle /\ task[c].pc = "policy" /\ task[c].key = k}

\* A window of k pays for one evaluation: those that ended, and the one that is open
\* when k is in the index.
WindowInv ==
  \A k \in Keys : audit[<<k, "ALLOW">>] + audit[<<k, "DENY">>] + Cardinality(evaluating(k))
                    <= ended[k] + (IF k \in seen THEN 1 ELSE 0)

\* The calls that evaluate one key can be counted.
LEMMA EvaluatingFinite == ASSUME NEW k PROVE IsFiniteSet(evaluating(k)) /\ Cardinality(evaluating(k)) \in Nat
<1>1. evaluating(k) \in SUBSET Calls
  BY DEF evaluating
<1>2. IsFiniteSet(evaluating(k))
  BY <1>1, FinitenessAssumption, FS_Subset, FS_CardinalityType
<1> QED
  BY <1>2, FS_Subset, FS_CardinalityType

\* A step that does not enter or leave policy.Evaluate
LEMMA NotEvaluating ==
  ASSUME WindowInv, UNCHANGED <<seen, ended>>,
         \A k \in Keys : /\ audit'[<<k, "ALLOW">>] = audit[<<k, "ALLOW">>]
                         /\ audit'[<<k, "DENY">>] = audit[<<k, "DENY">>],
         \A c \in Calls : task'[c].pc = "policy" => task'[c] # idle /\ task[c].pc = "policy" /\ task'[c].key = task[c].key,
         \A c \in Calls : task[c].pc = "policy" => task[c] # idle /\ task'[c].pc = "policy"
  PROVE  WindowInv'
<1>1. ASSUME NEW k PROVE evaluating(k)' = evaluating(k)
  BY DEF evaluating
<1> QED
  BY <1>1 DEF WindowInv

\* A call goes on to policy.Evaluate only with a key that was not in the index, and puts it there.
LEMMA DedupOncePerWindow ==
  ASSUME GatewayTypes, WindowInv, NEW c \in Calls, Dedup(c)
  PROVE  WindowInv'
<1>1. task[c].pc = "dedup" /\ UNCHANGED <<audit, ended>>
  BY DEF Dedup, at, node
<1>2. task[c] # idle /\ task[c] \in TaskRecords
  BY <1>1, TaskFields DEF GatewayTypes
<1>3. PICK k \in Keys : k = task[c].key
  BY <1>2 DEF TaskRecords
<1>4. CASE k \in seen
  <2>1. go(c, "duplicate") /\ seen' = seen /\ "duplicate" \in Places
    BY <1>3, <1>4 DEF Dedup, Places
  <2>2. task'[c].pc = "duplicate" /\ \A d \in Calls \ {c} : task'[d] = task[d]
    BY <1>2, <2>1, GoFacts DEF GatewayTypes
  <2>3. \A d \in Calls : task[d].pc = "policy" => task[d] # idle
    BY DEF idle
  <2> QED
    BY <1>1, <2>1, <2>2, <2>3, NotEvaluating
<1>5. CASE k \notin seen
  <2>1. go(c, "policy") /\ seen' = seen \cup {k} /\ "policy" \in Places
    BY <1>3, <1>5 DEF Dedup, Places
  <2>2. /\ task'[c] \in TaskRecords /\ task'[c].pc = "policy" /\ task'[c].key = k
        /\ \A d \in Calls \ {c} : task'[d] = task[d]
    BY <1>2, <1>3, <2>1, GoFacts DEF GatewayTypes
  <2>3. task'[c] # idle
    BY <2>2 DEF idle
  <2>4. c \notin evaluating(k) /\ evaluating(k)' = evaluating(k) \cup {c}
    BY <1>1, <2>2, <2>3 DEF evaluating
  <2>5. Cardinality(evaluating(k)') = Cardinality(evaluating(k)) + 1
    BY <2>4, EvaluatingFinite, FS_AddElement
  <2>6. ASSUME NEW j \in Keys, j # k PROVE evaluating(j)' = evaluating(j)
    BY <1>1, <2>2, <2>6 DEF evaluating
  <2>7. ASSUME NEW j \in Keys
        PROVE  audit'[<<j, "ALLOW">>] + audit'[<<j, "DENY">>] + Cardinality(evaluating(j)')
                 <= ended'[j] + (IF j \in seen' THEN 1 ELSE 0)
    <3>1. /\ audit[<<j, "ALLOW">>] \in Nat /\ audit[<<j, "DENY">>] \in Nat /\ ended[j] \in Nat
          /\ Cardinality(evaluating(j)) \in Nat
      BY EvaluatingFinite DEF GatewayTypes, RecordTypes, Decisions
    <3>2. audit[<<j, "ALLOW">>] + audit[<<j, "DENY">>] + Cardinality(evaluating(j)) <= ended[j] + (IF j \in seen THEN 1 ELSE 0)
      BY DEF WindowInv
    <3>3. CASE j = k
      BY <1>1, <1>5, <2>1, <2>5, <3>1, <3>2, <3>3
    <3>4. CASE j # k
      <4>1. evaluating(j)' = evaluating(j) /\ (j \in seen' <=> j \in seen)
        BY <2>1, <2>6, <3>4
      <4> QED
        BY <1>1, <3>2, <4>1
    <3> QED
      BY <3>3, <3>4
  <2> QED
    BY <2>7 DEF WindowInv
<1> QED
  BY <1>4, <1>5

\* When policy.Evaluate returns, its row takes the place of the call.
LEMMA EvaluateOncePerWindow ==
  ASSUME GatewayTypes, WindowInv, NEW c \in Calls, Evaluate(c)
  PROVE  WindowInv'
<1>1. task[c].pc = "policy" /\ UNCHANGED <<seen, ended>>
  BY DEF Evaluate, at
<1>2. task[c] # idle /\ task[c] \in TaskRecords
  BY <1>1, TaskFields DEF GatewayTypes
<1>3. PICK k \in Keys : k = task[c].key
  BY <1>2 DEF TaskRecords
<1>4. PICK d \in {"ALLOW", "DENY"}, pc \in {"jitter", "reply"} : log(k, d) /\ go(c, pc)
  BY <1>3 DEF Evaluate
<1>5. task'[c].pc = pc /\ \A e \in Calls \ {c} : task'[e] = task[e]
  <2>1. pc \in Places
    BY DEF Places, Held
  <2> QED
    BY <1>2, <1>4, <2>1, GoFacts DEF GatewayTypes
<1>6. c \in evaluating(k) /\ evaluating(k)' = evaluating(k) \ {c}
  BY <1>1, <1>2, <1>3, <1>5 DEF evaluating
<1>7. Cardinality(evaluating(k)') = Cardinality(evaluating(k)) - 1
  BY <1>6, EvaluatingFinite, FS_RemoveElement, Zenon
<1>8. ASSUME NEW j \in Keys, j # k PROVE evaluating(j)' = evaluating(j)
  BY <1>1, <1>3, <1>5, <1>8 DEF evaluating
<1>9. \A j \in Keys, e \in Decisions : audit'[<<j, e>>] = IF j = k /\ e = d THEN audit[<<j, e>>] + 1 ELSE audit[<<j, e>>]
  <2>1. d \in Decisions
    BY DEF Decisions
  <2> QED
    BY <1>4, <2>1, LogFacts DEF GatewayTypes, RecordTypes
<1>10. ASSUME NEW j \in Keys
       PROVE  audit'[<<j, "ALLOW">>] + audit'[<<j, "DENY">>] + Cardinality(evaluating(j)')
                <= ended'[j] + (IF j \in seen' THEN 1 ELSE 0)
  <2>1. /\ audit[<<j, "ALLOW">>] \in Nat /\ audit[<<j, "DENY">>] \in Nat /\ ended[j] \in Nat
        /\ Cardinality(evaluating(j)) \in Nat
    BY EvaluatingFinite DEF GatewayTypes, RecordTypes, Decisions
  <2>2. audit[<<j, "ALLOW">>] + audit[<<j, "DENY">>] + Cardinality(evaluating(j)) <= ended[j] + (IF j \in seen THEN 1 ELSE 0)
    BY DEF WindowInv
  <2>3. CASE j = k
    <3>1. audit'[<<j, "ALLOW">>] + audit'[<<j, "DENY">>] = audit[<<j, "ALLOW">>] + audit[<<j, "DENY">>] + 1
      <4>1. "ALLOW" \in Decisions /\ "DENY" \in Decisions /\ "ALLOW" # "DENY"
        BY DEF Decisions
      <4>2. audit'[<<j, "ALLOW">>] = (IF d = "ALLOW" THEN audit[<<j, "ALLOW">>] + 1 ELSE audit[<<j, "ALLOW">>])
        BY <1>9, <2>3, <4>1
      <4>3. audit'[<<j, "DENY">>] = (IF d = "DENY" THEN audit[<<j, "DENY">>] + 1 ELSE audit[<<j, "DENY">>])
        BY <1>9, <2>3, <4>1
      <4> QED
        BY <2>1, <4>1, <4>2, <4>3
    <3> QED
      BY <1>1, <1>7, <2>1, <2>2, <2>3, <3>1
  <2>4. CASE j # k
    <3>1. audit'[<<j, "ALLOW">>] = audit[<<j, "ALLOW">>] /\ audit'[<<j, "DENY">>] = audit[<<j, "DENY">>]
      BY <1>9, <2>4, Zenon DEF Decisions
    <3> QED
      BY <1>1, <1>8, <2>2, <2>4, <3>1
  <2> QED
    BY <2>3, <2>4
<1> QED
  BY <1>10 DEF WindowInv

\* A window ends with Forget, and all of them with Restart.
LEMMA WindowsEnd ==
  ASSUME GatewayTypes, WindowInv, Restart \/ \E k \in Keys : Forget(k)
  PROVE  WindowInv'
<1> SUFFICES ASSUME NEW j \in Keys
             PROVE  (audit[<<j, "ALLOW">>] + audit[<<j, "DENY">>] + Cardinality(evaluating(j))
                       <= ended[j] + (IF j \in seen THEN 1 ELSE 0))'
  BY DEF WindowInv
<1>1. /\ audit[<<j, "ALLOW">>] \in Nat /\ audit[<<j, "DENY">>] \in Nat /\ ended[j] \in Nat
      /\ Cardinality(evaluating(j)) \in Nat
  BY EvaluatingFinite DEF GatewayTypes, RecordTypes, Decisions
<1>2. audit[<<j, "ALLOW">>] + audit[<<j, "DENY">>] + Cardinality(evaluating(j)) <= ended[j] + (IF j \in seen THEN 1 ELSE 0)
  BY DEF WindowInv
<1>3. CASE Restart
  <2>1. evaluating(j)' = {}
    BY <1>3 DEF Restart, evaluating
  <2>2. Cardinality(evaluating(j)') = 0
    BY <2>1, FS_EmptySet
  <2>3. audit' = audit /\ ended'[j] = ended[j] + (IF j \in seen THEN 1 ELSE 0) /\ seen' = {}
    BY <1>1, <1>3 DEF Restart
  <2> QED
    BY <1>1, <1>2, <2>2, <2>3
<1>4. ASSUME NEW k \in Keys, Forget(k)
      PROVE  (audit[<<j, "ALLOW">>] + audit[<<j, "DENY">>] + Cardinality(evaluating(j))
                <= ended[j] + (IF j \in seen THEN 1 ELSE 0))'
  <2>1. evaluating(j)' = evaluating(j)
    BY <1>4 DEF Forget, evaluating
  <2>2. audit' = audit /\ k \in seen /\ seen' = seen \ {k} /\ ended' = [ended EXCEPT ![k] = ended[k] + 1]
    BY <1>4 DEF Forget
  <2>3. ended'[j] = IF j = k THEN ended[j] + 1 ELSE ended[j]
    BY <2>2 DEF GatewayTypes, RecordTypes
  <2> QED
    BY <1>1, <1>2, <2>1, <2>2, <2>3
<1> QED
  BY <1>3, <1>4

\* What a call does besides Dedup and Evaluate
LEMMA OtherSteps ==
  ASSUME GatewayTypes, WindowInv, NEW c \in Calls, UNCHANGED <<seen, ended>>,
         audit' = audit \/ \E k \in Keys, d \in Decisions \ {"ALLOW", "DENY"} : log(k, d),
         task[c].pc # "policy", task'[c].pc # "policy", \A d \in Calls \ {c} : task'[d] = task[d]
  PROVE  WindowInv'
<1>1. \A k \in Keys : audit'[<<k, "ALLOW">>] = audit[<<k, "ALLOW">>] /\ audit'[<<k, "DENY">>] = audit[<<k, "DENY">>]
  <2>1. audit \in [Keys \X Decisions -> Nat] /\ "ALLOW" \in Decisions /\ "DENY" \in Decisions
    BY DEF GatewayTypes, RecordTypes, Decisions
  <2> QED
    BY <2>1, LogFacts
<1>2. idle.pc = "idle"
  BY DEF idle
<1> QED
  BY <1>1, <1>2, NotEvaluating

\* Rows for dummies, duplicates and settlement are not about an evaluation.
LEMMA LoggingSteps == ASSUME GatewayTypes, WindowInv, NEW c \in Calls, Dummy(c) \/ Duplicate(c) \/ Final(c) PROVE WindowInv'
<1>1. task[c].pc \in {"dummy", "duplicate", "final"} /\ go(c, "reply") /\ UNCHANGED <<seen, ended>>
  BY DEF Dummy, Duplicate, Final, at, node
<1>2. task[c] # idle /\ task[c].key \in Keys
  BY <1>1, TaskFields DEF GatewayTypes, TaskRecords
<1>3. audit' = audit \/ \E d \in {"DUMMY", "DUPLICATE", "FINAL"} : log(task[c].key, d)
  BY DEF Dummy, Duplicate, Final
<1>4. \A d \in {"DUMMY", "DUPLICATE", "FINAL"} : d \in Decisions \ {"ALLOW", "DENY"}
  BY DEF Decisions
<1>5. task'[c].pc = "reply" /\ \A d \in Calls \ {c} : task'[d] = task[d]
  BY <1>1, <1>2, GoFacts DEF GatewayTypes, Places
<1> QED
  BY <1>1, <1>2, <1>3, <1>4, <1>5, OtherSteps

\* A call that waits, sends or parks is past its evaluation.
LEMMA GoingSteps == ASSUME GatewayTypes, WindowInv, NEW c \in Calls, Jitter(c) \/ Send(c) \/ Park(c) PROVE WindowInv'
<1>1. /\ task[c].pc \in {"jitter", "send", "park"} /\ UNCHANGED <<seen, ended, audit>>
      /\ \E pc \in {"reply", "forward", "backoff", "final"} : go(c, pc) /\ (pc = "backoff" => task[c].pc = "send")
  BY DEF Jitter, Send, Park, at
<1>2. PICK pc \in {"reply", "forward", "backoff", "final"} : go(c, pc) /\ (pc = "backoff" => task[c].pc = "send")
  BY <1>1
<1>3. task[c] # idle /\ (task[c].pc = "send" => task[c].list # <<>> /\ task[c].attempt > 0) /\ pc \in Places
  BY <1>1, TaskFields DEF GatewayTypes, CallTypes, Places, Held
<1>4. task'[c].pc = pc /\ \A d \in Calls \ {c} : task'[d] = task[d]
  BY <1>2, <1>3, GoFacts DEF GatewayTypes
<1> QED
  BY <1>1, <1>4, OtherSteps

\* The forwarder chooses peers and tries again without another evaluation.
LEMMA ForwardSteps == ASSUME GatewayTypes, WindowInv, NEW c \in Calls, Forward(c) \/ BackOff(c) PROVE WindowInv'
<1>1. task[c].pc \in {"forward", "backoff"} /\ UNCHANGED <<seen, ended, audit>>
  BY Zenon DEF Forward, BackOff, at, node
<1>2. task[c] \in TaskRecords /\ task \in [Calls -> TaskRecords \cup {idle}]
  BY <1>1, TaskFields DEF GatewayTypes, CallTypes
<1>3. \/ \E pc \in {"reply", "park", "send"} : task' = [task EXCEPT ![c].pc = pc]
      \/ \E n : task' = [task EXCEPT ![c].pc = "send", ![c].attempt = n]
      \/ \E list : task' = [task EXCEPT ![c].pc = "send", ![c].list = list, ![c].attempt = 1]
  BY Zenon DEF Forward, BackOff, go
<1>4. task'[c].pc # "policy"
  <2>1. ASSUME NEW pc \in {"reply", "park", "send"}, task' = [task EXCEPT ![c].pc = pc] PROVE task'[c].pc # "policy"
    BY <1>2, <2>1 DEF TaskRecords
  <2>2. ASSUME NEW n, task' = [task EXCEPT ![c].pc = "send", ![c].attempt = n] PROVE task'[c].pc # "policy"
    BY <1>2, <2>2 DEF TaskRecords
  <2>3. ASSUME NEW list, task' = [task EXCEPT ![c].pc = "send", ![c].list = list, ![c].attempt = 1]
        PROVE  task'[c].pc # "policy"
    BY <1>2, <2>3 DEF TaskRecords
  <2> QED
    BY <1>3, <2>1, <2>2, <2>3, Zenon
<1>5. \A d \in Calls \ {c} : task'[d] = task[d]
  BY <1>2, <1>3, Zenon
<1> QED
  BY <1>1, <1>4, <1>5, OtherSteps

\* A call that begins or ends is not in policy.Evaluate.
LEMMA ReplySteps ==
  ASSUME GatewayTypes, WindowInv, NEW c \in Calls,
         Reply(c) \/ \E k, i : \E pc \in {"dedup", "dummy"} : begin(c, k, pc, i)
  PROVE  WindowInv'
<1>1. UNCHANGED <<seen, ended, audit>> /\ task \in [Calls -> TaskRecords \cup {idle}]
  BY DEF Reply, begin, GatewayTypes, CallTypes
<1>2. idle.pc = "idle"
  BY DEF idle
<1>3. CASE Reply(c)
  <2>1. task[c].pc = "reply" /\ task' = [task EXCEPT ![c] = idle]
    BY <1>3 DEF Reply, at
  <2> QED
    BY <1>1, <1>2, <2>1, OtherSteps
<1>4. ASSUME NEW k, NEW i, NEW pc \in {"dedup", "dummy"}, begin(c, k, pc, i) PROVE WindowInv'
  <2>1. /\ task[c] = idle
        /\ task' = [task EXCEPT ![c] = [pc |-> pc, key |-> k, replays |-> i, ctxDone |-> FALSE, list |-> <<>>, attempt |-> 0]]
    BY <1>4 DEF begin
  <2>2. task'[c].pc = pc /\ \A d \in Calls \ {c} : task'[d] = task[d]
    BY <1>1, <2>1
  <2> QED
    BY <1>1, <1>2, <2>1, <2>2, OtherSteps
<1> QED
  BY <1>3, <1>4

\* A call whose context ends stays where it is.
LEMMA CancelSteps == ASSUME GatewayTypes, WindowInv, NEW c \in Calls, Cancel(c) PROVE WindowInv'
<1>1. UNCHANGED <<seen, ended, audit>> /\ task[c] # idle /\ task' = [task EXCEPT ![c].ctxDone = TRUE]
  BY DEF Cancel, node
<1>2. task[c] \in TaskRecords /\ task \in [Calls -> TaskRecords \cup {idle}]
  BY <1>1, TaskFields DEF GatewayTypes, CallTypes
<1>3. task'[c].pc = task[c].pc /\ task'[c].key = task[c].key /\ \A d \in Calls \ {c} : task'[d] = task[d]
  BY <1>1, <1>2 DEF TaskRecords
<1>4. idle.pc = "idle"
  BY DEF idle
<1> QED
  BY <1>1, <1>3, <1>4, NotEvaluating, Zenon

\* Every step keeps the account of evaluations: a window of a key pays for one.
LEMMA WindowStep ==
  ASSUME GatewayTypes, WindowInv, [Next]_vars
  PROVE  WindowInv'
<1>1. ASSUME NEW c \in Calls, Step(c) \/ Cancel(c) PROVE WindowInv'
  BY <1>1, DedupOncePerWindow, EvaluateOncePerWindow, LoggingSteps, GoingSteps, ForwardSteps, ReplySteps,
     CancelSteps DEF Step
<1>2. ASSUME NEW c \in Calls, (\E k \in Keys : Call(c, k)) \/ \E i \in DOMAIN dlq : Replay(c, i) PROVE WindowInv'
  <2>1. \E k, i : \E pc \in {"dedup", "dummy"} : begin(c, k, pc, i)
    BY <1>2 DEF Call, Replay
  <2> QED
    BY <2>1, ReplySteps
<1>3. CASE Drain \/ DrainOne \/ Cutoff \/ (\E i \in DOMAIN dlq : Discard(i)) \/ UNCHANGED vars
  <2>1. UNCHANGED <<seen, ended, audit, task>>
    BY <1>3 DEF Drain, DrainOne, Cutoff, Discard, vars
  <2>2. \A k : evaluating(k)' = evaluating(k)
    BY <2>1 DEF evaluating
  <2> QED
    BY <2>1, <2>2 DEF WindowInv
<1> QED
  BY <1>1, <1>2, <1>3, WindowsEnd DEF Next
=============================================================================

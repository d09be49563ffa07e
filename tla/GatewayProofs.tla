---------------------------- MODULE GatewayProofs ----------------------------
(***************************************************************************)
(* What a node that handles envelopes promises, for any number of calls,   *)
(* keys and peers, any capacity of the transit cache and any number of     *)
(* retries and restarts.                                                   *)
(*                                                                         *)
(* An envelope that the node accepted is with a peer, is held by the node, *)
(* or was given up where the code says so (AcceptedIsAccountedFor). This   *)
(* is inductive with the types of the state: no step loses an envelope     *)
(* that was held (KeepsEnvelopes), and the one that accepts an envelope    *)
(* holds it. A settlement row is written only after a peer has answered    *)
(* (FinalAfterAck): the invariant adds that a call about to write it has   *)
(* had the answer. And a key is evaluated once in a deduplication window   *)
(* (EvaluatedOncePerWindow), however calls, replays and restarts race:     *)
(* WindowInv counts the rows and the calls still in policy.Evaluate.       *)
(***************************************************************************)
EXTENDS GatewaySteps

\* A new entry of the queue leaves the others where they are.
LEMMA QueueGrows ==
  ASSUME dlq \in Seq(QueueEntries), NEW e \in QueueEntries, dlq' = Append(dlq, e)
  PROVE  /\ dlq' \in Seq(QueueEntries)
         /\ \A k : queued(k) => queued(k)'
         /\ \A k : e.key = k => queued(k)'
<1>1. dlq' \in Seq(QueueEntries) /\ Len(dlq') = Len(dlq) + 1 /\ Len(dlq) \in Nat
  OBVIOUS
<1>2. (\A i \in 1..Len(dlq) : dlq'[i] = dlq[i]) /\ dlq'[Len(dlq) + 1] = e
  OBVIOUS
<1>3. DOMAIN dlq = 1..Len(dlq) /\ DOMAIN dlq' = 1..(Len(dlq) + 1)
  BY <1>1
<1>4. ASSUME NEW k, queued(k) PROVE queued(k)'
  BY <1>1, <1>2, <1>3, <1>4 DEF queued
<1>5. ASSUME NEW k, e.key = k PROVE queued(k)'
  BY <1>1, <1>2, <1>3, <1>5 DEF queued
<1> QED
  BY <1>1, <1>4, <1>5

\* The cutoff window puts an envelope in the queue, a missing route gives it up, and
\* otherwise the call goes on to the first peer.
LEMMA ForwardKeeps ==
  ASSUME GatewayTypes, Acked, NEW c \in Calls, Forward(c)
  PROVE  GatewayTypes' /\ Acked' /\ KeepsEnvelopes
<1>1. /\ task[c].pc = "forward"
      /\ UNCHANGED <<seen, transit, drained, open, peer, audit, ended, calls, restarts>>
  BY Zenon DEF Forward, at
<1>2. task[c] # idle /\ task[c] \in TaskRecords
  BY <1>1, TaskFields DEF GatewayTypes
<1>3. PICK k \in Keys : k = task[c].key
  BY <1>2 DEF TaskRecords
<1> DEFINE e == [key |-> k, reason |-> "cutoff"]
           t(list) == [task[c] EXCEPT !.pc = "send", !.list = list, !.attempt = 1]
<1>4. \/ dlq' = Append(dlq, e) /\ go(c, "reply") /\ dropped' = dropped
      \/ dlq' = dlq /\ go(c, "reply") /\ drop({k}, "no route")
      \/ \E list \in Routes(k) : list # <<>> /\ task' = [task EXCEPT ![c] = t(list)] /\ dropped' = dropped /\ dlq' = dlq
  BY <1>3, Zenon DEF Forward
<1>5. "reply" \in Places /\ "send" \in Places /\ "send" \in Held /\ "reply" # "final" /\ 1 \in 0..MaxAttempts
  BY BoundsAssumption DEF Places, Held
<1>6. ASSUME go(c, "reply")
      PROVE  CallTypes' /\ task'[c].pc = "reply" /\ task'[c].key = k /\ \A d \in Calls \ {c} : task'[d] = task[d]
  BY <1>2, <1>3, <1>5, <1>6, GoFacts DEF GatewayTypes
<1>7. e \in QueueEntries /\ e.key = k
  BY DEF QueueEntries
<1>8. ASSUME NEW list \in Routes(k), list # <<>>, task' = [task EXCEPT ![c] = t(list)]
      PROVE  CallTypes' /\ task'[c].pc = "send" /\ task'[c].key = k /\ \A d \in Calls \ {c} : task'[d] = task[d]
  <2>1. list \in Seq(peerKeys)
    BY RoutesType
  <2>2. t(list) \in TaskRecords /\ t(list).pc = "send" /\ t(list).key = k /\ t(list).list = list /\ t(list).attempt = 1
    BY <1>2, <1>3, <1>5, <2>1, Zenon DEF TaskRecords
  <2> HIDE DEF t
  <2>3. t(list).list # <<>> /\ t(list).attempt > 0
    BY <1>8, <2>2
  <2> QED
    BY <1>8, <2>2, <2>3, CallMoves, Zenon DEF GatewayTypes
<1> HIDE DEF e, t
<1> DEFINE moved == \A j \in Keys :
             /\ dropped[j] # "no" => dropped'[j] # "no"
             /\ queued(j) => queued(j)'
             /\ inCall(j) => inCall(j)' \/ queued(j)' \/ dropped'[j] # "no"
           placed == /\ CallTypes' /\ task'[c].pc # "final"
                     /\ \A d \in Calls \ {c} : task'[d] = task[d]
                     /\ dlq' \in Seq(QueueEntries) /\ dropped' \in [Keys -> Drops]
<1>9. dlq \in Seq(QueueEntries) /\ dropped \in [Keys -> Drops] /\ "no route" \in Drops
  BY DEF GatewayTypes, CacheTypes, RecordTypes, Drops
<1>10. placed /\ moved
  <2>1. CASE dlq' = Append(dlq, e) /\ go(c, "reply") /\ dropped' = dropped
    <3>1. CallTypes' /\ task'[c].pc = "reply" /\ \A d \in Calls \ {c} : task'[d] = task[d]
      BY <1>6, <2>1
    <3>2. dlq' \in Seq(QueueEntries) /\ queued(k)' /\ \A j : queued(j) => queued(j)'
      BY <1>7, <1>9, <2>1, QueueGrows
    <3>3. ASSUME NEW j \in Keys, inCall(j) PROVE inCall(j)' \/ queued(j)'
      BY <1>3, <3>1, <3>2, <3>3, CallsHold
    <3> QED
      BY <1>5, <1>9, <2>1, <3>1, <3>2, <3>3
  <2>2. CASE dlq' = dlq /\ go(c, "reply") /\ drop({k}, "no route")
    <3>1. CallTypes' /\ task'[c].pc = "reply" /\ \A d \in Calls \ {c} : task'[d] = task[d]
      BY <1>6, <2>2
    <3>2. /\ dropped' \in [Keys -> Drops] /\ dropped'[k] = "no route"
          /\ \A j \in Keys : dropped[j] # "no" => dropped'[j] # "no"
      BY <1>9, <2>2, DropFacts
    <3>3. ASSUME NEW j \in Keys, inCall(j) PROVE inCall(j)' \/ dropped'[j] # "no"
      BY <1>3, <3>1, <3>2, <3>3, CallsHold
    <3>4. \A j : queued(j) => queued(j)'
      BY <2>2 DEF queued
    <3> QED
      BY <1>5, <1>9, <2>2, <3>1, <3>2, <3>3, <3>4
  <2>3. ASSUME NEW list \in Routes(k), list # <<>>, task' = [task EXCEPT ![c] = t(list)], dropped' = dropped, dlq' = dlq
        PROVE  placed /\ moved
    <3>1. CallTypes' /\ task'[c].pc = "send" /\ task'[c].key = k /\ \A d \in Calls \ {c} : task'[d] = task[d]
      BY <1>8, <2>3, Zenon
    <3>2. ASSUME NEW j \in Keys, inCall(j) PROVE inCall(j)'
      BY <1>3, <1>5, <3>1, <3>2, CallsHold
    <3>3. \A j : queued(j) => queued(j)'
      BY <2>3 DEF queued
    <3> QED
      BY <1>9, <2>3, <3>1, <3>2, <3>3
  <2> HIDE DEF placed, moved
  <2> QED
    BY <1>4, <2>1, <2>2, <2>3
<1>11. RecordTypes' /\ CacheTypes'
  BY <1>1, <1>10 DEF GatewayTypes, RecordTypes, CacheTypes
<1>12. Acked' /\ \A j : delivered(j)' <=> delivered(j)
  <2>1. \A d \in Calls : task'[d].pc = "final" => task[d].pc = "final" /\ task'[d].key = task[d].key
    BY <1>10
  <2> QED
    BY <1>1, <2>1, PeersKept
<1>13. ASSUME NEW j \in Keys PROVE holding(j) => holding(j)' \/ dropped'[j] # "no"
  <2>1. cached(j)' <=> cached(j)
    BY <1>1 DEF cached
  <2> QED
    BY <1>10, <2>1 DEF holding, inCall, queued, cached
<1> QED
  BY <1>1, <1>10, <1>11, <1>12, <1>13 DEF GatewayTypes, KeepsEnvelopes

\* A peer that answers has the key, and no peer loses one.
LEMMA DecidedFacts ==
  ASSUME peer \in [peerKeys \X Keys -> {"none", "ALLOW", "DENY"}],
         NEW p \in peerKeys, NEW k \in Keys, NEW a \in answers(p, k), decided(p, k, a)
  PROVE  /\ peer' \in [peerKeys \X Keys -> {"none", "ALLOW", "DENY"}]
         /\ \A j \in Keys : delivered(j) => delivered(j)'
         /\ delivered(k)'
<1>1. <<p, k>> \in peerKeys \X Keys
  OBVIOUS
<1>2. a \in {"ALLOW", "DENY"} \/ (a = "DUPLICATE" /\ peer[<<p, k>>] # "none")
  BY DEF answers
<1>3. \/ peer' = peer /\ peer[<<p, k>>] # "none"
      \/ a \in {"ALLOW", "DENY"} /\ peer' = [peer EXCEPT ![<<p, k>>] = a]
  BY <1>2 DEF decided
<1>4. /\ peer' \in [peerKeys \X Keys -> {"none", "ALLOW", "DENY"}]
      /\ peer'[<<p, k>>] # "none"
      /\ \A q \in peerKeys, j \in Keys : peer[<<q, j>>] # "none" => peer'[<<q, j>>] # "none"
  BY <1>1, <1>3
<1> QED
  BY <1>4, Zenon DEF delivered

\* One attempt: only a call that had an answer goes on to the end of Forward.
LEMMA SendKeeps ==
  ASSUME GatewayTypes, Acked, NEW c \in Calls, Send(c)
  PROVE  GatewayTypes' /\ Acked' /\ KeepsEnvelopes
<1>1. /\ task[c].pc = "send"
      /\ UNCHANGED <<seen, transit, drained, dlq, open, audit, ended, dropped, calls, restarts>>
  BY DEF Send, at
<1>2. task[c] # idle /\ task[c] \in TaskRecords /\ task[c].list # <<>> /\ task[c].attempt > 0
  BY <1>1, TaskFields DEF GatewayTypes, CallTypes
<1>3. PICK k \in Keys : k = task[c].key
  BY <1>2 DEF TaskRecords
<1>4. PICK p \in peerKeys : p = Head(task[c].list)
  <2>1. task[c].list \in Seq(peerKeys)
    BY <1>2 DEF TaskRecords
  <2> QED
    BY <1>2, <2>1
<1>5. PICK pc \in {"backoff", "final"} :
        /\ go(c, pc)
        /\ (peer' = peer /\ pc = "backoff") \/ \E a \in answers(p, k) : decided(p, k, a)
  BY <1>3, <1>4 DEF Send
<1>6. /\ peer' \in [peerKeys \X Keys -> {"none", "ALLOW", "DENY"}]
      /\ \A j \in Keys : delivered(j) => delivered(j)'
      /\ pc = "final" => delivered(k)'
  <2>1. peer \in [peerKeys \X Keys -> {"none", "ALLOW", "DENY"}]
    BY DEF GatewayTypes, RecordTypes
  <2>2. CASE peer' = peer /\ pc = "backoff"
    BY <2>1, <2>2 DEF delivered
  <2>3. CASE \E a \in answers(p, k) : decided(p, k, a)
    BY <2>1, <2>3, DecidedFacts
  <2> QED
    BY <1>5, <2>2, <2>3
<1>7. /\ CallTypes' /\ task'[c].pc = pc /\ task'[c].key = k
      /\ \A e \in Calls \ {c} : task'[e] = task[e]
  <2>1. pc \in Places
    BY DEF Places, Held
  <2> QED
    BY <1>2, <1>3, <1>5, <2>1, GoFacts DEF GatewayTypes
<1>8. RecordTypes' /\ CacheTypes'
  BY <1>1, <1>6 DEF GatewayTypes, RecordTypes, CacheTypes
<1>9. Acked'
  <2>1. FinalAfterAck'
    BY <1>1, <1>6 DEF Acked, FinalAfterAck
  <2>2. ASSUME NEW d \in Calls, NEW j \in Keys, task'[d].pc = "final", task'[d].key = j PROVE delivered(j)'
    <3>1. CASE d = c
      BY <1>6, <1>7, <2>2, <3>1
    <3>2. CASE d # c
      BY <1>6, <1>7, <2>2, <3>2 DEF Acked
    <3> QED
      BY <3>1, <3>2
  <2>3. \A d \in Calls : task'[d].pc = "final" => task'[d].key \in Keys
    <3>1. ASSUME NEW d \in Calls, task'[d].pc = "final" PROVE task'[d].key \in Keys
      <4>1. task'[d] \in TaskRecords \cup {idle} /\ idle.pc = "idle"
        BY <1>7 DEF CallTypes, idle
      <4> QED
        BY <3>1, <4>1 DEF TaskRecords
    <3> QED
      BY <3>1
  <2>4. (\A d \in Calls : task[d].pc = "final" => delivered(task[d].key))'
    BY <2>2, <2>3
  <2> QED
    BY <2>1, <2>4 DEF Acked
<1>10. ASSUME NEW j \in Keys, inCall(j) PROVE inCall(j)' \/ delivered(j)'
  BY <1>3, <1>6, <1>7, <1>10, CallsHold DEF Held
<1>11. ASSUME NEW j \in Keys PROVE holding(j) => holding(j)' \/ delivered(j)'
  BY <1>1, <1>10 DEF holding, inCall
<1> QED
  BY <1>1, <1>6, <1>7, <1>8, <1>9, <1>11 DEF GatewayTypes, KeepsEnvelopes

\* Every peer failed: the envelope goes to the transit cache, at the expense of the
\* oldest one when it is full, or to the queue.
LEMMA ParkKeeps ==
  ASSUME GatewayTypes, Acked, NEW c \in Calls, Park(c)
  PROVE  GatewayTypes' /\ Acked' /\ KeepsEnvelopes
<1>1. /\ task[c].pc = "park" /\ go(c, "reply")
      /\ UNCHANGED <<seen, drained, open, peer, audit, ended, calls, restarts>>
  BY DEF Park, at
<1>2. task[c] # idle /\ task[c] \in TaskRecords
  BY <1>1, TaskFields DEF GatewayTypes
<1>3. PICK k \in Keys : k = task[c].key
  BY <1>2 DEF TaskRecords
<1> DEFINE e == [key |-> k, reason |-> "exhausted"]
<1>4. \/ transit' = put(k) /\ drop(evicted(k), "evicted") /\ dlq' = dlq
      \/ dlq' = Append(dlq, e) /\ transit' = transit /\ dropped' = dropped
  BY <1>3 DEF Park
<1>5. CallTypes' /\ task'[c].pc = "reply" /\ task'[c].key = k /\ \A d \in Calls \ {c} : task'[d] = task[d]
  <2>1. "reply" \in Places
    BY DEF Places
  <2> QED
    BY <1>1, <1>2, <1>3, <2>1, GoFacts DEF GatewayTypes
<1>6. CacheTypes /\ dlq \in Seq(QueueEntries) /\ dropped \in [Keys -> Drops] /\ "evicted" \in Drops
  BY DEF GatewayTypes, CacheTypes, RecordTypes, Drops
<1>7. e \in QueueEntries /\ e.key = k
  BY DEF QueueEntries
<1> HIDE DEF e
<1> DEFINE placed == CacheTypes' /\ dropped' \in [Keys -> Drops]
           moved == /\ cached(k)' \/ queued(k)'
                    /\ \A j \in Keys :
                         /\ dropped[j] # "no" => dropped'[j] # "no"
                         /\ queued(j) => queued(j)'
                         /\ cached(j) => cached(j)' \/ dropped'[j] # "no"
<1>8. placed /\ moved
  <2>1. CASE transit' = put(k) /\ drop(evicted(k), "evicted") /\ dlq' = dlq
    <3>1. /\ transit' \in Seq(Keys) /\ Len(transit') <= maxEntries /\ IsInjective(transit')
          /\ k \in Range(transit')
          /\ Range(transit) \ evicted(k) \subseteq Range(transit')
      BY <1>6, <2>1, PutFacts
    <3>2. /\ dropped' \in [Keys -> Drops]
          /\ \A j \in Keys : dropped'[j] = IF j \in evicted(k) THEN "evicted" ELSE dropped[j]
      BY <1>6, <2>1, DropFacts
    <3>3. CacheTypes'
      BY <1>1, <1>6, <2>1, <3>1 DEF CacheTypes
    <3>4. cached(k)' /\ \A j \in Keys : cached(j) => cached(j)' \/ j \in evicted(k)
      BY <1>1, <3>1 DEF cached
    <3>5. \A j : queued(j) => queued(j)'
      BY <2>1 DEF queued
    <3> QED
      BY <3>2, <3>3, <3>4, <3>5
  <2>2. CASE dlq' = Append(dlq, e) /\ transit' = transit /\ dropped' = dropped
    <3>1. dlq' \in Seq(QueueEntries) /\ queued(k)' /\ \A j : queued(j) => queued(j)'
      BY <1>6, <1>7, <2>2, QueueGrows
    <3>2. CacheTypes'
      BY <1>1, <1>6, <2>2, <3>1 DEF CacheTypes
    <3>3. \A j : cached(j) => cached(j)'
      BY <1>1, <2>2 DEF cached
    <3> QED
      BY <1>6, <2>2, <3>1, <3>2, <3>3
  <2> HIDE DEF placed, moved
  <2> QED
    BY <1>4, <2>1, <2>2
<1>9. RecordTypes'
  BY <1>1, <1>8 DEF GatewayTypes, RecordTypes
<1>10. Acked' /\ \A j : delivered(j)' <=> delivered(j)
  <2>1. \A d \in Calls : task'[d].pc = "final" => task[d].pc = "final" /\ task'[d].key = task[d].key
    BY <1>5
  <2> QED
    BY <1>1, <2>1, PeersKept
<1>11. ASSUME NEW j \in Keys, inCall(j) PROVE inCall(j)' \/ j = k
  BY <1>3, <1>5, <1>11, CallsHold
<1>12. ASSUME NEW j \in Keys PROVE holding(j) => holding(j)' \/ dropped'[j] # "no"
  <2>1. holding(j) => cached(j) \/ queued(j) \/ inCall(j)
    BY DEF holding, cached, queued, inCall
  <2>2. cached(j)' \/ queued(j)' \/ inCall(j)' => holding(j)'
    BY DEF holding, cached, queued, inCall
  <2> QED
    BY <1>8, <1>11, <2>1, <2>2
<1> QED
  BY <1>1, <1>5, <1>8, <1>9, <1>10, <1>12 DEF GatewayTypes, KeepsEnvelopes

\* An envelope is held in the cache, in the queue or by a call.
LEMMA HoldingParts ==
  ASSUME NEW k
  PROVE  /\ holding(k) <=> cached(k) \/ queued(k) \/ inCall(k)
         /\ holding(k)' <=> cached(k)' \/ queued(k)' \/ inCall(k)'
  BY DEF holding, cached, queued, inCall

\* The entry that DLQ.Remove takes out is given up, and no other.
LEMMA RemoveStep ==
  ASSUME GatewayTypes, NEW i \in Nat, NEW why \in Drops \ {"no"}, dlq' = remove(i), drop(removed(i), why)
  PROVE  /\ dlq' \in Seq(QueueEntries) /\ dropped' \in [Keys -> Drops]
         /\ \A k \in Keys : /\ dropped[k] # "no" => dropped'[k] # "no"
                            /\ queued(k) => queued(k)' \/ dropped'[k] # "no"
<1>1. dlq \in Seq(QueueEntries) /\ dropped \in [Keys -> Drops]
  BY DEF GatewayTypes, CacheTypes, RecordTypes
<1>2. /\ dlq' \in Seq(QueueEntries)
      /\ \A j \in DOMAIN dlq : dlq[j].key \in removed(i) \/ \E m \in DOMAIN dlq' : dlq'[m] = dlq[j]
  BY <1>1, RemoveFacts
<1>3. /\ dropped' \in [Keys -> Drops]
      /\ \A k \in Keys : dropped'[k] = IF k \in removed(i) THEN why ELSE dropped[k]
  BY <1>1, DropFacts
<1>4. ASSUME NEW k \in Keys, queued(k) PROVE queued(k)' \/ k \in removed(i)
  BY <1>2, <1>4 DEF queued
<1> QED
  BY <1>2, <1>3, <1>4

\* The call returns.
LEMMA ReplyKeeps ==
  ASSUME GatewayTypes, Acked, NEW c \in Calls, Reply(c)
  PROVE  GatewayTypes' /\ Acked' /\ KeepsEnvelopes
<1>1. /\ task[c].pc = "reply" /\ task' = [task EXCEPT ![c] = idle]
      /\ UNCHANGED <<seen, transit, drained, open, peer, audit, ended, calls, restarts>>
  BY DEF Reply, at
<1>2. task[c] # idle /\ task[c] \in TaskRecords
  BY <1>1, TaskFields DEF GatewayTypes
<1>3. PICK i \in Nat : i = task[c].replays
  BY <1>2 DEF TaskRecords
<1>4. idle.pc = "idle"
  BY DEF idle
<1>5. CallTypes' /\ task'[c] = idle /\ \A d \in Calls \ {c} : task'[d] = task[d]
  BY <1>1, <1>4, CallMoves, Zenon DEF GatewayTypes
<1>6. dlq' = remove(i) /\ drop(removed(i), "replay") /\ "replay" \in Drops \ {"no"}
  BY <1>3 DEF Reply, Drops
<1>7. /\ dlq' \in Seq(QueueEntries) /\ dropped' \in [Keys -> Drops]
      /\ \A k \in Keys : /\ dropped[k] # "no" => dropped'[k] # "no"
                         /\ queued(k) => queued(k)' \/ dropped'[k] # "no"
  BY <1>6, RemoveStep
<1>8. RecordTypes' /\ CacheTypes'
  BY <1>1, <1>7 DEF GatewayTypes, RecordTypes, CacheTypes
<1>9. Acked' /\ \A j : delivered(j)' <=> delivered(j)
  <2>1. \A d \in Calls : task'[d].pc = "final" => task[d].pc = "final" /\ task'[d].key = task[d].key
    BY <1>4, <1>5
  <2> QED
    BY <1>1, <2>1, PeersKept
<1>10. ASSUME NEW j \in Keys, inCall(j) PROVE inCall(j)'
  BY <1>1, <1>5, <1>10, CallsHold DEF Held
<1>11. ASSUME NEW j \in Keys PROVE holding(j) => holding(j)' \/ dropped'[j] # "no"
  <2>1. cached(j)' <=> cached(j)
    BY <1>1 DEF cached
  <2> QED
    BY <1>7, <1>10, <2>1, HoldingParts
<1> QED
  BY <1>1, <1>5, <1>7, <1>8, <1>9, <1>11 DEF GatewayTypes, KeepsEnvelopes

\* A step that no call takes, and that does not reach the peers or the audit log
LEMMA AsideKeeps ==
  ASSUME GatewayTypes, Acked, UNCHANGED <<task, peer, audit>>, CacheTypes', RecordTypes',
         \A k \in Keys : /\ dropped[k] # "no" => dropped'[k] # "no"
                         /\ cached(k) \/ queued(k) => cached(k)' \/ queued(k)' \/ dropped'[k] # "no"
  PROVE  GatewayTypes' /\ Acked' /\ KeepsEnvelopes
<1>1. CallTypes'
  BY DEF GatewayTypes, CallTypes
<1>2. Acked' /\ \A j : delivered(j)' <=> delivered(j)
  BY PeersKept
<1>3. \A j : inCall(j)' <=> inCall(j)
  BY DEF inCall
<1>4. ASSUME NEW j \in Keys PROVE holding(j) => holding(j)' \/ dropped'[j] # "no"
  BY <1>3, HoldingParts
<1> QED
  BY <1>1, <1>2, <1>4 DEF GatewayTypes, KeepsEnvelopes

\* An operator discards one entry of the dead letter queue, which is then given up.
LEMMA DiscardKeeps ==
  ASSUME GatewayTypes, Acked, NEW i \in DOMAIN dlq, Discard(i)
  PROVE  GatewayTypes' /\ Acked' /\ KeepsEnvelopes
<1>1. /\ dlq' = remove(i) /\ drop(removed(i), "discard") /\ "discard" \in Drops \ {"no"}
      /\ UNCHANGED <<seen, task, transit, drained, open, peer, audit, ended, calls, restarts>>
  BY DEF Discard, Drops
<1>2. i \in Nat
  BY DEF GatewayTypes, CacheTypes
<1>3. /\ dlq' \in Seq(QueueEntries) /\ dropped' \in [Keys -> Drops]
      /\ \A k \in Keys : /\ dropped[k] # "no" => dropped'[k] # "no"
                         /\ queued(k) => queued(k)' \/ dropped'[k] # "no"
  BY <1>1, <1>2, RemoveStep
<1>4. RecordTypes' /\ CacheTypes'
  BY <1>1, <1>3 DEF GatewayTypes, RecordTypes, CacheTypes
<1>5. \A j : cached(j)' <=> cached(j)
  BY <1>1 DEF cached
<1> QED
  BY <1>1, <1>3, <1>4, <1>5, AsideKeeps

\* A list cut in two
LEMMA SplitFacts ==
  ASSUME NEW S, NEW s \in Seq(S), IsInjective(s), NEW n \in DOMAIN s
  PROVE  /\ Range(SubSeq(s, 1, n)) \in SUBSET S
         /\ SubSeq(s, n + 1, Len(s)) \in Seq(S)
         /\ Len(SubSeq(s, n + 1, Len(s))) <= Len(s)
         /\ IsInjective(SubSeq(s, n + 1, Len(s)))
         /\ Range(s) \subseteq Range(SubSeq(s, 1, n)) \cup Range(SubSeq(s, n + 1, Len(s)))
<1> DEFINE a == SubSeq(s, 1, n)
           b == SubSeq(s, n + 1, Len(s))
<1>1. Len(s) \in Nat /\ DOMAIN s = 1..Len(s) /\ n \in 1..Len(s)
  OBVIOUS
<1>2. a \in Seq(S) /\ Len(a) = n /\ \A j \in 1..n : a[j] = s[j]
  BY <1>1
<1>3. b \in Seq(S) /\ Len(b) = Len(s) - n /\ \A j \in 1..(Len(s) - n) : b[j] = s[n + j]
  BY <1>1
<1> HIDE DEF a, b
<1>4. DOMAIN a = 1..n /\ DOMAIN b = 1..(Len(s) - n)
  BY <1>1, <1>2, <1>3
<1>5. Range(a) \in SUBSET S
  BY <1>2 DEF Range
<1>6. IsInjective(b)
  <2>1. ASSUME NEW i \in DOMAIN b, NEW j \in DOMAIN b, b[i] = b[j] PROVE i = j
    <3>1. n + i \in DOMAIN s /\ n + j \in DOMAIN s /\ s[n + i] = s[n + j]
      <4>1. i \in 1..(Len(s) - n) /\ j \in 1..(Len(s) - n)
        BY <1>4
      <4>2. n + i \in 1..Len(s) /\ n + j \in 1..Len(s)
        BY <1>1, <4>1
      <4> QED
        BY <1>1, <1>3, <2>1, <4>1, <4>2
    <3>2. n + i = n + j
      BY <3>1 DEF IsInjective
    <3> QED
      BY <1>1, <1>4, <3>2
  <2> QED
    BY <2>1 DEF IsInjective
<1>7. ASSUME NEW i \in DOMAIN s PROVE s[i] \in Range(a) \cup Range(b)
  <2>1. CASE i <= n
    <3>1. i \in DOMAIN a /\ a[i] = s[i]
      BY <1>1, <1>2, <1>4, <2>1
    <3> QED
      BY <3>1 DEF Range
  <2>2. CASE i > n
    <3>1. i - n \in DOMAIN b /\ b[i - n] = s[i]
      BY <1>1, <1>3, <1>4, <2>2
    <3> QED
      BY <3>1 DEF Range
  <2> QED
    BY <1>1, <2>1, <2>2
<1>8. Range(s) \subseteq Range(a) \cup Range(b)
  BY <1>7 DEF Range
<1>9. Len(b) <= Len(s)
  BY <1>1, <1>3
<1> QED
  BY <1>3, <1>5, <1>6, <1>8, <1>9 DEF a, b

\* What runTransitRetry takes out of the cache it holds until it is in the queue.
LEMMA DrainKeeps ==
  ASSUME GatewayTypes, Acked, Drain \/ DrainOne
  PROVE  GatewayTypes' /\ Acked' /\ KeepsEnvelopes
<1>1. UNCHANGED <<seen, task, open, peer, audit, ended, dropped, calls, restarts>>
  BY DEF Drain, DrainOne
<1>2. /\ transit \in Seq(Keys) /\ Len(transit) \in Nat /\ Len(transit) <= maxEntries /\ IsInjective(transit)
      /\ drained \in SUBSET Keys /\ dlq \in Seq(QueueEntries) /\ maxEntries \in Nat
  BY BoundsAssumption DEF GatewayTypes, CacheTypes
<1>3. RecordTypes'
  BY <1>1 DEF GatewayTypes, RecordTypes
<1>4. CASE Drain
  <2>1. PICK n \in DOMAIN transit : /\ drained' = Range(SubSeq(transit, 1, n))
                                    /\ transit' = SubSeq(transit, n + 1, Len(transit))
    BY <1>4, Zenon DEF Drain
  <2>2. drained = {} /\ dlq' = dlq
    BY <1>4 DEF Drain
  <2>3. /\ drained' \in SUBSET Keys
        /\ transit' \in Seq(Keys) /\ Len(transit') <= Len(transit) /\ IsInjective(transit')
        /\ Range(transit) \subseteq drained' \cup Range(transit')
    BY <1>2, <2>1, SplitFacts
  <2>4. Len(transit') <= maxEntries
    <3>1. Len(transit') \in Nat
      BY <2>3
    <3> QED
      BY <1>2, <2>3, <3>1
  <2>5. CacheTypes'
    BY <1>2, <2>2, <2>3, <2>4 DEF CacheTypes
  <2>6. \A j : (cached(j) => cached(j)') /\ (queued(j)' <=> queued(j))
    BY <2>2, <2>3 DEF cached, queued
  <2> QED
    BY <1>1, <1>3, <2>5, <2>6, AsideKeeps
<1>5. CASE DrainOne
  <2>1. PICK k \in drained : drained' = drained \ {k} /\ dlq' = Append(dlq, [key |-> k, reason |-> "expired"])
    BY <1>5 DEF DrainOne
  <2>2. transit' = transit
    BY <1>5 DEF DrainOne
  <2>3. PICK e \in QueueEntries : e = [key |-> k, reason |-> "expired"] /\ e.key = k
    BY <1>2, <2>1 DEF QueueEntries
  <2>4. dlq' \in Seq(QueueEntries) /\ queued(k)' /\ \A j : queued(j) => queued(j)'
    BY <1>2, <2>1, <2>3, QueueGrows
  <2>5. CacheTypes'
    BY <1>2, <2>1, <2>2, <2>4 DEF CacheTypes
  <2>6. \A j : cached(j) => cached(j)' \/ j = k
    BY <2>1, <2>2 DEF cached
  <2> QED
    BY <1>1, <1>3, <2>4, <2>5, <2>6, AsideKeeps
<1> QED
  BY <1>4, <1>5

\* A window ends, or the processing hours of the payments change.
LEMMA WindowsKeep ==
  ASSUME GatewayTypes, Acked, Cutoff \/ \E k \in Keys : Forget(k)
  PROVE  GatewayTypes' /\ Acked' /\ KeepsEnvelopes
<1>1. UNCHANGED <<task, transit, drained, dlq, peer, audit, dropped, calls, restarts>>
  BY DEF Cutoff, Forget
<1>2. RecordTypes'
  <2>1. RecordTypes
    BY DEF GatewayTypes
  <2>2. CASE Cutoff
    BY <2>1, <2>2 DEF Cutoff, RecordTypes
  <2>3. ASSUME NEW k \in Keys, Forget(k) PROVE RecordTypes'
    <3>1. seen' \in SUBSET Keys /\ ended' \in [Keys -> Nat] /\ open' = open
      BY <2>1, <2>3 DEF Forget, RecordTypes
    <3> QED
      BY <1>1, <2>1, <3>1 DEF RecordTypes
  <2> QED
    BY <2>2, <2>3
<1>3. CacheTypes'
  BY <1>1 DEF GatewayTypes, CacheTypes
<1>4. \A j : (cached(j)' <=> cached(j)) /\ (queued(j)' <=> queued(j))
  BY <1>1 DEF cached, queued
<1> QED
  BY <1>1, <1>2, <1>3, <1>4, AsideKeeps

\* A restart forgets every envelope that the node holds.
LEMMA RestartKeeps ==
  ASSUME GatewayTypes, Acked, Restart
  PROVE  GatewayTypes' /\ Acked' /\ KeepsEnvelopes
<1>1. /\ restarts < MaxRestarts /\ restarts' = restarts + 1
      /\ seen' = {} /\ task' = [c \in Calls |-> idle] /\ transit' = <<>> /\ drained' = {} /\ dlq' = <<>>
      /\ drop({k \in Keys : holding(k)}, "restart")
      /\ ended' = [k \in Keys |-> IF k \in seen THEN ended[k] + 1 ELSE ended[k]]
      /\ UNCHANGED <<open, peer, audit, calls>>
  BY DEF Restart
<1>2. CallTypes'
  <2>1. idle.pc = "idle"
    BY DEF idle
  <2> QED
    BY <1>1, <2>1 DEF CallTypes
<1>3. CacheTypes'
  <2>1. IsInjective(<<>>) /\ <<>> \in Seq(Keys) /\ <<>> \in Seq(QueueEntries) /\ Len(<<>>) = 0
    BY DEF IsInjective
  <2> QED
    BY <1>1, <2>1, BoundsAssumption DEF CacheTypes
<1>4. /\ dropped' \in [Keys -> Drops]
      /\ \A k \in Keys : dropped'[k] = IF holding(k) THEN "restart" ELSE dropped[k]
  <2>1. dropped \in [Keys -> Drops] /\ "restart" \in Drops
    BY DEF GatewayTypes, RecordTypes, Drops
  <2> QED
    BY <1>1, <2>1, DropFacts
<1>5. RecordTypes'
  <2>1. ended' \in [Keys -> Nat] /\ restarts' \in 0..MaxRestarts
    BY <1>1, BoundsAssumption DEF GatewayTypes, RecordTypes
  <2> QED
    BY <1>1, <1>4, <2>1 DEF GatewayTypes, RecordTypes
<1>6. Acked' /\ \A j : delivered(j)' <=> delivered(j)
  <2>1. \A d \in Calls : task'[d].pc # "final"
    BY <1>1 DEF idle
  <2> QED
    BY <1>1, <2>1, PeersKept
<1> QED
  BY <1>1, <1>2, <1>3, <1>4, <1>5, <1>6 DEF GatewayTypes, KeepsEnvelopes
-----------------------------------------------------------------------------
EnvelopeInv == GatewayTypes /\ Acked /\ AcceptedIsAccountedFor

\* Every step of the node: the types, settlement and what becomes of envelopes.
LEMMA StepKeeps ==
  ASSUME GatewayTypes, Acked, Next
  PROVE  GatewayTypes' /\ Acked' /\ KeepsEnvelopes
<1>1. ASSUME NEW c \in Calls, NEW k \in Keys, Call(c, k) PROVE GatewayTypes' /\ Acked' /\ KeepsEnvelopes
  BY <1>1, BeginKeeps DEF Call
<1>2. ASSUME NEW c \in Calls, NEW i \in DOMAIN dlq, Replay(c, i) PROVE GatewayTypes' /\ Acked' /\ KeepsEnvelopes
  <2>1. dlq \in Seq(QueueEntries)
    BY DEF GatewayTypes, CacheTypes
  <2>2. PICK k \in Keys : k = dlq[i].key
    <3>1. dlq[i] \in QueueEntries
      BY <2>1
    <3> QED
      BY <3>1 DEF QueueEntries
  <2>3. i \in Nat /\ begin(c, k, "dedup", i)
    BY <1>2, <2>1, <2>2 DEF Replay
  <2> QED
    BY <2>3, BeginKeeps
<1>3. ASSUME NEW c \in Calls, Step(c) PROVE GatewayTypes' /\ Acked' /\ KeepsEnvelopes
  BY <1>3, LoggingKeeps, DedupKeeps, EvaluateKeeps, JitterKeeps, ForwardKeeps, SendKeeps, BackOffKeeps,
     ParkKeeps, ReplyKeeps DEF Step
<1> QED
  BY <1>1, <1>2, <1>3, CancelKeeps, DiscardKeeps, DrainKeeps, WindowsKeep, RestartKeeps DEF Next

\* The inductive invariant of the envelopes: the types of the state, settlement that
\* waits for a peer, and no accepted envelope unaccounted for.
THEOREM EnvelopeInvariant == Spec => []EnvelopeInv
<1>1. Init => EnvelopeInv
  <2> SUFFICES ASSUME Init PROVE EnvelopeInv
    OBVIOUS
  <2>1. idle.pc = "idle"
    BY DEF idle
  <2>2. CallTypes
    BY <2>1 DEF Init, CallTypes
  <2>3. CacheTypes
    <3>1. IsInjective(<<>>) /\ <<>> \in Seq(Keys) /\ <<>> \in Seq(QueueEntries) /\ Len(<<>>) = 0
      BY DEF IsInjective
    <3> QED
      BY <3>1, BoundsAssumption DEF Init, CacheTypes
  <2>4. RecordTypes
    BY BoundsAssumption DEF Init, RecordTypes, Drops
  <2>5. \A k \in Keys, d \in Decisions : audit[<<k, d>>] = 0
    BY DEF Init
  <2>6. Acked
    BY <2>1, <2>5 DEF Init, Acked, FinalAfterAck, Decisions
  <2>7. AcceptedIsAccountedFor
    <3>1. \A k \in Keys : audit[<<k, "ALLOW">>] = 0
      BY <2>5 DEF Decisions
    <3> QED
      BY <3>1 DEF AcceptedIsAccountedFor
  <2> QED
    BY <2>2, <2>3, <2>4, <2>6, <2>7 DEF EnvelopeInv, GatewayTypes
<1>2. EnvelopeInv /\ [Next]_vars => EnvelopeInv'
  <2> SUFFICES ASSUME EnvelopeInv, [Next]_vars PROVE EnvelopeInv'
    OBVIOUS
  <2>1. CASE Next
    <3>1. GatewayTypes' /\ Acked' /\ KeepsEnvelopes
      BY <2>1, StepKeeps DEF EnvelopeInv
    <3>2. ASSUME NEW k \in Keys, audit'[<<k, "ALLOW">>] > 0
          PROVE  delivered(k)' \/ holding(k)' \/ dropped'[k] # "no"
      <4>1. inCall(k)' => holding(k)'
        BY HoldingParts
      <4>2. audit[<<k, "ALLOW">>] > 0 => delivered(k) \/ holding(k) \/ dropped[k] # "no"
        BY DEF EnvelopeInv, AcceptedIsAccountedFor
      <4> QED
        BY <3>1, <3>2, <4>1, <4>2 DEF KeepsEnvelopes
    <3>3. AcceptedIsAccountedFor'
      BY <3>2 DEF AcceptedIsAccountedFor
    <3> QED
      BY <3>1, <3>3 DEF EnvelopeInv
  <2>2. CASE UNCHANGED vars
    BY <2>2, Zenon DEF vars, EnvelopeInv, GatewayTypes, CallTypes, CacheTypes, RecordTypes, Acked, FinalAfterAck,
                AcceptedIsAccountedFor, delivered, holding
  <2> QED
    BY <2>1, <2>2
<1> QED
  BY <1>1, <1>2, PTL DEF Spec

\* No envelope that the node has accepted is lost without a trace: it is with a peer,
\* in a call, the transit cache, the drained list or the queue, or was given up at a
\* place that the code names; for any number of calls, keys and peers.
THEOREM EnvelopesAccountedFor == Spec => []AcceptedIsAccountedFor
<1>1. EnvelopeInv => AcceptedIsAccountedFor
  BY DEF EnvelopeInv
<1> QED
  BY <1>1, EnvelopeInvariant, PTL

\* SendEnvelope records settlement only after Forward has had the answer of a peer.
THEOREM SettledAfterAck == Spec => []FinalAfterAck
<1>1. EnvelopeInv => FinalAfterAck
  BY DEF EnvelopeInv, Acked
<1> QED
  BY <1>1, EnvelopeInvariant, PTL

\* The state keeps its types; in particular the transit cache stays within its capacity
\* with one entry for each key, and attempts stay within RetryPolicy.MaxAttempts.
THEOREM GatewayTypesKept == Spec => []TypeOK
<1>1. EnvelopeInv => TypeOK
  <2> SUFFICES ASSUME EnvelopeInv PROVE TypeOK
    OBVIOUS
  <2>1. ASSUME NEW c \in Calls, task[c] # idle
        PROVE  /\ task[c].pc \in Held \cup {"dummy", "dedup", "duplicate", "policy", "final", "reply"}
               /\ task[c].key \in Keys /\ task[c].replays \in Nat /\ task[c].ctxDone \in BOOLEAN
               /\ task[c].list \in Seq(peerKeys) /\ task[c].attempt \in 0..MaxAttempts
               /\ task[c].pc \in {"send", "backoff"} => task[c].list # <<>> /\ task[c].attempt > 0
    <3>1. task[c] \in TaskRecords
      BY <2>1, TaskFields DEF EnvelopeInv, GatewayTypes
    <3>2. task[c].pc \in {"send", "backoff"} => task[c].list # <<>> /\ task[c].attempt > 0
      BY DEF EnvelopeInv, GatewayTypes, CallTypes
    <3> QED
      BY <3>1, <3>2 DEF TaskRecords, Places
  <2>2. CacheTypes /\ RecordTypes
    BY DEF EnvelopeInv, GatewayTypes
  <2> QED
    BY <2>1, <2>2 DEF TypeOK, CacheTypes, RecordTypes, QueueEntries
<1> QED
  BY <1>1, EnvelopeInvariant, PTL

\* A key is evaluated at most once in each of its deduplication windows, for any
\* number of calls, replays and restarts that race.
THEOREM EvaluatedOnce == Spec => []EvaluatedOncePerWindow
<1>1. Init => WindowInv
  <2> SUFFICES ASSUME Init, NEW k \in Keys
               PROVE  audit[<<k, "ALLOW">>] + audit[<<k, "DENY">>] + Cardinality(evaluating(k))
                        <= ended[k] + (IF k \in seen THEN 1 ELSE 0)
    BY DEF WindowInv
  <2>1. evaluating(k) = {}
    BY DEF Init, evaluating
  <2>2. audit[<<k, "ALLOW">>] = 0 /\ audit[<<k, "DENY">>] = 0 /\ ended[k] = 0 /\ seen = {}
    BY DEF Init, Decisions
  <2>3. Cardinality(evaluating(k)) = 0
    BY <2>1, FS_EmptySet
  <2> QED
    BY <2>2, <2>3
<1>2. EnvelopeInv /\ WindowInv /\ [Next]_vars => WindowInv'
  BY WindowStep DEF EnvelopeInv
<1>3. EnvelopeInv /\ WindowInv => EvaluatedOncePerWindow
  <2> SUFFICES ASSUME EnvelopeInv, WindowInv, NEW k \in Keys
               PROVE  audit[<<k, "ALLOW">>] + audit[<<k, "DENY">>] + Cardinality(evaluating(k)) <= ended[k] + 1
    BY DEF EvaluatedOncePerWindow, evaluating
  <2>1. /\ audit[<<k, "ALLOW">>] \in Nat /\ audit[<<k, "DENY">>] \in Nat /\ ended[k] \in Nat
        /\ Cardinality(evaluating(k)) \in Nat
    BY EvaluatingFinite DEF EnvelopeInv, GatewayTypes, RecordTypes, Decisions
  <2>2. audit[<<k, "ALLOW">>] + audit[<<k, "DENY">>] + Cardinality(evaluating(k)) <= ended[k] + (IF k \in seen THEN 1 ELSE 0)
    BY DEF WindowInv
  <2> QED
    BY <2>1, <2>2
<1> QED
  BY <1>1, <1>2, <1>3, EnvelopeInvariant, PTL DEF Spec
=============================================================================

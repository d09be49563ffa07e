------------------------------- MODULE Gateway -------------------------------
(***************************************************************************)
(* How one node handles envelopes: SendEnvelope (internal/core/gateway.go) *)
(* with the deduplication window, the forwarder and its retries            *)
(* (internal/delivery), the transit cache (internal/transit), the dead     *)
(* letter queue with its replay and discard endpoints                      *)
(* (internal/server/http.go), and the loop that moves expired transit      *)
(* entries to the queue (internal/app/app.go).                             *)
(*                                                                         *)
(* An envelope is its idempotency key; Env gives the fields that decide    *)
(* how it is routed.  A call of SendEnvelope goes through one step for     *)
(* each place where it touches shared state, waits, or calls a peer, and   *)
(* calls run concurrently.  What the policy engine decides depends on a    *)
(* configuration and a revocation list that change (PolicyEngine), so here *)
(* its decision is any.  A peer is a node that runs the same code: it      *)
(* answers DUPLICATE for a key in its window, else its policy's decision.  *)
(***************************************************************************)
EXTENDS Routing

CONSTANTS Calls,       \* goroutines in SendEnvelope
          Keys,        \* idempotency keys
          Env,         \* for each key, [schema, to, hint] of its envelope
          Peers,       \* cfg.Network.Peers, as in Routing
          AllowVia,    \* cfg.Policy.Routing.AllowVia
          MaxAttempts, \* RetryPolicy.MaxAttempts
          maxEntries,  \* the capacity of the transit cache
          Transit,     \* is the transit cache enabled
          SettlementFinality,
          MaxCalls,    \* the bound on calls
          MaxRestarts, \* the bound on restarts
          Operator     \* does an operator use the dead letter queue's endpoints

ASSUME KeysAssumption == \A k \in Keys : Env[k].schema \in {"messaging", "iso20022"}
ASSUME BoundsAssumption ==
  MaxAttempts \in Nat \ {0} /\ maxEntries \in Nat \ {0} /\ MaxCalls \in Nat /\ MaxRestarts \in Nat
ASSUME SwitchAssumption == {Transit, SettlementFinality, Operator} \subseteq BOOLEAN
ASSUME FinitenessAssumption == IsFiniteSet(Calls) /\ IsFiniteSet(DOMAIN Peers)

VARIABLES seen,     \* keys in their deduplication window
          task,     \* for each goroutine, where its call is
          transit,  \* Cache.entries, by expiry: the keys in the order they were put
          drained,  \* what runTransitRetry has drained and not yet appended
          dlq,      \* DLQ.entries
          open,     \* is the cutoff window of iso20022 open
          peer,     \* what each peer has decided about each key, ALLOW once it ever has
          audit,    \* how many rows the audit log has, by key and decision
          ended,    \* how many deduplication windows of each key have ended
          dropped,  \* for each key, where its envelope was last given up
          calls, restarts

vars == <<seen, task, transit, drained, dlq, open, peer, audit, ended, dropped, calls, restarts>>

node == <<transit, drained, dlq, open, peer, ended, dropped>>

idle == [pc |-> "idle"]
peerKeys == DOMAIN Peers
Decisions == {"ALLOW", "DENY", "DUPLICATE", "DUMMY", "FINAL"}
Drops == {"no", "cancelled", "no route", "evicted", "discard", "replay", "restart"}
Routes(k) == routes(Peers, AllowVia, Env[k].to, Env[k].hint)
Held == {"jitter", "forward", "send", "backoff", "park"}

TypeOK ==
  /\ seen \subseteq Keys
  /\ \A c \in Calls :
       \/ task[c] = idle
       \/ /\ task[c].pc \in Held \cup {"dummy", "dedup", "duplicate", "policy", "final", "reply"}
          /\ task[c].key \in Keys /\ task[c].replays \in Nat /\ task[c].ctxDone \in BOOLEAN
          /\ task[c].list \in Seq(peerKeys) /\ task[c].attempt \in 0..MaxAttempts
          /\ task[c].pc \in {"send", "backoff"} => task[c].list # <<>> /\ task[c].attempt > 0
  /\ transit \in Seq(Keys) /\ Len(transit) <= maxEntries /\ IsInjective(transit)
  /\ drained \subseteq Keys
  /\ dlq \in Seq([key: Keys, reason: {"cutoff", "exhausted", "expired"}])
  /\ open \in BOOLEAN
  /\ peer \in [peerKeys \X Keys -> {"none", "ALLOW", "DENY"}]
  /\ audit \in [Keys \X Decisions -> Nat]
  /\ ended \in [Keys -> Nat]
  /\ dropped \in [Keys -> Drops]
  /\ calls \in 0..MaxCalls
  /\ restarts \in 0..MaxRestarts

Init ==
  /\ seen = {}
  /\ task = [c \in Calls |-> idle]
  /\ transit = <<>>
  /\ drained = {}
  /\ dlq = <<>>
  /\ open = TRUE
  /\ peer = [p \in peerKeys \X Keys |-> "none"]
  /\ audit = [r \in Keys \X Decisions |-> 0]
  /\ ended = [k \in Keys |-> 0]
  /\ dropped = [k \in Keys |-> "no"]
  /\ calls = 0
  /\ restarts = 0
-----------------------------------------------------------------------------
at(c, pc) == task[c].pc = pc
go(c, pc) == task' = [task EXCEPT ![c].pc = pc]
log(k, d) == audit' = [audit EXCEPT ![<<k, d>>] = @ + 1]
drop(S, why) == dropped' = [k \in Keys |-> IF k \in S THEN why ELSE dropped[k]]

\* replays is the index that a replay sends, and 0 for another call
begin(c, k, pc, replays) ==
  /\ task[c] = idle
  /\ calls < MaxCalls
  /\ calls' = calls + 1
  /\ task' = [task EXCEPT ![c] = [pc |-> pc, key |-> k, replays |-> replays, ctxDone |-> FALSE,
                                  list |-> <<>>, attempt |-> 0]]
  /\ UNCHANGED <<seen, transit, drained, dlq, open, peer, audit, ended, dropped, restarts>>

\* POST /api/v1/envelopes, an RPC from a peer, or the generator of dummy traffic
Call(c, k) == \E pc \in {"dedup", "dummy"} : begin(c, k, pc, 0)

\* POST /api/v1/dlq/{index}/replay: the entry is copied and sent like a new one
Replay(c, i) == Operator /\ i \in DOMAIN dlq /\ begin(c, dlq[i].key, "dedup", i)

\* Mutant: a replay goes past the deduplication index.
DedupUnlessReplay(c) ==
  LET k == task[c].key
  IN  /\ at(c, "dedup")
      /\ IF k \in seen /\ task[c].replays = 0
           THEN go(c, "duplicate") /\ UNCHANGED seen
           ELSE go(c, "policy") /\ seen' = seen \cup {k}
      /\ UNCHANGED <<node, audit, calls, restarts>>

\* Reading and updating the deduplication index is one critical section.
Dedup(c) ==
  LET k == task[c].key
  IN  /\ at(c, "dedup")
      /\ IF k \in seen
           THEN go(c, "duplicate") /\ UNCHANGED seen
           ELSE go(c, "policy") /\ seen' = seen \cup {k}
      /\ UNCHANGED <<node, audit, calls, restarts>>

\* A dummy envelope is answered before anything else looks at it.
Dummy(c) ==
  /\ at(c, "dummy")
  /\ log(task[c].key, "DUMMY")
  /\ go(c, "reply")
  /\ UNCHANGED <<seen, node, calls, restarts>>

Duplicate(c) ==
  /\ at(c, "duplicate")
  /\ log(task[c].key, "DUPLICATE")
  /\ go(c, "reply")
  /\ UNCHANGED <<seen, node, calls, restarts>>

\* policy.Evaluate, with its audit row
Evaluate(c) ==
  /\ at(c, "policy")
  /\ \E d \in {"ALLOW", "DENY"} :
       /\ log(task[c].key, d)
       /\ IF d = "ALLOW"
            THEN go(c, "jitter") /\ drop({task[c].key}, "no")
            ELSE go(c, "reply") /\ UNCHANGED dropped
  /\ UNCHANGED <<seen, transit, drained, dlq, open, peer, ended, calls, restarts>>

\* applyJitter: the sleep ends, or the context does and nothing is forwarded
Jitter(c) ==
  /\ at(c, "jitter")
  /\ \/ go(c, "forward") /\ UNCHANGED dropped
     \/ /\ task[c].ctxDone
        /\ go(c, "reply")
        /\ drop({task[c].key}, "cancelled")
  /\ UNCHANGED <<seen, transit, drained, dlq, open, peer, audit, ended, calls, restarts>>

\* Forward, up to the first attempt: the cutoff window, then the choice of peers
Forward(c) ==
  LET k == task[c].key
  IN  /\ at(c, "forward")
      /\ \/ /\ Env[k].schema = "iso20022" /\ ~open
            /\ dlq' = Append(dlq, [key |-> k, reason |-> "cutoff"])
            /\ go(c, "reply")
            /\ UNCHANGED dropped
         \/ /\ Env[k].schema = "iso20022" => open
            /\ \E list \in Routes(k) :
                 IF list = <<>>
                   THEN /\ go(c, "reply")
                        /\ drop({k}, "no route")
                   ELSE /\ task' = [task EXCEPT ![c].pc = "send", ![c].list = list, ![c].attempt = 1]
                        /\ UNCHANGED dropped
            /\ UNCHANGED dlq
      /\ UNCHANGED <<seen, transit, drained, open, peer, audit, ended, calls, restarts>>

\* What a peer answers to a key: it decides now, or, if it had the key before and
\* has not forgotten it (Forget, Restart), DUPLICATE.
answers(p, k) == {"ALLOW", "DENY"} \cup IF peer[<<p, k>>] = "none" THEN {} ELSE {"DUPLICATE"}

decided(p, k, a) ==
  peer' = IF a = "DUPLICATE" \/ peer[<<p, k>>] = "ALLOW" THEN peer ELSE [peer EXCEPT ![<<p, k>>] = a]

\* Mutant: an error of the transport is taken for an answer.
SendIgnoringErrors(c) ==
  LET k == task[c].key
      p == Head(task[c].list)
  IN  /\ at(c, "send")
      /\ \/ go(c, "final") /\ UNCHANGED peer
         \/ \E a \in answers(p, k) :
              /\ decided(p, k, a)
              /\ go(c, IF a = "DENY" THEN "backoff" ELSE "final")
      /\ UNCHANGED <<seen, transit, drained, dlq, open, audit, ended, dropped, calls, restarts>>

\* One attempt.  The request may be lost, and so may the answer; DENY is an error
\* for the caller, ALLOW and DUPLICATE are success.
Send(c) ==
  LET k == task[c].key
      p == Head(task[c].list)
  IN  /\ at(c, "send")
      /\ \/ go(c, "backoff") /\ UNCHANGED peer
         \/ \E a \in answers(p, k) :
              /\ decided(p, k, a)
              /\ \/ go(c, "backoff")
                 \/ a # "DENY" /\ go(c, "final")
      /\ UNCHANGED <<seen, transit, drained, dlq, open, audit, ended, dropped, calls, restarts>>

\* Mutants: one attempt too many; attempts are not counted; a call whose context
\* is done returns from Forward at once.
BackOffOneMore(c) ==
  LET t == task[c]
  IN  /\ at(c, "backoff")
      /\ \/ /\ t.attempt <= MaxAttempts
            /\ task' = [task EXCEPT ![c].pc = "send", ![c].attempt = @ + 1]
         \/ /\ t.attempt > MaxAttempts \/ t.ctxDone
            /\ task' = IF Len(t.list) > 1
                         THEN [task EXCEPT ![c].pc = "send", ![c].list = Tail(@), ![c].attempt = 1]
                         ELSE [task EXCEPT ![c].pc = "park"]
      /\ UNCHANGED <<seen, node, audit, calls, restarts>>

BackOffUncounted(c) ==
  LET t == task[c]
  IN  /\ at(c, "backoff")
      /\ \/ t.attempt < MaxAttempts /\ go(c, "send")
         \/ /\ t.attempt = MaxAttempts \/ t.ctxDone
            /\ task' = IF Len(t.list) > 1
                         THEN [task EXCEPT ![c].pc = "send", ![c].list = Tail(@), ![c].attempt = 1]
                         ELSE [task EXCEPT ![c].pc = "park"]
      /\ UNCHANGED <<seen, node, audit, calls, restarts>>

BackOffOrReturn(c) ==
  LET t == task[c]
  IN  /\ at(c, "backoff")
      /\ \/ t.ctxDone /\ go(c, "reply")
         \/ /\ t.attempt < MaxAttempts
            /\ task' = [task EXCEPT ![c].pc = "send", ![c].attempt = @ + 1]
         \/ /\ t.attempt = MaxAttempts
            /\ task' = IF Len(t.list) > 1
                         THEN [task EXCEPT ![c].pc = "send", ![c].list = Tail(@), ![c].attempt = 1]
                         ELSE [task EXCEPT ![c].pc = "park"]
      /\ UNCHANGED <<seen, node, audit, calls, restarts>>

\* SendWithRetry after a failed attempt: another one, or, at the last attempt or
\* when the context is done, the next peer
BackOff(c) ==
  LET t == task[c]
  IN  /\ at(c, "backoff")
      /\ \/ /\ t.attempt < MaxAttempts
            /\ task' = [task EXCEPT ![c].pc = "send", ![c].attempt = @ + 1]
         \/ /\ t.attempt = MaxAttempts \/ t.ctxDone
            /\ task' = IF Len(t.list) > 1
                         THEN [task EXCEPT ![c].pc = "send", ![c].list = Tail(@), ![c].attempt = 1]
                         ELSE [task EXCEPT ![c].pc = "park"]
      /\ UNCHANGED <<seen, node, audit, calls, restarts>>

\* Cache.Put: at capacity the oldest entry goes, even when k is already there.
\* An entry that k still has is replaced.
put(k) ==
  LET kept == IF Len(transit) >= maxEntries THEN Tail(transit) ELSE transit
      old == {i \in DOMAIN kept : kept[i] = k}
  IN  Append(IF old = {} THEN kept ELSE without(kept, CHOOSE i \in old : TRUE), k)

evicted(k) == IF Len(transit) >= maxEntries THEN {Head(transit)} \ {k} ELSE {}

\* The end of Forward: every peer failed
Park(c) ==
  LET k == task[c].key
  IN  /\ at(c, "park")
      /\ go(c, "reply")
      /\ IF Transit
           THEN /\ transit' = put(k)
                /\ drop(evicted(k), "evicted")
                /\ UNCHANGED dlq
           ELSE /\ dlq' = Append(dlq, [key |-> k, reason |-> "exhausted"])
                /\ UNCHANGED <<transit, dropped>>
      /\ UNCHANGED <<seen, drained, open, peer, audit, ended, calls, restarts>>

\* SendEnvelope after Forward succeeded
Final(c) ==
  /\ at(c, "final")
  /\ IF Env[task[c].key].schema = "iso20022" /\ SettlementFinality
       THEN log(task[c].key, "FINAL")
       ELSE UNCHANGED audit
  /\ go(c, "reply")
  /\ UNCHANGED <<seen, node, calls, restarts>>

\* DLQ.Remove
remove(i) == IF i \in DOMAIN dlq THEN without(dlq, i) ELSE dlq
removed(i) == IF i \in DOMAIN dlq THEN {dlq[i].key} ELSE {}

\* The call returns; a replay then removes the entry at its index.
Reply(c) ==
  /\ at(c, "reply")
  /\ task' = [task EXCEPT ![c] = idle]
  /\ dlq' = remove(task[c].replays)
  /\ drop(removed(task[c].replays), "replay")
  /\ UNCHANGED <<seen, transit, drained, open, peer, audit, ended, calls, restarts>>
-----------------------------------------------------------------------------
\* The client of a call goes away.
Cancel(c) ==
  /\ task[c] # idle
  /\ ~task[c].ctxDone
  /\ task' = [task EXCEPT ![c].ctxDone = TRUE]
  /\ UNCHANGED <<seen, node, audit, calls, restarts>>

\* DELETE /api/v1/dlq/{index} and POST /api/v1/dlq/{index}/discard
Discard(i) ==
  /\ Operator
  /\ i \in DOMAIN dlq
  /\ dlq' = remove(i)
  /\ drop(removed(i), "discard")
  /\ UNCHANGED <<seen, task, transit, drained, open, peer, audit, ended, calls, restarts>>

\* Mutant: the newest entry is never taken.
DrainAllButLast ==
  /\ drained = {}
  /\ \E n \in 1..(Len(transit) - 1) :
       /\ drained' = Range(SubSeq(transit, 1, n))
       /\ transit' = SubSeq(transit, n + 1, Len(transit))
  /\ UNCHANGED <<seen, task, dlq, open, peer, audit, ended, dropped, calls, restarts>>

\* runTransitRetry: the entries that have expired, the oldest ones, are taken out
\* of the cache, then appended to the queue one after the other in any order.
Drain ==
  /\ drained = {}
  /\ \E n \in DOMAIN transit :
       /\ drained' = Range(SubSeq(transit, 1, n))
       /\ transit' = SubSeq(transit, n + 1, Len(transit))
  /\ UNCHANGED <<seen, task, dlq, open, peer, audit, ended, dropped, calls, restarts>>

DrainOne ==
  /\ \E k \in drained :
       /\ drained' = drained \ {k}
       /\ dlq' = Append(dlq, [key |-> k, reason |-> "expired"])
  /\ UNCHANGED <<seen, task, transit, open, peer, audit, ended, dropped, calls, restarts>>

\* The deduplication window of k ends.
Forget(k) ==
  /\ k \in seen
  /\ seen' = seen \ {k}
  /\ ended' = [ended EXCEPT ![k] = @ + 1]
  /\ UNCHANGED <<task, transit, drained, dlq, open, peer, audit, dropped, calls, restarts>>

\* The processing window of the payments opens or closes.
Cutoff ==
  /\ \E k \in Keys : Env[k].schema = "iso20022"
  /\ open' = ~open
  /\ UNCHANGED <<seen, task, transit, drained, dlq, peer, audit, ended, dropped, calls, restarts>>

holding(k) ==
  \/ k \in drained \cup Range(transit)
  \/ \E i \in DOMAIN dlq : dlq[i].key = k
  \/ \E c \in Calls : task[c] # idle /\ task[c].pc \in Held /\ task[c].key = k

\* The process ends and starts again: nothing of this state is stored.
Restart ==
  /\ restarts < MaxRestarts
  /\ restarts' = restarts + 1
  /\ seen' = {}
  /\ task' = [c \in Calls |-> idle]
  /\ transit' = <<>>
  /\ drained' = {}
  /\ dlq' = <<>>
  /\ drop({k \in Keys : holding(k)}, "restart")
  /\ ended' = [k \in Keys |-> IF k \in seen THEN ended[k] + 1 ELSE ended[k]]
  /\ UNCHANGED <<open, peer, audit, calls>>

Step(c) ==
  \/ Dummy(c) \/ Dedup(c) \/ Duplicate(c) \/ Evaluate(c) \/ Jitter(c) \/ Forward(c) \/ Send(c)
  \/ BackOff(c) \/ Park(c) \/ Final(c) \/ Reply(c)

Next ==
  \/ \E c \in Calls, k \in Keys : Call(c, k)
  \/ \E c \in Calls, i \in DOMAIN dlq : Replay(c, i)
  \/ \E c \in Calls : Step(c) \/ Cancel(c)
  \/ \E i \in DOMAIN dlq : Discard(i)
  \/ Drain \/ DrainOne \/ Cutoff \/ Restart
  \/ \E k \in Keys : Forget(k)

Spec == Init /\ [][Next]_vars

\* A goroutine in SendEnvelope keeps running, and so does runTransitRetry.
FairSpec == Spec /\ \A c \in Calls : WF_vars(Step(c)) /\ WF_vars(Drain) /\ WF_vars(DrainOne)
-----------------------------------------------------------------------------
delivered(k) == \E p \in peerKeys : peer[<<p, k>>] # "none"

\* An envelope that the node has accepted is in the hands of a peer, or held by
\* the node, or was given up at one of the places that Drops names.  Moving it
\* between a call, the transit cache, the drained list and the queue loses none.
AcceptedIsAccountedFor ==
  \A k \in Keys : audit[<<k, "ALLOW">>] > 0 =>
    delivered(k) \/ holding(k) \/ dropped[k] # "no"

\* In one deduplication window a key is evaluated at most once, so it reaches the
\* inbox, the webhooks and the forwarder at most once, however many calls race.
EvaluatedOncePerWindow ==
  \A k \in Keys : audit[<<k, "ALLOW">>] + audit[<<k, "DENY">>]
                    + Cardinality({c \in Calls : task[c] # idle /\ task[c].pc = "policy" /\ task[c].key = k})
                  <= ended[k] + 1

\* Settlement is recorded as final only after a peer has had the envelope.
FinalAfterAck == \A k \in Keys : audit[<<k, "FINAL">>] > 0 => delivered(k)

\* Every call returns, whatever the peers do: the retries end.
EveryCallReturns == \A c \in Calls : task[c] # idle ~> task[c] = idle

\* No envelope stays in the transit cache: it is moved on, or evicted.
TransitIsTemporary ==
  \A k \in Keys : (k \in Range(transit) \cup drained) ~> (k \notin Range(transit) \cup drained)
-----------------------------------------------------------------------------
\* A replayed envelope is not lost: what a replay removes from the queue has
\* reached a peer or is held elsewhere.
ReplayLosesNothing ==
  \A k \in Keys : dropped[k] = "replay" => delivered(k) \/ holding(k)

\* Settlement is final when the destination has accepted the envelope.
FinalMeansAccepted ==
  \A k \in Keys : audit[<<k, "FINAL">>] > 0 => \E p \in peerKeys : peer[<<p, k>>] = "ALLOW"

\* What the cutoff window holds back is retried once the window is open.
CutoffIsRetried ==
  []<>open =>
  \A k \in Keys : (\E i \in DOMAIN dlq : dlq[i] = [key |-> k, reason |-> "cutoff"])
                     ~> (\E c \in Calls : task[c] # idle /\ task[c].key = k)
=============================================================================

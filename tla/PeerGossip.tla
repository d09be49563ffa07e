----------------------------- MODULE PeerGossip -----------------------------
(***************************************************************************)
(* The exchange of peer lists between nodes: runPeerGossip in              *)
(* internal/app/app.go, ExchangePeers in internal/transport/grpc/adapter.go *)
(* and the registry of internal/peerdiscovery/registry.go.                 *)
(*                                                                         *)
(* Time is counted in gossip intervals.  In each one, every node that is   *)
(* up ticks once: it drops what it has not heard of for staleAge and calls *)
(* all peers it knows, each from a goroutine of its own.  A call ends      *)
(* within the interval; on a steady link fewer than staleAge calls fail in *)
(* a row, on other links any number may.                                   *)
(* Peers are keyed by the id that configurations list them under.          *)
(***************************************************************************)
EXTENDS Integers, FiniteSets

CONSTANTS GossipNodes,
          staticPeers, \* for each node, the peers of its configuration
          bootstrap,   \* pairs of a node and a bootstrap peer of its configuration
          steadyLinks, \* pairs of a node and a static peer that it can reach
          staleAge     \* in intervals, 5 in the code

ASSUME GossipAssumption ==
  /\ staleAge \in Nat /\ staleAge >= 2
  /\ staticPeers \in [GossipNodes -> SUBSET GossipNodes]
  /\ bootstrap \subseteq GossipNodes \X GossipNodes
  /\ \A l \in steadyLinks : l \in GossipNodes \X GossipNodes /\ l[2] \in staticPeers[l[1]]

VARIABLES age,    \* Registry.peers: intervals since LastSeen, rounded up; -1 for a peer not known
          ticked, \* the nodes that have ticked in this interval
          calls,  \* calls that were started and not served yet: pairs of caller and peer
          answer, \* answers on their way to a caller, by such a pair; {} for none
          silent  \* for each steady link, the intervals since the last answer was applied

gossipVars == <<age, ticked, calls, answer, silent>>

pairs == GossipNodes \X GossipNodes
known(n) == {p \in GossipNodes : age[n][p] >= 0}

GossipTypeOK ==
  /\ age \in [GossipNodes -> [GossipNodes -> -1..(staleAge + 1)]]
  /\ ticked \subseteq GossipNodes
  /\ calls \subseteq pairs
  /\ answer \in [pairs -> SUBSET GossipNodes]
  /\ silent \in [steadyLinks -> 0..(staleAge + 1)]

\* The seeding of the registry with the static peers, just before the ticker starts:
\* at the first tick they are older than one interval.  The bootstrap peers are called
\* once, before the first tick.
GossipInit ==
  /\ age = [n \in GossipNodes |-> [p \in GossipNodes |-> IF p \in staticPeers[n] THEN 2 ELSE -1]]
  /\ ticked = {}
  /\ calls = bootstrap
  /\ answer = [x \in pairs |-> {}]
  /\ silent = [x \in steadyLinks |-> 2]

\* Registry.Announce, for each of a set of peers
announce(r, peers) == [p \in GossipNodes |-> IF p \in peers THEN 0 ELSE r[p]]

\* Mutant: a peer is dropped at staleAge already.
evictAtStale(r) == [p \in GossipNodes |-> IF r[p] >= staleAge THEN -1 ELSE r[p]]

\* Registry.EvictStale
EvictStale(r) == [p \in GossipNodes |-> IF r[p] > staleAge THEN -1 ELSE r[p]]

\* A tick of the loop: a goroutine is started for every peer that is left
GossipTick(n) ==
  /\ n \notin ticked
  /\ \A p \in GossipNodes : <<n, p>> \notin calls /\ answer[<<n, p>>] = {}
  /\ ticked' = ticked \cup {n}
  /\ age' = [age EXCEPT ![n] = EvictStale(@)]
  /\ calls' = calls \cup {<<n, p>> : p \in {p \in GossipNodes : age'[n][p] >= 0}}
  /\ UNCHANGED <<answer, silent>>

\* Mutant: the answer is the list of the request.
ServeEcho(n, p) ==
  /\ <<n, p>> \in calls
  /\ calls' = calls \ {<<n, p>>}
  /\ LET merged == announce(age[p], known(n))
     IN  /\ age' = [age EXCEPT ![p] = merged]
         /\ answer' = [answer EXCEPT ![<<n, p>>] = known(n)]
  /\ UNCHANGED <<ticked, silent>>

\* ExchangePeers at p: what n knows is merged, and what p then knows is the answer.
\* The peer that looks for the sender in that list adds nothing to the merge.
Serve(n, p) ==
  /\ <<n, p>> \in calls
  /\ calls' = calls \ {<<n, p>>}
  /\ LET merged == announce(age[p], known(n))
     IN  /\ age' = [age EXCEPT ![p] = merged]
         /\ answer' = [answer EXCEPT ![<<n, p>>] = {q \in GossipNodes : merged[q] >= 0}]
  /\ UNCHANGED <<ticked, silent>>

\* The peers of the answer are announced, seen now whenever that was
ApplyAnswer(n, p) ==
  /\ answer[<<n, p>>] # {}
  /\ age' = [age EXCEPT ![n] = announce(@, answer[<<n, p>>])]
  /\ answer' = [answer EXCEPT ![<<n, p>>] = {}]
  /\ silent' = [x \in steadyLinks |-> IF x = <<n, p>> THEN 0 ELSE silent[x]]
  /\ UNCHANGED <<ticked, calls>>

\* The dial or the call fails
CallFails(n, p) ==
  /\ <<n, p>> \in calls
  /\ <<n, p>> \in steadyLinks => silent[<<n, p>>] < staleAge
  /\ calls' = calls \ {<<n, p>>}
  /\ UNCHANGED <<age, ticked, answer, silent>>

older(i) == IF i = -1 THEN -1 ELSE i + 1

NextInterval ==
  /\ ticked = GossipNodes /\ calls = {}
  /\ \A x \in pairs : answer[x] = {}
  /\ ticked' = {}
  /\ age' = [n \in GossipNodes |-> [p \in GossipNodes |-> older(age[n][p])]]
  /\ silent' = [x \in steadyLinks |-> older(silent[x])]
  /\ UNCHANGED <<calls, answer>>

GossipStep(n, p) == Serve(n, p) \/ ApplyAnswer(n, p) \/ CallFails(n, p)

GossipNext ==
  \/ \E n \in GossipNodes : GossipTick(n)
  \/ \E n, p \in GossipNodes : GossipStep(n, p)
  \/ NextInterval

GossipSpec == GossipInit /\ [][GossipNext]_gossipVars /\ WF_gossipVars(GossipNext)
-----------------------------------------------------------------------------
listed == UNION {staticPeers[n] : n \in GossipNodes}

\* Gossip invents nobody: a node knows only peers that some configuration lists.
KnownIsListed == \A n \in GossipNodes : known(n) \subseteq listed

\* A node does not forget a static peer that it can reach.  The entry is renewed only
\* because the peer, told of itself by the call, lists itself in its answer.
StaticPeersStay == \A l \in steadyLinks : l[2] \in known(l[1])

\* A node knows its peers: those it can reach, and nobody that no configuration lists.
KnowsItsPeers == KnownIsListed /\ StaticPeersStay

\* The lists spread: once it ticks, a node comes to know the static peers of a peer that it can reach,
\* and keeps them even if nobody can reach those, as the two renew each other's entries.
PeersOfPeersSpread == \A l \in steadyLinks : l[1] \in ticked ~> [](staticPeers[l[2]] \subseteq known(l[1]))
=============================================================================

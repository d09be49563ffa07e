------------------------------ MODULE Discovery ------------------------------
(***************************************************************************)
(* Federated discovery and connect: the handlers BroadcastDiscovery and    *)
(* Connect of every node (internal/transport/grpc/adapter.go), with the    *)
(* broadcaster (internal/discovery), the token store (internal/token), the *)
(* isolation policy (EvaluateDiscovery) and the connect resolver           *)
(* (internal/connect).                                                     *)
(*                                                                         *)
(* A handler calls its peers one after the other and each of them runs the *)
(* same handler, so a discovery is a stack of frames, of which the last    *)
(* one runs.  What the rate limiter says is any answer.  A token is its    *)
(* place in `tokens', which has the tokens of all nodes.                   *)
(***************************************************************************)
EXTENDS Naturals, Sequences

CONSTANTS Nodes,
          Peers,        \* for each node, the nodes of its [network.peers]
          Apps,         \* for each node, the apps it serves
          WithUsers,    \* for each node, those of them that have users
          AppIsolation, \* for each node, OPEN, WHITELIST or SAME_APP_ONLY
          AllowedApps,  \* for each node, AllowedAppIDs
          AutoAccept,   \* for each node, the mode of [policy.connect]
          TrustedNodes, \* for each node, those it trusts
          Requests,     \* request ids
          Req,          \* for each request, its origin, app, hops and whether it bears a timestamp
          Callers,      \* node ids that calls of Connect bear
          Connects,     \* calls of Connect, a goroutine each
          MaxTokens     \* the bound on tokens

ASSUME NodesAssumption == Peers \in [Nodes -> SUBSET Nodes]
ASSUME AppsAssumption == \A n \in Nodes : WithUsers[n] \subseteq Apps[n]
ASSUME ModesAssumption ==
  /\ AppIsolation \in [Nodes -> {"OPEN", "WHITELIST", "SAME_APP_ONLY"}]
  /\ AutoAccept \in [Nodes -> {"MANUAL", "AUTO_WHITELIST", "AUTO_MUTUAL", "AUTO_ALL"}]
ASSUME ReqAssumption == \A d \in Requests : Req[d].hops \in Nat /\ Req[d].stamped \in BOOLEAN
ASSUME BoundAssumption == MaxTokens \in Nat

VARIABLES asked,    \* requests that were sent
          stack,    \* for each request, the frames of the handlers that run for it
          answer,   \* for each request, the token its sender was given, 0 for none
          age,      \* for each request, 1 after 30 s, the dedup window, and 2 past them
          seen,     \* for each node, the request ids in its dedup index
          tokens,   \* tokens issued so far, and what became of them
          task,     \* for each call of Connect, where it is
          sessions  \* connects that were accepted

vars == <<asked, stack, answer, age, seen, tokens, task, sessions>>
found == <<asked, stack, answer, age, seen>>
joined == <<task, sessions>>

idle == [pc |-> "idle"]
done == [pc |-> "done"]
Origins == {Req[d].origin : d \in Requests}
Tokens == 1..MaxTokens

TypeOK ==
  /\ asked \subseteq Requests
  /\ \A d \in Requests : \A i \in DOMAIN stack[d] :
       LET f == stack[d][i]
       IN  /\ f.pc \in {"enter", "fan", "call", "local"} /\ (f.pc = "call" <=> i < Len(stack[d]))
           /\ f.node \in Nodes /\ f.todo \subseteq Peers[f.node] /\ f.hops \in Nat /\ f.got \in 0..Len(tokens)
           /\ f.stale => f.pc = "local"
  /\ answer \in [Requests -> 0..Len(tokens)]
  /\ age \in [Requests -> 0..2]
  /\ seen \in [Nodes -> SUBSET Requests]
  /\ Len(tokens) <= MaxTokens
  /\ \A t \in DOMAIN tokens : /\ tokens[t].app \in WithUsers[tokens[t].node]
                              /\ tokens[t].origin \in Origins
                              /\ tokens[t].state \in {"active", "expired", "gone"}
  /\ \A c \in Connects :
       task[c] \notin {idle, done} => task[c].pc \in {"evict", "decide"} /\ task[c].token \in DOMAIN tokens
  /\ sessions \subseteq [token: DOMAIN tokens, node: Nodes, origin: Callers]

Init ==
  /\ asked = {}
  /\ stack = [d \in Requests |-> <<>>]
  /\ answer = [d \in Requests |-> 0]
  /\ age = [d \in Requests |-> 0]
  /\ seen = [n \in Nodes |-> {}]
  /\ tokens = <<>>
  /\ task = [c \in Connects |-> idle]
  /\ sessions = {}
-----------------------------------------------------------------------------
(* BroadcastDiscovery *)

frame(n, hops) == [node |-> n, hops |-> hops, pc |-> "enter", todo |-> {}, got |-> 0, stale |-> FALSE]
depth(d) == Len(stack[d])
top(d) == stack[d][depth(d)]
running(d, pc) == stack[d] # <<>> /\ top(d).pc = pc
below(d) == SubSeq(stack[d], 1, depth(d) - 1)
become(d, f) == stack' = [stack EXCEPT ![d] = Append(below(d), f)]

\* Does EvaluateDiscovery let the app `origin' in, if the node takes `mine' for its own
EvaluateDiscovery(n, origin, mine) ==
  CASE AppIsolation[n] = "OPEN" -> TRUE
    [] AppIsolation[n] = "WHITELIST" -> origin \in AllowedApps[n]
    [] AppIsolation[n] = "SAME_APP_ONLY" -> origin = mine

\* The app that the handler compares with: the first of a map, hence any
nodeAppID(n) == IF Apps[n] = {} THEN {""} ELSE Apps[n]

isStale(d) == Req[d].stamped /\ age[d] = 2

\* A client sends a discovery to a node.
Discover(d, n) ==
  /\ d \notin asked
  /\ asked' = asked \cup {d}
  /\ stack' = [stack EXCEPT ![d] = <<frame(n, Req[d].hops)>>]
  /\ UNCHANGED <<answer, age, seen, tokens, joined>>

\* The last handler returns token t, or nothing if t is 0, to the handler before it
\* or to the client; the answer may be lost on the way.
return(d, t) ==
  LET caller == stack[d][depth(d) - 1]
  IN  IF depth(d) = 1
        THEN /\ stack' = [stack EXCEPT ![d] = <<>>]
             /\ answer' \in {answer, [answer EXCEPT ![d] = t]}
        ELSE /\ \E got \in {0, t} :
                  stack' = [stack EXCEPT ![d] =
                    Append(SubSeq(stack[d], 1, depth(d) - 2),
                           [caller EXCEPT !.pc = "fan", !.got = IF caller.got = 0 THEN got ELSE caller.got])]
             /\ UNCHANGED answer

\* Mutant: the isolation policy is not asked about a request that is passed on.
EnterUnasked(d) ==
  LET f == top(d)
      n == f.node
  IN  /\ running(d, "enter")
      /\ IF isStale(d) \/ d \in seen[n] \/ Peers[n] = {} \/ f.hops = 0
           THEN \E mine \in nodeAppID(n) :
                  IF EvaluateDiscovery(n, Req[d].app, mine)
                    THEN become(d, [f EXCEPT !.pc = "local"]) /\ UNCHANGED answer
                    ELSE return(d, 0)
           ELSE become(d, [f EXCEPT !.pc = "fan", !.todo = Peers[n]]) /\ UNCHANGED answer
      /\ seen' = IF Peers[n] = {} \/ isStale(d) THEN seen ELSE [seen EXCEPT ![n] = @ \cup {d}]
      /\ UNCHANGED <<asked, age, tokens, joined>>

\* The handler up to the fan-out: the rate limiter or the isolation policy end it;
\* a request that is stale, seen before or out of hops is not passed on, and the
\* node still looks among its own users.
Enter(d) ==
  LET f == top(d)
      n == f.node
  IN  /\ running(d, "enter")
      /\ \/ return(d, 0) /\ UNCHANGED seen
         \/ \E mine \in nodeAppID(n) :
              /\ EvaluateDiscovery(n, Req[d].app, mine)
              /\ IF Peers[n] = {} \/ isStale(d) \/ d \in seen[n] \/ f.hops = 0
                   THEN become(d, [f EXCEPT !.pc = "local", !.stale = isStale(d)])
                   ELSE become(d, [f EXCEPT !.pc = "fan", !.todo = Peers[n]])
              /\ seen' = IF Peers[n] = {} \/ isStale(d) THEN seen ELSE [seen EXCEPT ![n] = @ \cup {d}]
              /\ UNCHANGED answer
      /\ UNCHANGED <<asked, age, tokens, joined>>

\* Mutants: the hop limit is passed on as it came; a peer that was called stays
\* among those to call.
CallSameHops(d) ==
  LET f == top(d)
  IN  /\ running(d, "fan")
      /\ \E p \in f.todo :
           LET rest == [f EXCEPT !.todo = @ \ {p}]
           IN  \/ become(d, rest)
               \/ stack' = [stack EXCEPT ![d] = below(d) \o <<[rest EXCEPT !.pc = "call"], frame(p, f.hops)>>]
      /\ UNCHANGED <<asked, answer, age, seen, tokens, joined>>

CallAgain(d) ==
  LET f == top(d)
  IN  /\ running(d, "fan")
      /\ \E p \in f.todo :
           \/ become(d, [f EXCEPT !.todo = @ \ {p}])
           \/ stack' = [stack EXCEPT ![d] = below(d) \o <<[f EXCEPT !.pc = "call"], frame(p, f.hops - 1)>>]
      /\ UNCHANGED <<asked, answer, age, seen, tokens, joined>>

\* Broadcast, the next peer: it cannot be reached, or its handler runs.
Call(d) ==
  LET f == top(d)
  IN  /\ running(d, "fan")
      /\ \E p \in f.todo :
           LET rest == [f EXCEPT !.todo = @ \ {p}]
           IN  \/ become(d, rest)
               \/ stack' = [stack EXCEPT ![d] = below(d) \o <<[rest EXCEPT !.pc = "call"], frame(p, f.hops - 1)>>]
      /\ UNCHANGED <<asked, answer, age, seen, tokens, joined>>

\* After the last peer the first token that came back is returned; if none did,
\* the node looks among its own users.
Collect(d) ==
  /\ running(d, "fan")
  /\ top(d).todo = {}
  /\ IF top(d).got # 0
       THEN return(d, top(d).got)
       ELSE become(d, [top(d) EXCEPT !.pc = "local"]) /\ UNCHANGED answer
  /\ UNCHANGED <<asked, age, seen, tokens, joined>>

\* Mutant: the token is returned and not stored.
LocalUnstored(d) ==
  /\ running(d, "local")
  /\ return(d, Len(tokens) + 1)
  /\ UNCHANGED <<asked, age, seen, tokens, joined>>

\* A token for the first app that has users, or for none, if there is none or Issue fails
Local(d) ==
  LET n == top(d).node
  IN  /\ running(d, "local")
      /\ \/ return(d, 0) /\ UNCHANGED tokens
         \/ /\ Len(tokens) < MaxTokens
            /\ \E app \in WithUsers[n] :
                 tokens' = Append(tokens, [node |-> n, app |-> app, origin |-> Req[d].origin,
                                           stale |-> top(d).stale, state |-> "active"])
            /\ return(d, Len(tokens'))
      /\ UNCHANGED <<asked, age, seen, joined>>

\* Time goes by for a request, and then for the dedup index of a node.
Age(d) ==
  /\ d \in asked /\ age[d] < 2
  /\ age' = [age EXCEPT ![d] = @ + 1]
  /\ UNCHANGED <<asked, stack, answer, seen, tokens, joined>>

Forget(n, d) ==
  /\ d \in seen[n] /\ age[d] > 0
  /\ seen' = [seen EXCEPT ![n] = @ \ {d}]
  /\ UNCHANGED <<asked, stack, answer, age, tokens, joined>>
-----------------------------------------------------------------------------
(* Tokens and Connect *)

setState(t, s) == tokens' = [tokens EXCEPT ![t].state = s]

Expire(t) ==
  /\ tokens[t].state = "active"
  /\ setState(t, "expired")
  /\ UNCHANGED <<found, joined>>

\* Mutant: the first of the expired tokens is skipped.
PurgeAllButOne(n) ==
  /\ \E t \in DOMAIN tokens : /\ tokens[t].node = n /\ tokens[t].state = "expired"
                              /\ \E u \in 1..(t - 1) : tokens[u].node = n /\ tokens[u].state = "expired"
                              /\ setState(t, "gone")
  /\ UNCHANGED <<found, joined>>

\* Store.Purge, from runTokenPurge
Purge(n) ==
  /\ \E t \in DOMAIN tokens : tokens[t].node = n /\ tokens[t].state = "expired"
  /\ tokens' = [t \in DOMAIN tokens |-> IF tokens[t].node = n /\ tokens[t].state = "expired"
                                          THEN [tokens[t] EXCEPT !.state = "gone"] ELSE tokens[t]]
  /\ UNCHANGED <<found, joined>>

\* Store.Resolve: is the token in the store of node n, and still good; one that
\* has expired is deleted on the way.
Resolve(n, t) == tokens[t].node = n /\ tokens[t].state = "active"
dropExpired(n, t) ==
  IF tokens[t].node = n /\ tokens[t].state = "expired" THEN setState(t, "gone") ELSE UNCHANGED tokens

call(n, t, origin) == [pc |-> "evict", node |-> n, token |-> t, origin |-> origin]

\* Mutant: whoever presents the token may use it.
ConnectForAny(c, n, t, origin) ==
  /\ task[c] = idle
  /\ task' = [task EXCEPT ![c] = IF Resolve(n, t) THEN call(n, t, origin) ELSE done]
  /\ dropExpired(n, t)
  /\ UNCHANGED <<found, sessions>>

\* A client calls Connect at node n, as node `origin', with a token; it is DENIED
\* unless the token resolves and was issued for the caller.
Connect(c, n, t, origin) ==
  /\ task[c] = idle
  /\ task' = [task EXCEPT ![c] = IF Resolve(n, t) /\ tokens[t].origin = origin
                                   THEN call(n, t, origin) ELSE done]
  /\ dropExpired(n, t)
  /\ UNCHANGED <<found, sessions>>

Evict(c) ==
  /\ task[c].pc = "evict"
  /\ setState(task[c].token, "gone")
  /\ task' = [task EXCEPT ![c].pc = "decide"]
  /\ UNCHANGED <<found, sessions>>

HasActiveToken(n, origin) ==
  \E t \in DOMAIN tokens : tokens[t].node = n /\ tokens[t].origin = origin /\ tokens[t].state = "active"

\* Resolver.Resolve: is the status ACCEPTED
accepts(n, origin) ==
  CASE AutoAccept[n] = "AUTO_ALL" -> TRUE
    [] AutoAccept[n] = "AUTO_WHITELIST" -> origin \in TrustedNodes[n]
    [] AutoAccept[n] = "AUTO_MUTUAL" -> HasActiveToken(n, origin)
    [] AutoAccept[n] = "MANUAL" -> FALSE

Decide(c) ==
  LET k == task[c]
  IN  /\ k.pc = "decide"
      /\ sessions' = IF accepts(k.node, k.origin)
                       THEN sessions \cup {[token |-> k.token, node |-> k.node, origin |-> k.origin]}
                       ELSE sessions
      /\ task' = [task EXCEPT ![c] = done]
      /\ UNCHANGED <<found, tokens>>

Step(d) == Enter(d) \/ Call(d) \/ Collect(d) \/ Local(d)

Next ==
  \/ \E d \in Requests, n \in Nodes : Discover(d, n)
  \/ \E d \in Requests : Step(d) \/ Age(d) \/ \E n \in Nodes : Forget(n, d)
  \/ \E t \in DOMAIN tokens : Expire(t)
  \/ \E n \in Nodes : Purge(n)
  \/ \E c \in Connects, n \in Nodes, t \in DOMAIN tokens, origin \in Callers : Connect(c, n, t, origin)
  \/ \E c \in Connects : Evict(c) \/ Decide(c)

Spec == Init /\ [][Next]_vars

\* Handlers run, and each call of a peer ends; so does the loop that purges tokens.
FairSpec == Spec /\ \A d \in Requests : WF_vars(Step(d)) /\ \A n \in Nodes : WF_vars(Purge(n))
-----------------------------------------------------------------------------
\* The apps whose discoveries the policy of a node may let in
admits(n, app) ==
  \/ AppIsolation[n] = "OPEN"
  \/ AppIsolation[n] = "WHITELIST" /\ app \in AllowedApps[n]
  \/ AppIsolation[n] = "SAME_APP_ONLY" /\ app \in nodeAppID(n)

\* A node that does not admit the app of a request neither answers it nor passes
\* it on, on whichever path the request comes, and the token that the client gets
\* was issued for it by a node that admits it.
IsolationAlongTheWay ==
  \A d \in Requests :
    /\ \A i \in DOMAIN stack[d] : stack[d][i].pc # "enter" => admits(stack[d][i].node, Req[d].app)
    /\ answer[d] # 0 => /\ admits(tokens[answer[d]].node, Req[d].app)
                        /\ tokens[answer[d]].origin = Req[d].origin

\* The hop limit bounds how far a request goes, also around a cycle of nodes and
\* after a dedup window has ended.
HopLimitBoundsDepth == \A d \in Requests : Len(stack[d]) <= Req[d].hops + 1

\* A session goes back to a discovery: the node issued its token to the node that
\* connects, and the connect policy of the node admits that one.
SessionFollowsDiscovery ==
  \A s \in sessions :
    /\ tokens[s.token].node = s.node /\ tokens[s.token].origin = s.origin
    /\ tokens[s.token].state = "gone"
    /\ AutoAccept[s.node] # "MANUAL"
    /\ AutoAccept[s.node] = "AUTO_WHITELIST" => s.origin \in TrustedNodes[s.node]

\* Every discovery ends, though nodes call each other in cycles while they wait.
EveryDiscoveryEnds == \A d \in Requests : stack[d] # <<>> ~> stack[d] = <<>>

\* An expired token does not stay in the store of its node.
ExpiredTokensGo ==
  \A t \in Tokens : (t \in DOMAIN tokens /\ tokens[t].state = "expired")
                      ~> (t \in DOMAIN tokens /\ tokens[t].state = "gone")
-----------------------------------------------------------------------------
\* A request that is older than 30 s when it comes to a node is rejected there: the
\* node issues no token for it.  BroadcastDiscovery takes the nil that Broadcast
\* returns for "no peer answered" and looks among its own users.
StaleIsRejected == \A t \in DOMAIN tokens : ~tokens[t].stale
=============================================================================

--------------------------- MODULE DiscoveryProofs ---------------------------
(***************************************************************************)
(* Proofs about federated discovery, for any network of nodes, cycles      *)
(* included, any number of requests and of calls of Connect, and any       *)
(* isolation and connect policies.  The inductive invariant describes the  *)
(* stack of handlers of every request, one hop less in each, and the       *)
(* tokens each of them holds; and for Connect, that a token is out of the  *)
(* store before it is decided on.                                          *)
(***************************************************************************)
EXTENDS Discovery, TLAPS

Frames == [node: Nodes, hops: Nat, pc: {"enter", "fan", "call", "local"}, todo: SUBSET Nodes, got: Nat, stale: BOOLEAN]

TokenRecords == [node: Nodes, app: UNION {WithUsers[n] : n \in Nodes}, origin: Origins, stale: BOOLEAN,
                 state: {"active", "expired", "gone"}]

\* The states of the token stores: every token is for an app with users
TokenStores == {T \in Seq(TokenRecords) : Len(T) <= MaxTokens /\ \A t \in 1..Len(T) : T[t].app \in WithUsers[T[t].node]}

\* A token that a handler may pass on for request d: it is for the node that asked,
\* and from a node that admits the app
GoodToken(d, t, T) ==
  t = 0 \/ (t \in 1..Len(T) /\ admits(T[t].node, Req[d].app) /\ T[t].origin = Req[d].origin)

\* A frame at place i of the stack of d: each handler has one hop less than the one
\* that called it, and calls a peer only with a hop left
GoodFrame(d, f, i, T) ==
  /\ f \in Frames /\ f.todo \subseteq Peers[f.node]
  /\ f.hops + i = Req[d].hops + 1
  /\ f.pc \in {"fan", "call"} => f.hops > 0
  /\ f.pc # "enter" => admits(f.node, Req[d].app)
  /\ f.stale => f.pc = "local"
  /\ GoodToken(d, f.got, T)

GoodStack(d, s, T) ==
  /\ s \in Seq(Frames)
  /\ \A i \in 1..Len(s) : GoodFrame(d, s[i], i, T) /\ (s[i].pc = "call" <=> i < Len(s))

CallRecords == [pc: {"evict", "decide"}, node: Nodes, token: Nat, origin: Callers]

\* A call of Connect that goes on holds a token of the node it came to, issued for
\* the node that calls, and has taken it out of the store before it decides.
GoodCall(k, T) ==
  \/ k = idle \/ k = done
  \/ /\ k \in CallRecords /\ k.token \in 1..Len(T)
     /\ T[k.token].node = k.node /\ T[k.token].origin = k.origin
     /\ k.pc = "decide" => T[k.token].state = "gone"

GoodSession(s, T) ==
  /\ s \in [token: Nat, node: Nodes, origin: Callers] /\ s.token \in 1..Len(T)
  /\ T[s.token].node = s.node /\ T[s.token].origin = s.origin /\ T[s.token].state = "gone"
  /\ AutoAccept[s.node] # "MANUAL"
  /\ AutoAccept[s.node] = "AUTO_WHITELIST" => s.origin \in TrustedNodes[s.node]

FoundInv ==
  /\ asked \subseteq Requests
  /\ stack \in [Requests -> Seq(Frames)]
  /\ answer \in [Requests -> Nat]
  /\ age \in [Requests -> 0..2]
  /\ seen \in [Nodes -> SUBSET Requests]
  /\ \A d \in Requests : GoodStack(d, stack[d], tokens) /\ GoodToken(d, answer[d], tokens)

JoinedInv ==
  /\ task \in [Connects -> CallRecords \cup {idle, done}]
  /\ \A c \in Connects : GoodCall(task[c], tokens)
  /\ \A s \in sessions : GoodSession(s, tokens)

DiscoveryInv == tokens \in TokenStores /\ FoundInv /\ JoinedInv

\* What the token stores may become: tokens are added, and what a token says stays;
\* one that is gone does not come back.
Follows(T, U) ==
  /\ U \in TokenStores /\ Len(T) <= Len(U)
  /\ \A t \in 1..Len(T) : /\ U[t].node = T[t].node /\ U[t].origin = T[t].origin
                          /\ T[t].state = "gone" => U[t].state = "gone"
-----------------------------------------------------------------------------
\* A stack is cut at one of its frames, which goes on in its place.
LEMMA CutStack ==
  ASSUME NEW d, NEW s, NEW T, GoodStack(d, s, T), NEW k \in 1..Len(s), NEW f, GoodFrame(d, f, k, T), f.pc # "call"
  PROVE  GoodStack(d, Append(SubSeq(s, 1, k - 1), f), T)
<1> DEFINE r == Append(SubSeq(s, 1, k - 1), f)
<1>1. s \in Seq(Frames) /\ f \in Frames
  BY DEF GoodStack, GoodFrame
<1>2. r \in Seq(Frames) /\ Len(r) = k /\ r[k] = f /\ \A i \in 1..(k - 1) : r[i] = s[i]
  BY <1>1
<1> HIDE DEF r
<1>3. ASSUME NEW i \in 1..Len(r) PROVE GoodFrame(d, r[i], i, T) /\ (r[i].pc = "call" <=> i < Len(r))
  <2>1. CASE i = k
    BY <1>2, <2>1
  <2>2. CASE i # k
    <3>1. i \in 1..(k - 1) /\ i \in 1..Len(s) /\ i < Len(s) /\ i < Len(r)
      BY <1>1, <1>2, <2>2
    <3> QED
      BY <1>2, <3>1 DEF GoodStack
  <2> QED
    BY <2>1, <2>2
<1> QED
  BY <1>2, <1>3 DEF GoodStack, r

\* A sequence with two more elements
LEMMA JoinTwo ==
  ASSUME NEW S, NEW p \in Seq(S), NEW f \in S, NEW g \in S
  PROVE  /\ p \o <<f, g>> \in Seq(S) /\ Len(p \o <<f, g>>) = Len(p) + 2
         /\ \A i \in 1..Len(p) : (p \o <<f, g>>)[i] = p[i]
         /\ (p \o <<f, g>>)[Len(p) + 1] = f /\ (p \o <<f, g>>)[Len(p) + 2] = g
OBVIOUS

\* A handler waits for the peer it calls.
LEMMA PushFrame ==
  ASSUME NEW d, NEW s, NEW T, GoodStack(d, s, T), NEW n, n = Len(s), n > 0,
         NEW f, GoodFrame(d, f, n, T), f.pc = "call", NEW g, GoodFrame(d, g, n + 1, T), g.pc # "call"
  PROVE  GoodStack(d, SubSeq(s, 1, n - 1) \o <<f, g>>, T)
<1> DEFINE r == SubSeq(s, 1, n - 1) \o <<f, g>>
<1>1. s \in Seq(Frames) /\ f \in Frames /\ g \in Frames
  BY DEF GoodStack, GoodFrame
<1>2. /\ r \in Seq(Frames) /\ Len(r) = n + 1 /\ r[n] = f /\ r[n + 1] = g
      /\ \A i \in 1..(n - 1) : r[i] = s[i]
  <2>1. SubSeq(s, 1, n - 1) \in Seq(Frames)
    BY <1>1
  <2>2. PICK p \in Seq(Frames) : p = SubSeq(s, 1, n - 1)
    BY <2>1, Zenon
  <2>3. n \in Nat /\ Len(p) = n - 1 /\ \A i \in 1..(n - 1) : p[i] = s[i]
    BY <1>1, <2>2
  <2>4. /\ p \o <<f, g>> \in Seq(Frames) /\ Len(p \o <<f, g>>) = Len(p) + 2
        /\ \A i \in 1..Len(p) : (p \o <<f, g>>)[i] = p[i]
        /\ (p \o <<f, g>>)[Len(p) + 1] = f /\ (p \o <<f, g>>)[Len(p) + 2] = g
    BY <1>1, JoinTwo
  <2>5. Len(p) + 1 = n /\ Len(p) + 2 = n + 1
    BY <2>3
  <2>6. r = p \o <<f, g>>
    BY <2>2
  <2> HIDE DEF r
  <2> QED
    BY <2>3, <2>4, <2>5, <2>6, Zenon
<1> HIDE DEF r
<1>3. ASSUME NEW i \in 1..Len(r) PROVE GoodFrame(d, r[i], i, T) /\ (r[i].pc = "call" <=> i < Len(r))
  <2>1. CASE i = n + 1
    BY <1>2, <2>1
  <2>2. CASE i = n
    BY <1>1, <1>2, <2>2
  <2>3. CASE i # n /\ i # n + 1
    <3>1. i \in 1..(n - 1) /\ i \in 1..Len(s) /\ i < Len(s) /\ i < Len(r)
      BY <1>1, <1>2, <2>3
    <3> QED
      BY <1>2, <3>1 DEF GoodStack
  <2> QED
    BY <2>1, <2>2, <2>3
<1> QED
  BY <1>2, <1>3 DEF GoodStack, r

\* What the token stores become takes nothing from a stack, an answer, a call or a session.
LEMMA FollowsKeeps ==
  ASSUME NEW T \in TokenStores, NEW U, Follows(T, U)
  PROVE  /\ \A d, t : GoodToken(d, t, T) => GoodToken(d, t, U)
         /\ \A d, s : GoodStack(d, s, T) => GoodStack(d, s, U)
         /\ \A k : GoodCall(k, T) => GoodCall(k, U)
         /\ \A s : GoodSession(s, T) => GoodSession(s, U)
<1>1. Len(T) \in Nat /\ Len(U) \in Nat /\ \A t \in 1..Len(T) : t \in 1..Len(U)
  BY DEF Follows, TokenStores
<1>2. \A d, t : GoodToken(d, t, T) => GoodToken(d, t, U)
  BY <1>1 DEF Follows, GoodToken
<1>3. \A d, f, i : GoodFrame(d, f, i, T) => GoodFrame(d, f, i, U)
  BY <1>2, Zenon DEF GoodFrame
<1>4. \A d, s : GoodStack(d, s, T) => GoodStack(d, s, U)
  BY <1>3, Zenon DEF GoodStack
<1>5. \A k : GoodCall(k, T) => GoodCall(k, U)
  BY <1>1 DEF Follows, GoodCall
<1>6. \A s : GoodSession(s, T) => GoodSession(s, U)
  BY <1>1 DEF Follows, GoodSession
<1> QED
  BY <1>2, <1>4, <1>5, <1>6

\* The fields of a frame
LEMMA FrameFields ==
  ASSUME NEW f \in Frames
  PROVE  f.node \in Nodes /\ f.hops \in Nat /\ f.pc \in {"enter", "fan", "call", "local"}
         /\ f.todo \in SUBSET Nodes /\ f.got \in Nat /\ f.stale \in BOOLEAN
BY DEF Frames

\* The frame that runs
LEMMA TopFrame ==
  ASSUME FoundInv, NEW d \in Requests, stack[d] # <<>>
  PROVE  /\ stack[d] \in Seq(Frames) /\ depth(d) = Len(stack[d]) /\ depth(d) \in 1..Len(stack[d])
         /\ top(d) = stack[d][depth(d)] /\ top(d) \in Frames /\ top(d).pc # "call"
         /\ GoodStack(d, stack[d], tokens) /\ GoodFrame(d, top(d), depth(d), tokens)
<1>1. GoodStack(d, stack[d], tokens) /\ depth(d) = Len(stack[d]) /\ top(d) = stack[d][depth(d)]
  BY DEF FoundInv, depth, top
<1>2. stack[d] \in Seq(Frames)
  BY <1>1 DEF GoodStack
<1>3. depth(d) \in 1..Len(stack[d]) /\ top(d) \in Frames
  BY <1>1, <1>2
<1>4. GoodFrame(d, top(d), depth(d), tokens) /\ top(d).pc # "call"
  BY <1>1, <1>3 DEF GoodStack
<1> QED
  BY <1>1, <1>2, <1>3, <1>4

\* A step of the handlers of one request leaves those of the others alone.
LEMMA FoundKeeps ==
  ASSUME FoundInv, tokens \in TokenStores, Follows(tokens, tokens'), NEW d \in Requests,
         NEW s, GoodStack(d, s, tokens'), stack' = [stack EXCEPT ![d] = s],
         answer' = answer \/ \E t \in Nat : GoodToken(d, t, tokens') /\ answer' = [answer EXCEPT ![d] = t],
         asked' \subseteq Requests, age' = age, seen' \in [Nodes -> SUBSET Requests]
  PROVE  FoundInv'
<1>1. stack \in [Requests -> Seq(Frames)] /\ answer \in [Requests -> Nat] /\ s \in Seq(Frames)
  BY DEF FoundInv, GoodStack
<1>2. stack' \in [Requests -> Seq(Frames)] /\ answer' \in [Requests -> Nat]
  BY <1>1
<1>3. ASSUME NEW e \in Requests PROVE GoodStack(e, stack'[e], tokens')
  <2>1. GoodStack(e, stack[e], tokens')
    BY FollowsKeeps DEF FoundInv
  <2>2. stack'[e] = IF e = d THEN s ELSE stack[e]
    BY <1>1
  <2> QED
    BY <2>1, <2>2
<1>4. ASSUME NEW e \in Requests PROVE GoodToken(e, answer'[e], tokens')
  <2>1. GoodToken(e, answer[e], tokens')
    BY FollowsKeeps DEF FoundInv
  <2>2. answer'[e] = answer[e] \/ (e = d /\ GoodToken(d, answer'[e], tokens'))
    BY <1>1
  <2> QED
    BY <2>1, <2>2
<1>5. (\A e \in Requests : GoodStack(e, stack[e], tokens) /\ GoodToken(e, answer[e], tokens))'
  BY <1>3, <1>4
<1> QED
  BY <1>2, <1>5 DEF FoundInv

\* A handler returns to the one that called it, which goes on, or to the client.
LEMMA ReturnGives ==
  ASSUME FoundInv, tokens \in TokenStores, Follows(tokens, tokens'), NEW d \in Requests, stack[d] # <<>>,
         NEW t \in Nat, GoodToken(d, t, tokens'), return(d, t)
  PROVE  \E s : /\ GoodStack(d, s, tokens') /\ stack' = [stack EXCEPT ![d] = s]
                /\ answer' = answer \/ \E u \in Nat : GoodToken(d, u, tokens') /\ answer' = [answer EXCEPT ![d] = u]
<1>1. PICK n \in Nat : n = depth(d)
  BY TopFrame
<1> DEFINE caller == stack[d][n - 1]
<1>2. n = Len(stack[d]) /\ n \in Nat /\ n >= 1
  BY <1>1, TopFrame
<1>3. GoodStack(d, stack[d], tokens')
  BY TopFrame, FollowsKeeps
<1>4. CASE n = 1
  <2>1. GoodStack(d, <<>>, tokens')
    BY DEF GoodStack
  <2>2. stack' = [stack EXCEPT ![d] = <<>>] /\ (answer' = answer \/ answer' = [answer EXCEPT ![d] = t])
    BY <1>1, <1>4 DEF return
  <2> QED
    BY <2>1, <2>2, Zenon
<1>5. CASE n # 1
  <2>1. n - 1 \in 1..Len(stack[d]) /\ n - 1 < Len(stack[d]) /\ (n - 1) - 1 = n - 2
    <3>1. \A m \in Nat : m # 1 /\ m >= 1 => m - 1 \in 1..m /\ m - 1 < m /\ (m - 1) - 1 = m - 2
      OBVIOUS
    <3> QED
      BY <1>2, <1>5, <3>1, Zenon
  <2>2. PICK got \in {0, t} :
          stack' = [stack EXCEPT ![d] =
                     Append(SubSeq(stack[d], 1, n - 2),
                            [caller EXCEPT !.pc = "fan", !.got = IF caller.got = 0 THEN got ELSE caller.got])]
    BY <1>1, <1>5 DEF return
  <2>3. answer' = answer
    BY <1>1, <1>5 DEF return
  <2>4. GoodFrame(d, caller, n - 1, tokens') /\ caller.pc = "call"
    BY <1>3, <2>1 DEF GoodStack
  <2> HIDE DEF caller
  <2>5. PICK u : u = IF caller.got = 0 THEN got ELSE caller.got
    OBVIOUS
  <2>6. u \in Nat /\ GoodToken(d, u, tokens')
    BY <2>4, <2>5 DEF GoodFrame, GoodToken, Frames
  <2>7. PICK g : g = [caller EXCEPT !.pc = "fan", !.got = u]
    OBVIOUS
  <2>8. GoodFrame(d, g, n - 1, tokens') /\ g.pc # "call"
    <3>1. caller \in Frames
      BY <2>4 DEF GoodFrame
    <3>2. /\ g \in Frames /\ g.node = caller.node /\ g.hops = caller.hops /\ g.pc = "fan" /\ g.todo = caller.todo
          /\ g.got = u /\ g.stale = caller.stale
      BY <2>6, <2>7, <3>1, Zenon DEF Frames
    <3>3. ~g.stale
      BY <2>4, <3>2, Zenon DEF GoodFrame
    <3>4. /\ g.todo \subseteq Peers[g.node] /\ g.hops + (n - 1) = Req[d].hops + 1 /\ g.hops > 0
          /\ admits(g.node, Req[d].app)
      BY <2>4, <3>2 DEF GoodFrame
    <3> QED
      BY <2>6, <3>2, <3>3, <3>4, Zenon DEF GoodFrame
  <2>9. GoodStack(d, Append(SubSeq(stack[d], 1, (n - 1) - 1), g), tokens')
    BY <1>3, <2>1, <2>8, CutStack
  <2>10. stack' = [stack EXCEPT ![d] = Append(SubSeq(stack[d], 1, (n - 1) - 1), g)]
    BY <2>2, <2>1, <2>5, <2>7, Zenon
  <2> QED
    BY <2>3, <2>9, <2>10, Zenon
<1> QED
  BY <1>4, <1>5

\* The handler that runs goes on.
LEMMA BecomeGives ==
  ASSUME FoundInv, NEW d \in Requests, stack[d] # <<>>,
         NEW f, GoodFrame(d, f, depth(d), tokens), f.pc # "call", become(d, f)
  PROVE  \E s : GoodStack(d, s, tokens) /\ stack' = [stack EXCEPT ![d] = s]
<1>1. depth(d) \in 1..Len(stack[d]) /\ GoodStack(d, stack[d], tokens)
  BY TopFrame
<1>2. GoodStack(d, Append(SubSeq(stack[d], 1, depth(d) - 1), f), tokens)
  BY <1>1, CutStack
<1> QED
  BY <1>2, Zenon DEF become, below

\* The token stores may stay as they are.
LEMMA FollowsSame == ASSUME NEW T \in TokenStores PROVE Follows(T, T)
BY DEF Follows, TokenStores

\* What the isolation policy lets in is of an app that the node admits.
LEMMA Admitted ==
  ASSUME NEW n \in Nodes, NEW app, NEW mine \in nodeAppID(n), EvaluateDiscovery(n, app, mine)
  PROVE  admits(n, app)
BY ModesAssumption, Zenon DEF EvaluateDiscovery, admits

\* Handlers do not touch calls of Connect.
LEMMA JoinedKept ==
  ASSUME DiscoveryInv, Follows(tokens, tokens'), FoundInv', UNCHANGED joined
  PROVE  DiscoveryInv'
<1>1. tokens' \in TokenStores
  BY DEF Follows
<1>2. task' = task /\ sessions' = sessions /\ tokens \in TokenStores /\ JoinedInv
  BY DEF joined, DiscoveryInv
<1>3. \A c \in Connects : GoodCall(task[c], tokens')
  BY <1>2, FollowsKeeps DEF JoinedInv
<1>4. \A s \in sessions : GoodSession(s, tokens')
  BY <1>2, FollowsKeeps DEF JoinedInv
<1>5. JoinedInv'
  BY <1>2, <1>3, <1>4 DEF JoinedInv
<1> QED
  BY <1>1, <1>5 DEF DiscoveryInv

\* A step of the handlers of d that issues no token
LEMMA HandlerStep ==
  ASSUME DiscoveryInv, NEW d \in Requests, UNCHANGED <<age, tokens, joined>>,
         \E s : GoodStack(d, s, tokens) /\ stack' = [stack EXCEPT ![d] = s],
         answer' = answer \/ \E t \in Nat : GoodToken(d, t, tokens) /\ answer' = [answer EXCEPT ![d] = t],
         asked' \subseteq Requests, seen' \in [Nodes -> SUBSET Requests]
  PROVE  DiscoveryInv'
<1>1. tokens \in TokenStores /\ FoundInv /\ tokens' = tokens
  BY DEF DiscoveryInv
<1>2. Follows(tokens, tokens')
  BY <1>1, FollowsSame
<1>3. PICK s : GoodStack(d, s, tokens) /\ stack' = [stack EXCEPT ![d] = s]
  BY Zenon
<1>4. /\ GoodStack(d, s, tokens')
      /\ answer' = answer \/ \E t \in Nat : GoodToken(d, t, tokens') /\ answer' = [answer EXCEPT ![d] = t]
  BY <1>1, <1>3
<1>5. FoundInv'
  BY <1>1, <1>2, <1>3, <1>4, FoundKeeps, Zenon
<1> QED
  BY <1>2, <1>5, JoinedKept

\* A request that comes in at its first node starts a stack of one handler.
LEMMA DiscoverKeeps ==
  ASSUME DiscoveryInv, NEW d \in Requests, NEW n \in Nodes, Discover(d, n)
  PROVE  DiscoveryInv'
<1> DEFINE f == frame(n, Req[d].hops)
<1>1. f \in Frames /\ f.hops = Req[d].hops /\ f.pc = "enter" /\ f.todo = {} /\ f.got = 0 /\ ~f.stale
  BY ReqAssumption DEF frame, Frames
<1>2. stack' = [stack EXCEPT ![d] = <<f>>] /\ asked' = asked \cup {d} /\ UNCHANGED <<answer, age, seen, tokens, joined>>
  BY DEF Discover
<1> HIDE DEF f
<1>3. GoodFrame(d, f, 1, tokens)
  BY <1>1 DEF GoodFrame, GoodToken
<1>4. GoodStack(d, <<f>>, tokens)
  BY <1>1, <1>3 DEF GoodStack
<1>5. asked' \subseteq Requests /\ seen' \in [Nodes -> SUBSET Requests]
  BY <1>2 DEF DiscoveryInv, FoundInv
<1> QED
  BY <1>2, <1>4, <1>5, HandlerStep, Zenon

\* A handler returns what it may pass on.
LEMMA ReturnKeeps ==
  ASSUME DiscoveryInv, NEW d \in Requests, stack[d] # <<>>, NEW t \in Nat, GoodToken(d, t, tokens), return(d, t),
         UNCHANGED <<asked, age, seen, tokens, joined>>
  PROVE  DiscoveryInv'
<1>1. FoundInv /\ tokens \in TokenStores /\ tokens' = tokens
  BY DEF DiscoveryInv
<1>2. GoodToken(d, t, tokens') /\ Follows(tokens, tokens')
  BY <1>1, FollowsSame
<1>3. \E s : /\ GoodStack(d, s, tokens') /\ stack' = [stack EXCEPT ![d] = s]
             /\ answer' = answer \/ \E u \in Nat : GoodToken(d, u, tokens') /\ answer' = [answer EXCEPT ![d] = u]
  BY <1>1, <1>2, ReturnGives
<1>4. asked' \subseteq Requests /\ seen' \in [Nodes -> SUBSET Requests]
  BY <1>1 DEF FoundInv
<1> QED
  BY <1>1, <1>3, <1>4, HandlerStep, Zenon

\* A request that a node lets in is of an app it admits, and is passed on only with a hop left.
LEMMA EnterKeeps ==
  ASSUME DiscoveryInv, NEW d \in Requests, Enter(d)
  PROVE  DiscoveryInv'
<1> DEFINE f == top(d)
           n == top(d).node
<1>1. FoundInv /\ stack[d] # <<>> /\ f.pc = "enter" /\ UNCHANGED <<age, tokens, joined>> /\ asked' = asked
  BY DEF DiscoveryInv, Enter, running
<1>2. f \in Frames /\ GoodFrame(d, f, depth(d), tokens)
  BY <1>1, TopFrame
<1>3. n \in Nodes /\ f.hops \in Nat /\ ~f.stale /\ Peers[n] \in SUBSET Nodes
  <2>1. n \in Nodes /\ f.hops \in Nat
    BY <1>2, FrameFields
  <2>2. ~f.stale
    BY <1>1, <1>2 DEF GoodFrame
  <2> QED
    BY <2>1, <2>2, NodesAssumption
<1>4. asked' \subseteq Requests /\ seen \in [Nodes -> SUBSET Requests]
  BY <1>1 DEF FoundInv
<1>5. CASE return(d, 0) /\ UNCHANGED seen
  <2>1. GoodToken(d, 0, tokens) /\ UNCHANGED <<asked, age, seen, tokens, joined>>
    BY <1>1, <1>5 DEF GoodToken
  <2> QED
    BY <1>1, <1>5, <2>1, ReturnKeeps
<1>6. ASSUME NEW mine \in nodeAppID(n), EvaluateDiscovery(n, Req[d].app, mine), UNCHANGED answer,
             IF Peers[n] = {} \/ isStale(d) \/ d \in seen[n] \/ f.hops = 0
               THEN become(d, [f EXCEPT !.pc = "local", !.stale = isStale(d)])
               ELSE become(d, [f EXCEPT !.pc = "fan", !.todo = Peers[n]]),
             seen' = IF Peers[n] = {} \/ isStale(d) THEN seen ELSE [seen EXCEPT ![n] = @ \cup {d}]
      PROVE  DiscoveryInv'
  <2>1. admits(n, Req[d].app)
    BY <1>3, <1>6, Admitted
  <2>2. seen' \in [Nodes -> SUBSET Requests]
    BY <1>3, <1>4, <1>6
  <2>3. isStale(d) \in BOOLEAN
    BY ReqAssumption DEF isStale
  <2> HIDE DEF f
  <2>4. \E g : GoodFrame(d, g, depth(d), tokens) /\ g.pc # "call" /\ become(d, g)
    <3>1. CASE Peers[n] = {} \/ isStale(d) \/ d \in seen[n] \/ f.hops = 0
      <4>1. PICK b \in BOOLEAN : b = isStale(d)
        BY <2>3
      <4>2. PICK g : g = [f EXCEPT !.pc = "local", !.stale = b]
        OBVIOUS
      <4>3. g \in Frames /\ g.node = f.node /\ g.hops = f.hops /\ g.pc = "local" /\ g.todo = f.todo /\ g.got = f.got
        BY <1>2, <4>2, Zenon DEF Frames
      <4>4. GoodFrame(d, g, depth(d), tokens)
        BY <1>2, <2>1, <4>3 DEF GoodFrame, f
      <4>5. become(d, g)
        BY <1>6, <3>1, <4>1, <4>2, Zenon
      <4> QED
        BY <4>3, <4>4, <4>5
    <3>2. CASE ~(Peers[n] = {} \/ isStale(d) \/ d \in seen[n] \/ f.hops = 0)
      <4>1. PICK g : g = [f EXCEPT !.pc = "fan", !.todo = Peers[n]]
        OBVIOUS
      <4>2. /\ g \in Frames /\ g.node = f.node /\ g.hops = f.hops /\ g.pc = "fan" /\ g.todo = Peers[n] /\ g.got = f.got
            /\ g.stale = f.stale
        BY <1>2, <1>3, <4>1, Zenon DEF Frames
      <4>3. ~g.stale
        BY <1>3, <4>2, Zenon
      <4>4. g.hops > 0
        BY <1>3, <3>2, <4>2
      <4>5. GoodFrame(d, g, depth(d), tokens)
        BY <1>2, <2>1, <4>2, <4>3, <4>4 DEF GoodFrame, f
      <4>6. become(d, g)
        BY <1>6, <3>2, <4>1, Zenon
      <4> QED
        BY <4>2, <4>5, <4>6
    <3> QED
      BY <3>1, <3>2
  <2>5. \E s : GoodStack(d, s, tokens) /\ stack' = [stack EXCEPT ![d] = s]
    BY <1>1, <2>4, BecomeGives
  <2> QED
    BY <1>1, <1>4, <1>6, <2>2, <2>5, HandlerStep, Zenon
<1> QED
  BY <1>5, <1>6, Zenon DEF Enter

\* A peer is called with one hop less.
LEMMA CallKeeps ==
  ASSUME DiscoveryInv, NEW d \in Requests, Call(d)
  PROVE  DiscoveryInv'
<1> DEFINE f == top(d)
<1>1. /\ FoundInv /\ stack[d] # <<>> /\ f.pc = "fan" /\ UNCHANGED <<answer, age, tokens, joined>>
      /\ asked' = asked /\ seen' = seen
  BY DEF DiscoveryInv, Call, running
<1>2. /\ f \in Frames /\ GoodFrame(d, f, depth(d), tokens) /\ GoodStack(d, stack[d], tokens)
      /\ depth(d) = Len(stack[d]) /\ depth(d) \in Nat /\ depth(d) > 0
  BY <1>1, TopFrame
<1>3. asked' \subseteq Requests /\ seen' \in [Nodes -> SUBSET Requests]
  BY <1>1 DEF FoundInv
<1>4. PICK p \in f.todo :
        \/ become(d, [f EXCEPT !.todo = @ \ {p}])
        \/ stack' = [stack EXCEPT ![d] = below(d) \o <<[[f EXCEPT !.todo = @ \ {p}] EXCEPT !.pc = "call"],
                                                       frame(p, f.hops - 1)>>]
  BY Zenon DEF Call
<1>5. p \in Nodes /\ f.hops \in Nat /\ f.hops > 0 /\ f.todo \in SUBSET Nodes /\ f.todo \subseteq Peers[f.node]
      /\ f.hops + depth(d) = Req[d].hops + 1 /\ admits(f.node, Req[d].app) /\ GoodToken(d, f.got, tokens)
  <2>1. f.hops \in Nat /\ f.todo \in SUBSET Nodes
    BY <1>2, FrameFields
  <2> QED
    BY <1>1, <1>2, <2>1 DEF GoodFrame
<1>6. ~f.stale
  BY <1>1, <1>2 DEF GoodFrame
<1> HIDE DEF f
<1>7. ASSUME NEW pc \in {"fan", "call"}, NEW g, g = [[f EXCEPT !.todo = @ \ {p}] EXCEPT !.pc = pc]
      PROVE  GoodFrame(d, g, depth(d), tokens) /\ g.pc = pc
  <2>1. /\ g \in Frames /\ g.node = f.node /\ g.hops = f.hops /\ g.pc = pc /\ g.todo = f.todo \ {p} /\ g.got = f.got
        /\ g.stale = f.stale
    BY <1>2, <1>5, <1>7, Zenon DEF Frames
  <2>2. ~g.stale
    BY <1>6, <2>1, Zenon
  <2> QED
    BY <1>5, <2>1, <2>2 DEF GoodFrame
<1>8. \E s : GoodStack(d, s, tokens) /\ stack' = [stack EXCEPT ![d] = s]
  <2>1. CASE become(d, [f EXCEPT !.todo = @ \ {p}])
    <3>1. [f EXCEPT !.todo = @ \ {p}] = [[f EXCEPT !.todo = @ \ {p}] EXCEPT !.pc = "fan"]
      BY <1>1, <1>2, Zenon DEF Frames, f
    <3> QED
      BY <1>1, <1>7, <2>1, <3>1, BecomeGives
  <2>2. CASE stack' = [stack EXCEPT ![d] = below(d) \o <<[[f EXCEPT !.todo = @ \ {p}] EXCEPT !.pc = "call"],
                                                         frame(p, f.hops - 1)>>]
    <3>1. PICK g : g = [[f EXCEPT !.todo = @ \ {p}] EXCEPT !.pc = "call"]
      OBVIOUS
    <3>2. PICK h : h = frame(p, f.hops - 1)
      OBVIOUS
    <3>3. GoodFrame(d, g, depth(d), tokens) /\ g.pc = "call"
      BY <1>7, <3>1
    <3>4. h \in Frames /\ h.hops = f.hops - 1 /\ h.pc = "enter" /\ h.todo = {} /\ h.got = 0 /\ ~h.stale
      BY <1>5, <3>2 DEF frame, Frames
    <3>5. h.hops + (depth(d) + 1) = Req[d].hops + 1
      BY <1>2, <1>5, <3>4, ReqAssumption
    <3>6. GoodFrame(d, h, depth(d) + 1, tokens) /\ h.pc # "call"
      BY <3>4, <3>5 DEF GoodFrame, GoodToken
    <3>7. GoodStack(d, SubSeq(stack[d], 1, depth(d) - 1) \o <<g, h>>, tokens)
      BY <1>2, <3>3, <3>6, PushFrame
    <3> QED
      BY <2>2, <3>1, <3>2, <3>7, Zenon DEF below
  <2> QED
    BY <1>4, <2>1, <2>2 DEF f
<1> QED
  BY <1>1, <1>3, <1>8, HandlerStep, Zenon

\* The token of a peer is handed on; without one the node looks among its own users.
LEMMA CollectKeeps ==
  ASSUME DiscoveryInv, NEW d \in Requests, Collect(d)
  PROVE  DiscoveryInv'
<1> DEFINE f == top(d)
<1>1. FoundInv /\ stack[d] # <<>> /\ f.pc = "fan" /\ UNCHANGED <<asked, age, seen, tokens, joined>>
  BY DEF DiscoveryInv, Collect, running
<1>2. f \in Frames /\ GoodFrame(d, f, depth(d), tokens)
  BY <1>1, TopFrame
<1>3. f.got \in Nat /\ GoodToken(d, f.got, tokens) /\ admits(f.node, Req[d].app)
  BY <1>1, <1>2, FrameFields DEF GoodFrame
<1>4. CASE return(d, f.got)
  BY <1>1, <1>3, <1>4, ReturnKeeps
<1>5. CASE become(d, [f EXCEPT !.pc = "local"]) /\ UNCHANGED answer
  <2> HIDE DEF f
  <2>1. PICK g : g = [f EXCEPT !.pc = "local"]
    BY Zenon
  <2>2. g \in Frames /\ g.node = f.node /\ g.hops = f.hops /\ g.pc = "local" /\ g.todo = f.todo /\ g.got = f.got
    BY <1>2, <2>1 DEF Frames
  <2>3. GoodFrame(d, g, depth(d), tokens)
    BY <1>2, <1>3, <2>2 DEF GoodFrame
  <2>4. \E s : GoodStack(d, s, tokens) /\ stack' = [stack EXCEPT ![d] = s]
    BY <1>1, <1>5, <2>1, <2>2, <2>3, BecomeGives, Zenon
  <2>5. asked' \subseteq Requests /\ seen' \in [Nodes -> SUBSET Requests]
    BY <1>1 DEF FoundInv
  <2> QED
    BY <1>1, <1>5, <2>4, <2>5, HandlerStep, Zenon
<1> QED
  BY <1>4, <1>5 DEF Collect

\* A token is issued by a node that admits the app, to the node that asked.
LEMMA LocalKeeps ==
  ASSUME DiscoveryInv, NEW d \in Requests, Local(d)
  PROVE  DiscoveryInv'
<1> DEFINE n == top(d).node
<1>1. FoundInv /\ tokens \in TokenStores /\ stack[d] # <<>> /\ top(d).pc = "local" /\ UNCHANGED <<asked, age, seen, joined>>
  BY DEF DiscoveryInv, Local, running
<1>2. top(d) \in Frames /\ GoodFrame(d, top(d), depth(d), tokens)
  BY <1>1, TopFrame
<1>3. n \in Nodes /\ top(d).stale \in BOOLEAN /\ admits(n, Req[d].app)
  BY <1>1, <1>2, FrameFields DEF GoodFrame
<1>4. CASE return(d, 0) /\ UNCHANGED tokens
  <2>1. GoodToken(d, 0, tokens)
    BY DEF GoodToken
  <2> QED
    BY <1>1, <1>4, <2>1, ReturnKeeps
<1>5. ASSUME Len(tokens) < MaxTokens, NEW app \in WithUsers[n],
             tokens' = Append(tokens, [node |-> n, app |-> app, origin |-> Req[d].origin,
                                       stale |-> top(d).stale, state |-> "active"]),
             return(d, Len(tokens'))
      PROVE  DiscoveryInv'
  <2> DEFINE k == [node |-> n, app |-> app, origin |-> Req[d].origin, stale |-> top(d).stale, state |-> "active"]
  <2>1. k \in TokenRecords
    <3>1. Req[d].origin \in Origins /\ app \in UNION {WithUsers[m] : m \in Nodes}
      BY <1>3 DEF Origins
    <3>2. PICK b \in BOOLEAN : b = top(d).stale
      BY <1>3
    <3>3. k = [node |-> n, app |-> app, origin |-> Req[d].origin, stale |-> b, state |-> "active"]
      BY <3>2, Zenon
    <3>4. [node |-> n, app |-> app, origin |-> Req[d].origin, stale |-> b, state |-> "active"] \in TokenRecords
      BY <1>3, <3>1 DEF TokenRecords
    <3> QED
      BY <3>3, <3>4, Zenon
  <2>2. k.node = n /\ k.app = app /\ k.origin = Req[d].origin
    BY Zenon
  <2> HIDE DEF k
  <2>3. tokens \in Seq(TokenRecords) /\ tokens' = Append(tokens, k)
    BY <1>1, <1>5 DEF TokenStores, k
  <2>4. /\ tokens' \in Seq(TokenRecords) /\ Len(tokens') = Len(tokens) + 1 /\ Len(tokens) \in Nat
        /\ tokens'[Len(tokens')] = k /\ \A t \in 1..Len(tokens) : tokens'[t] = tokens[t]
    BY <2>1, <2>3
  <2>5. Follows(tokens, tokens')
    <3>1. \A t \in 1..Len(tokens') : t \in 1..Len(tokens) \/ t = Len(tokens')
      BY <2>4
    <3>2. \A t \in 1..Len(tokens') : tokens'[t].app \in WithUsers[tokens'[t].node]
      BY <1>1, <1>5, <2>2, <2>4, <3>1 DEF TokenStores
    <3>3. \A l, m \in Nat : l < m => l + 1 <= m
      OBVIOUS
    <3>4. Len(tokens') <= MaxTokens
      BY <1>5, <2>4, <3>3, BoundAssumption
    <3>5. tokens' \in TokenStores
      BY <2>4, <3>2, <3>4, Zenon DEF TokenStores
    <3> QED
      BY <2>4, <3>5 DEF Follows
  <2>6. PICK t \in Nat : t = Len(tokens')
    BY <2>4
  <2>7. GoodToken(d, t, tokens')
    BY <1>3, <2>2, <2>4, <2>6 DEF GoodToken
  <2>8. return(d, t)
    BY <1>5, <2>6
  <2>9. PICK s : /\ GoodStack(d, s, tokens') /\ stack' = [stack EXCEPT ![d] = s]
                 /\ answer' = answer \/ \E u \in Nat : GoodToken(d, u, tokens') /\ answer' = [answer EXCEPT ![d] = u]
    BY <1>1, <2>5, <2>7, <2>8, ReturnGives
  <2>10. asked' \subseteq Requests /\ age' = age /\ seen' \in [Nodes -> SUBSET Requests]
    BY <1>1 DEF FoundInv
  <2>11. FoundInv'
    BY <1>1, <2>5, <2>9, <2>10, FoundKeeps, Zenon
  <2> QED
    BY <1>1, <2>5, <2>11, JoinedKept
<1> QED
  BY <1>4, <1>5, Zenon DEF Local

\* Time goes by.
LEMMA ClockKeeps ==
  ASSUME DiscoveryInv, NEW d \in Requests, Age(d) \/ \E n \in Nodes : Forget(n, d)
  PROVE  DiscoveryInv'
<1>1. UNCHANGED <<asked, stack, answer, tokens, joined>> /\ FoundInv /\ tokens \in TokenStores
  BY DEF Age, Forget, DiscoveryInv
<1>2. age' \in [Requests -> 0..2]
  <2>1. age \in [Requests -> 0..2]
    BY <1>1 DEF FoundInv
  <2>2. \A a \in 0..2 : a < 2 => a + 1 \in 0..2
    OBVIOUS
  <2>3. age' = age \/ (age[d] < 2 /\ age' = [age EXCEPT ![d] = @ + 1])
    BY Zenon DEF Age, Forget
  <2> QED
    BY <2>1, <2>2, <2>3
<1>3. seen' \in [Nodes -> SUBSET Requests]
  BY Zenon DEF Age, Forget, DiscoveryInv, FoundInv
<1>4. FoundInv'
  BY <1>1, <1>2, <1>3 DEF FoundInv
<1>5. Follows(tokens, tokens')
  BY <1>1, FollowsSame
<1> QED
  BY <1>1, <1>4, <1>5, JoinedKept
-----------------------------------------------------------------------------
\* A change of a token's state that does not bring it back
LEMMA StateFollows ==
  ASSUME tokens \in TokenStores, NEW t \in DOMAIN tokens, NEW s \in {"active", "expired", "gone"}, setState(t, s),
         tokens[t].state = "gone" => s = "gone"
  PROVE  Follows(tokens, tokens') /\ tokens'[t].state = s
<1>1. tokens \in Seq(TokenRecords) /\ t \in 1..Len(tokens) /\ tokens[t] \in TokenRecords
  BY DEF TokenStores
<1> DEFINE k == [tokens[t] EXCEPT !.state = s]
<1>2. k \in TokenRecords /\ k.node = tokens[t].node /\ k.app = tokens[t].app /\ k.origin = tokens[t].origin /\ k.state = s
  BY <1>1 DEF TokenRecords
<1>3. tokens' = [tokens EXCEPT ![t] = k]
  BY DEF setState
<1> HIDE DEF k
<1>4. /\ tokens' \in Seq(TokenRecords) /\ Len(tokens') = Len(tokens) /\ tokens'[t] = k
      /\ \A u \in 1..Len(tokens) : u # t => tokens'[u] = tokens[u]
  BY <1>1, <1>2, <1>3
<1>5. tokens' \in TokenStores
  BY <1>2, <1>4 DEF TokenStores
<1> QED
  BY <1>1, <1>2, <1>4, <1>5 DEF Follows

\* The stacks and answers do not depend on the state of a token.
LEMMA FoundKept ==
  ASSUME DiscoveryInv, Follows(tokens, tokens'), UNCHANGED found
  PROVE  FoundInv'
<1>1. UNCHANGED <<asked, stack, answer, age, seen>> /\ FoundInv /\ tokens \in TokenStores
  BY DEF found, DiscoveryInv
<1>2. \A d \in Requests : GoodStack(d, stack[d], tokens') /\ GoodToken(d, answer[d], tokens')
  BY <1>1, FollowsKeeps DEF FoundInv
<1> QED
  BY <1>1, <1>2 DEF FoundInv

\* A token that expires or is purged was issued all the same: nothing that was said of it changes.
LEMMA ExpireKeeps ==
  ASSUME DiscoveryInv, (\E t \in DOMAIN tokens : Expire(t)) \/ \E n \in Nodes : Purge(n)
  PROVE  DiscoveryInv'
<1>1. tokens \in TokenStores /\ UNCHANGED <<found, joined>>
  BY DEF DiscoveryInv, Expire, Purge
<1>2. CASE \E t \in DOMAIN tokens : Expire(t)
  <2>1. Follows(tokens, tokens')
    BY <1>1, <1>2, StateFollows DEF Expire
  <2> QED
    BY <1>1, <2>1, FoundKept, JoinedKept
<1>3. CASE \E n \in Nodes : Purge(n)
  <2>1. PICK n \in Nodes :
          tokens' = [t \in DOMAIN tokens |-> IF tokens[t].node = n /\ tokens[t].state = "expired"
                                               THEN [tokens[t] EXCEPT !.state = "gone"] ELSE tokens[t]]
    BY <1>3 DEF Purge
  <2>2. tokens \in Seq(TokenRecords) /\ DOMAIN tokens = 1..Len(tokens) /\ Len(tokens) \in Nat
    BY <1>1 DEF TokenStores
  <2>3. ASSUME NEW t \in 1..Len(tokens)
        PROVE  /\ tokens'[t] \in TokenRecords /\ tokens'[t].node = tokens[t].node /\ tokens'[t].app = tokens[t].app
               /\ tokens'[t].origin = tokens[t].origin /\ (tokens[t].state = "gone" => tokens'[t].state = "gone")
    <3>1. tokens[t] \in TokenRecords
      BY <2>2
    <3>2. tokens'[t] = tokens[t] \/ tokens'[t] = [tokens[t] EXCEPT !.state = "gone"]
      BY <2>1, <2>2
    <3> QED
      BY <3>1, <3>2 DEF TokenRecords
  <2>4. DOMAIN tokens' = 1..Len(tokens)
    BY <2>1, <2>2
  <2>5. tokens' \in Seq(TokenRecords) /\ Len(tokens') = Len(tokens)
    BY <2>1, <2>2, <2>3, <2>4
  <2>6. tokens' \in TokenStores
    BY <1>1, <2>3, <2>5 DEF TokenStores
  <2>7. Follows(tokens, tokens')
    BY <2>2, <2>3, <2>5, <2>6 DEF Follows
  <2> QED
    BY <1>1, <2>7, FoundKept, JoinedKept
<1> QED
  BY <1>2, <1>3
-----------------------------------------------------------------------------
\* A call of Connect at its start: the token is resolved, and deleted if it has expired.
LEMMA ConnectKeeps ==
  ASSUME DiscoveryInv, NEW c \in Connects, NEW n \in Nodes, NEW t \in DOMAIN tokens, NEW origin \in Callers,
         Connect(c, n, t, origin)
  PROVE  DiscoveryInv'
<1>1. tokens \in TokenStores /\ JoinedInv /\ UNCHANGED <<found, sessions>> /\ t \in 1..Len(tokens)
  BY DEF DiscoveryInv, Connect, TokenStores
<1>2. Follows(tokens, tokens')
  BY <1>1, StateFollows, FollowsSame DEF Connect, dropExpired
<1>3. PICK k : /\ task' = [task EXCEPT ![c] = k]
               /\ k = done \/ (k = call(n, t, origin) /\ tokens[t].node = n /\ tokens[t].origin = origin)
  BY Zenon DEF Connect, Resolve
<1>4. k \in CallRecords \cup {idle, done} /\ GoodCall(k, tokens)
  BY <1>1, <1>3 DEF GoodCall, call, CallRecords
<1>5. GoodCall(k, tokens')
  BY <1>1, <1>2, <1>4, FollowsKeeps
<1>6. JoinedInv'
  BY <1>1, <1>2, <1>3, <1>4, <1>5, FollowsKeeps DEF JoinedInv
<1>7. FoundInv'
  BY <1>1, <1>2, FoundKept
<1> QED
  BY <1>2, <1>6, <1>7 DEF DiscoveryInv, Follows

\* The token is taken out of the store.
LEMMA EvictKeeps ==
  ASSUME DiscoveryInv, NEW c \in Connects, Evict(c)
  PROVE  DiscoveryInv'
<1>1. tokens \in TokenStores /\ JoinedInv /\ UNCHANGED <<found, sessions>> /\ task[c].pc = "evict"
  BY DEF DiscoveryInv, Evict
<1>2. task[c] \in CallRecords /\ task[c].token \in DOMAIN tokens /\ GoodCall(task[c], tokens)
  BY <1>1 DEF JoinedInv, GoodCall, idle, done, TokenStores
<1>3. PICK t \in DOMAIN tokens : t = task[c].token
  BY <1>2
<1>4. Follows(tokens, tokens') /\ tokens'[t].state = "gone"
  BY <1>1, <1>3, StateFollows DEF Evict
<1>5. PICK k : k = [task[c] EXCEPT !.pc = "decide"]
  BY Zenon
<1>6. k \in CallRecords /\ k.pc = "decide" /\ k.token = t /\ k.node = task[c].node /\ k.origin = task[c].origin
  BY <1>2, <1>3, <1>5 DEF CallRecords
<1>7. task' = [task EXCEPT ![c] = k]
  BY <1>5 DEF Evict
<1>8. GoodCall(task[c], tokens')
  BY <1>1, <1>2, <1>4, FollowsKeeps
<1>9. GoodCall(k, tokens')
  BY <1>1, <1>3, <1>4, <1>6, <1>8 DEF GoodCall, idle, done
<1>10. JoinedInv'
  BY <1>1, <1>4, <1>6, <1>7, <1>9, FollowsKeeps DEF JoinedInv
<1>11. FoundInv'
  BY <1>1, <1>4, FoundKept
<1> QED
  BY <1>4, <1>10, <1>11 DEF DiscoveryInv, Follows

\* The resolver accepts, or does not.
LEMMA DecideKeeps ==
  ASSUME DiscoveryInv, NEW c \in Connects, Decide(c)
  PROVE  DiscoveryInv'
<1>1. tokens \in TokenStores /\ JoinedInv /\ UNCHANGED <<found, tokens>> /\ task[c].pc = "decide"
  BY DEF DiscoveryInv, Decide
<1>2. task[c] \in CallRecords /\ GoodCall(task[c], tokens)
  BY <1>1 DEF JoinedInv, GoodCall, idle, done
<1>3. Follows(tokens, tokens')
  BY <1>1, FollowsSame
<1>4. FoundInv'
  BY <1>1, <1>3, FoundKept
<1>5. PICK k \in CallRecords : k = task[c]
  BY <1>2
<1>6. k.token \in 1..Len(tokens) /\ tokens[k.token].node = k.node /\ tokens[k.token].origin = k.origin /\ tokens[k.token].state = "gone"
  BY <1>1, <1>2, <1>5 DEF GoodCall, idle, done
<1>7. task' = [task EXCEPT ![c] = done]
  BY DEF Decide
<1>8. ASSUME accepts(k.node, k.origin)
      PROVE  GoodSession([token |-> k.token, node |-> k.node, origin |-> k.origin], tokens)
  <2>1. k.node \in Nodes /\ AutoAccept[k.node] \in {"MANUAL", "AUTO_WHITELIST", "AUTO_MUTUAL", "AUTO_ALL"}
    BY ModesAssumption DEF CallRecords
  <2>2. AutoAccept[k.node] # "MANUAL" /\ (AutoAccept[k.node] = "AUTO_WHITELIST" => k.origin \in TrustedNodes[k.node])
    BY <1>8, <2>1, Zenon DEF accepts
  <2> QED
    BY <1>6, <2>1, <2>2 DEF GoodSession, CallRecords
<1>9. \A s \in sessions' : GoodSession(s, tokens)
  BY <1>1, <1>5, <1>8 DEF Decide, JoinedInv
<1>10. JoinedInv'
  BY <1>1, <1>7, <1>9 DEF JoinedInv, GoodCall
<1> QED
  BY <1>1, <1>4, <1>10 DEF DiscoveryInv
-----------------------------------------------------------------------------
\* The invariant from which the properties of discovery follow: what every handler
\* that runs, every token and every call of Connect have behind them.
THEOREM DiscoveryInvariant == Spec => []DiscoveryInv
<1>1. Init => DiscoveryInv
  <2> SUFFICES ASSUME Init PROVE DiscoveryInv
    OBVIOUS
  <2>1. tokens \in TokenStores
    BY BoundAssumption DEF Init, TokenStores
  <2>2. FoundInv
    BY DEF Init, FoundInv, GoodStack, GoodToken
  <2>3. JoinedInv
    BY DEF Init, JoinedInv, GoodCall
  <2> QED
    BY <2>1, <2>2, <2>3 DEF DiscoveryInv
<1>2. DiscoveryInv /\ [Next]_vars => DiscoveryInv'
  <2> SUFFICES ASSUME DiscoveryInv, [Next]_vars PROVE DiscoveryInv'
    OBVIOUS
  <2>1. CASE UNCHANGED vars
    BY <2>1, FollowsSame, FoundKept, JoinedKept DEF vars, found, joined, DiscoveryInv
  <2>2. ASSUME NEW d \in Requests, NEW n \in Nodes, Discover(d, n) PROVE DiscoveryInv'
    BY <2>2, DiscoverKeeps
  <2>3. ASSUME NEW d \in Requests, Step(d) PROVE DiscoveryInv'
    BY <2>3, EnterKeeps, CallKeeps, CollectKeeps, LocalKeeps DEF Step
  <2>4. ASSUME NEW d \in Requests, Age(d) \/ \E n \in Nodes : Forget(n, d) PROVE DiscoveryInv'
    BY <2>4, ClockKeeps
  <2>5. ASSUME (\E t \in DOMAIN tokens : Expire(t)) \/ \E n \in Nodes : Purge(n) PROVE DiscoveryInv'
    BY <2>5, ExpireKeeps
  <2>6. ASSUME NEW c \in Connects, NEW n \in Nodes, NEW t \in DOMAIN tokens, NEW origin \in Callers,
               Connect(c, n, t, origin)
        PROVE  DiscoveryInv'
    BY <2>6, ConnectKeeps
  <2>7. ASSUME NEW c \in Connects, Evict(c) \/ Decide(c) PROVE DiscoveryInv'
    BY <2>7, EvictKeeps, DecideKeeps
  <2> QED
    BY <2>1, <2>2, <2>3, <2>4, <2>5, <2>6, <2>7, Zenon DEF Next
<1> QED
  BY <1>1, <1>2, PTL DEF Spec

\* The variables have their types at every node and every step: TypeOK.
THEOREM DiscoveryTypesKept == Spec => []TypeOK
<1>1. DiscoveryInv => TypeOK
  <2> SUFFICES ASSUME DiscoveryInv PROVE TypeOK
    OBVIOUS
  <2>1. tokens \in Seq(TokenRecords) /\ DOMAIN tokens = 1..Len(tokens) /\ Len(tokens) \in Nat /\ Len(tokens) <= MaxTokens
    <3>1. tokens \in TokenStores
      BY DEF DiscoveryInv
    <3>2. tokens \in Seq(TokenRecords) /\ Len(tokens) <= MaxTokens
      BY <3>1 DEF TokenStores
    <3> QED
      BY <3>2
  <2>2. ASSUME NEW t \in DOMAIN tokens
        PROVE  /\ tokens[t].app \in WithUsers[tokens[t].node] /\ tokens[t].origin \in Origins
               /\ tokens[t].state \in {"active", "expired", "gone"}
    <3>1. tokens[t] \in TokenRecords
      BY <2>1
    <3>2. tokens[t].origin \in Origins /\ tokens[t].state \in {"active", "expired", "gone"}
      BY <3>1 DEF TokenRecords
    <3>3. tokens[t].app \in WithUsers[tokens[t].node]
      BY <2>1 DEF DiscoveryInv, TokenStores
    <3> QED
      BY <3>2, <3>3
  <2>3. ASSUME NEW d \in Requests, NEW t, GoodToken(d, t, tokens) PROVE t \in 0..Len(tokens)
    BY <2>1, <2>3 DEF GoodToken
  <2>4. ASSUME NEW d \in Requests, NEW i \in DOMAIN stack[d]
        PROVE  /\ stack[d][i].pc \in {"enter", "fan", "call", "local"} /\ (stack[d][i].pc = "call" <=> i < Len(stack[d]))
               /\ stack[d][i].node \in Nodes /\ stack[d][i].todo \subseteq Peers[stack[d][i].node]
               /\ stack[d][i].hops \in Nat /\ stack[d][i].got \in 0..Len(tokens)
               /\ stack[d][i].stale => stack[d][i].pc = "local"
    <3>1. GoodStack(d, stack[d], tokens) /\ i \in 1..Len(stack[d])
      BY DEF DiscoveryInv, FoundInv
    <3>2. stack[d][i] \in Frames /\ GoodFrame(d, stack[d][i], i, tokens) /\ (stack[d][i].pc = "call" <=> i < Len(stack[d]))
      BY <3>1 DEF GoodStack, GoodFrame
    <3>3. stack[d][i].got \in 0..Len(tokens)
      BY <2>3, <3>2 DEF GoodFrame
    <3>4. stack[d][i].pc \in {"enter", "fan", "call", "local"} /\ stack[d][i].node \in Nodes /\ stack[d][i].hops \in Nat
      BY <3>2, FrameFields
    <3> QED
      BY <3>2, <3>3, <3>4, Zenon DEF GoodFrame
  <2>5. answer \in [Requests -> 0..Len(tokens)]
    BY <2>3 DEF DiscoveryInv, FoundInv
  <2>6. ASSUME NEW c \in Connects, task[c] \notin {idle, done}
        PROVE  task[c].pc \in {"evict", "decide"} /\ task[c].token \in DOMAIN tokens
    BY <2>1, <2>6 DEF DiscoveryInv, JoinedInv, GoodCall, CallRecords
  <2>7. sessions \subseteq [token: DOMAIN tokens, node: Nodes, origin: Callers]
    BY <2>1 DEF DiscoveryInv, JoinedInv, GoodSession
  <2> QED
    BY <2>1, <2>2, <2>4, <2>5, <2>6, <2>7 DEF TypeOK, DiscoveryInv, FoundInv
<1> QED
  BY <1>1, DiscoveryInvariant, PTL

\* The isolation policy of every node on the way holds, however nodes call each
\* other: IsolationAlongTheWay.
THEOREM DiscoveryIsIsolated == Spec => []IsolationAlongTheWay
<1>1. DiscoveryInv => IsolationAlongTheWay
  <2> SUFFICES ASSUME DiscoveryInv, NEW d \in Requests
               PROVE  /\ \A i \in DOMAIN stack[d] : stack[d][i].pc # "enter" => admits(stack[d][i].node, Req[d].app)
                      /\ answer[d] # 0 => /\ admits(tokens[answer[d]].node, Req[d].app)
                                          /\ tokens[answer[d]].origin = Req[d].origin
    BY DEF IsolationAlongTheWay
  <2>1. GoodStack(d, stack[d], tokens) /\ GoodToken(d, answer[d], tokens)
    BY DEF DiscoveryInv, FoundInv
  <2>2. stack[d] \in Seq(Frames)
    BY <2>1 DEF GoodStack
  <2> QED
    BY <2>1, <2>2 DEF GoodStack, GoodFrame, GoodToken
<1> QED
  BY <1>1, DiscoveryInvariant, PTL

\* The hop limit bounds how deep handlers call each other, on cycles too:
\* HopLimitBoundsDepth.
THEOREM DiscoveryDepthBounded == Spec => []HopLimitBoundsDepth
<1>1. DiscoveryInv => HopLimitBoundsDepth
  <2> SUFFICES ASSUME DiscoveryInv, NEW d \in Requests PROVE Len(stack[d]) <= Req[d].hops + 1
    BY DEF HopLimitBoundsDepth
  <2>1. GoodStack(d, stack[d], tokens) /\ stack[d] \in Seq(Frames) /\ Req[d].hops \in Nat
    BY ReqAssumption DEF DiscoveryInv, FoundInv
  <2>2. CASE Len(stack[d]) > 0
    <3>1. PICK n \in Nat : n = Len(stack[d])
      BY <2>1
    <3>2. stack[d][n] \in Frames /\ stack[d][n].hops + n = Req[d].hops + 1
      BY <2>1, <2>2, <3>1 DEF GoodStack, GoodFrame
    <3>3. stack[d][n].hops \in Nat
      BY <3>2, FrameFields
    <3> QED
      BY <2>1, <3>1, <3>2, <3>3
  <2> QED
    BY <2>1, <2>2
<1> QED
  BY <1>1, DiscoveryInvariant, PTL

\* A session has a token behind it that its node issued to the one that connects and
\* has evicted, and the connect policy of the node admits that one: SessionFollowsDiscovery.
THEOREM SessionsFollowDiscovery == Spec => []SessionFollowsDiscovery
<1>1. DiscoveryInv => SessionFollowsDiscovery
  BY DEF DiscoveryInv, JoinedInv, GoodSession, SessionFollowsDiscovery
<1> QED
  BY <1>1, DiscoveryInvariant, PTL
===============================================================================

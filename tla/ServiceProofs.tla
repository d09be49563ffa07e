---------------------------- MODULE ServiceProofs ----------------------------
(***************************************************************************)
(* Proofs about the services of a node that share no state with each       *)
(* other: the deduplication index, notifications, the management tables,   *)
(* the application registry and the reload of the configuration.           *)
(***************************************************************************)
EXTENDS DedupIndex, Notifications, Management, AppRegistry, ConfigReload, TLAPS

-----------------------------------------------------------------------------
(***************************************************************************)
(* For every set of keys, every set of ttls and every number of shards, the*)
(* index answers as DedupWindow promises.  The only fact about the state   *)
(* the argument needs, beyond its type, is that the instant a purge        *)
(* compares with is never later than the clock (PurgeAtPast): the row it   *)
(* removes has expired, so it stands for no window.                        *)
(***************************************************************************)

\* The purger's reading of the clock lies in the past (dedup/index.go:69).
PurgeAtPast == purgeAt <= now

IInv == TypeOK /\ PurgeAtPast

\* The window that row k stands for: the refinement mapping, key by key.
Until(k) == IF now < entries[k] THEN entries[k] ELSE 0

\* The index keeps its type, and a purge always compares with a past instant,
\* whatever the callers, the purger and the clock do (SeenOrAdd, Purge).
THEOREM IndexInv == Spec => []IInv
<1> USE KeysAssumption, TTLAssumption, ShardAssumption, MaxTimeAssumption
<1>1. Init => IInv
  <2> SUFFICES ASSUME Init PROVE IInv
    OBVIOUS
  <2>1. reply \in [key: Keys, seen: BOOLEAN]
    BY Zenon DEF Init
  <2> QED
    BY <2>1 DEF Init, IInv, TypeOK, PurgeAtPast
<1>2. IInv /\ [Next]_vars => IInv'
  <2> SUFFICES ASSUME IInv, [Next]_vars PROVE IInv'
    OBVIOUS
  <2> USE DEF IInv, TypeOK, PurgeAtPast
  <2>1. ASSUME NEW k \in Keys, NEW ttl \in TTLs, SeenOrAddWithTTL(k, ttl) PROVE IInv'
    <3>1. now + ttl \in Nat
      OBVIOUS
    <3>2. reply' \in [key: Keys, seen: BOOLEAN]
      BY <2>1, Zenon DEF SeenOrAddWithTTL, Seen
    <3>3. entries' \in [Keys -> Nat]
      BY <2>1, <3>1 DEF SeenOrAddWithTTL
    <3> QED
      BY <2>1, <3>2, <3>3 DEF SeenOrAddWithTTL
  <2>2. CASE PurgeBegin
    BY <2>2 DEF PurgeBegin
  <2>3. CASE PurgeShard
    BY <2>3 DEF PurgeShard
  <2>4. CASE Tick
    BY <2>4 DEF Tick
  <2>5. CASE UNCHANGED vars
    BY <2>5 DEF vars
  <2> QED
    BY <2>1, <2>2, <2>3, <2>4, <2>5 DEF Next, Purge
<1> QED
  BY <1>1, <1>2, PTL DEF Spec

\* The index implements the abstract window: a key is reported new at most once
\* in each of its windows, for any interleaving of calls with a running purge.
THEOREM IndexRefinesWindow == Spec => AnswersAsWindow
<1> USE KeysAssumption, TTLAssumption, ShardAssumption
<1>1. Init => Window!WindowInit
  BY Zenon DEF Init, Window!WindowInit
<1>2. IInv /\ [Next]_vars => [Window!WindowNext]_(Window!windowVars)
  <2> SUFFICES ASSUME IInv, [Next]_vars
               PROVE  Window!WindowNext \/ UNCHANGED Window!windowVars
    OBVIOUS
  <2> USE DEF IInv, TypeOK, PurgeAtPast
  <2>1. ASSUME NEW k \in Keys, NEW ttl \in TTLs, SeenOrAddWithTTL(k, ttl)
        PROVE  Window!WindowNext
    <3>1. CASE Seen(k)
      <4>1. Window!Duplicate(k)
        BY <2>1, <3>1, Zenon DEF SeenOrAddWithTTL, Seen, Window!Duplicate
      <4> QED
        BY <4>1 DEF Window!WindowNext
    <3>2. CASE ~Seen(k)
      <4>1. reply' = [key |-> k, seen |-> FALSE]
        BY <2>1, <3>2, Zenon DEF SeenOrAddWithTTL, Seen
      <4>2. entries' = [entries EXCEPT ![k] = now + ttl] /\ now' = now /\ now < now + ttl
        BY <2>1, <3>2 DEF SeenOrAddWithTTL
      <4>3. Until(k) = 0
        BY <3>2 DEF Seen, Until
      <4>4. \A i \in Keys : Until(i)' = IF i = k THEN now + ttl ELSE Until(i)
        BY <4>2 DEF Until
      <4>5. Window!Fresh(k, ttl)
        BY <4>1, <4>2, <4>3, <4>4, Zenon DEF Until, Window!Fresh
      <4> QED
        BY <4>5 DEF Window!WindowNext
    <3> QED
      BY <3>1, <3>2
  <2>2. CASE PurgeBegin
    BY <2>2 DEF PurgeBegin, Window!windowVars
  <2>3. CASE PurgeShard
    BY <2>3 DEF PurgeShard, Window!windowVars
  <2>4. CASE Tick
    <3>1. Window!Pass
      BY <2>4 DEF Tick, Window!Pass
    <3> QED
      BY <3>1 DEF Window!WindowNext
  <2>5. CASE UNCHANGED vars
    BY <2>5 DEF vars, Window!windowVars
  <2> QED
    BY <2>1, <2>2, <2>3, <2>4, <2>5 DEF Next, Purge
<1> QED
  BY <1>1, <1>2, IndexInv, PTL DEF Spec, AnswersAsWindow, Window!WindowSpec
-----------------------------------------------------------------------------
(***************************************************************************)
(* Notifications, for any number of streams, applications and envelopes. A *)
(* stream has the envelopes let through since it opened, in order, without *)
(* those that found its buffer full.                                       *)
(***************************************************************************)

StreamRecords == [on: BOOLEAN, buf: Seq(Nat), sent: Seq(Nat), after: Nat]
HookRecords == [pc: {"none", "post", "retry", "done"}, answers: Seq(Answers)]

\* evs are the envelopes from after + 1 to n without those of m, in order
Complete(evs, after, n, m) ==
  /\ evs \in Seq(Nat) /\ increasing(evs)
  /\ {evs[i] : i \in 1..Len(evs)} = ((after + 1)..n) \ m

\* A stream when n envelopes were let through and those of m found it full
GoodStream(s, n, m) ==
  /\ s \in StreamRecords /\ Len(s.buf) <= subBufSize
  /\ \/ s = closed
     \/ s.on /\ m \subseteq 1..n /\ s.after <= n /\ Complete(s.sent \o s.buf, s.after, n, m)

\* What a webhook was answered when it is about to post, and when it is through
GoodHook(h) ==
  /\ h \in HookRecords
  /\ h.pc \in {"none", "post"} => Len(h.answers) = 0
  /\ h.pc = "retry" => Len(h.answers) = 1 /\ h.answers[1] = "5xx"
  /\ Len(h.answers) <= 2 /\ (Len(h.answers) = 2 => h.answers[1] = "5xx")

NotificationsInv ==
  /\ allowed \in 0..MaxEnvelopes
  /\ stream \in [Streams -> StreamRecords]
  /\ missed \in [Streams -> SUBSET Nat]
  /\ \A c \in Streams : GoodStream(stream[c], allowed, missed[c])
  /\ hook \in [(1..MaxEnvelopes) \X HookApps -> HookRecords]
  /\ \A x \in (1..MaxEnvelopes) \X HookApps :
       GoodHook(hook[x]) /\ (hook[x].pc = "none" <=> x[1] > allowed)

\* An event goes from the channel to the client.
LEMMA MoveEvent ==
  ASSUME NEW s \in Seq(Nat), NEW b \in Seq(Nat), b # <<>>
  PROVE  Append(s, Head(b)) \in Seq(Nat) /\ Tail(b) \in Seq(Nat) /\ Len(Tail(b)) <= Len(b)
         /\ Append(s, Head(b)) \o Tail(b) = s \o b
OBVIOUS

\* An event is put at the end of the channel.
LEMMA PutEvent ==
  ASSUME NEW s \in Seq(Nat), NEW b \in Seq(Nat), NEW e \in Nat
  PROVE  Append(b, e) \in Seq(Nat) /\ Len(Append(b, e)) = Len(b) + 1 /\ s \o Append(b, e) = Append(s \o b, e)
OBVIOUS

\* The next envelope is put at the end, or is missed.
LEMMA CompleteNext ==
  ASSUME NEW evs, NEW after \in Nat, NEW n \in Nat, NEW m \in SUBSET (1..n), after <= n, Complete(evs, after, n, m)
  PROVE  Complete(Append(evs, n + 1), after, n + 1, m) /\ Complete(evs, after, n + 1, m \cup {n + 1})
<1>1. evs \in Seq(Nat) /\ Len(evs) \in Nat /\ DOMAIN evs = 1..Len(evs)
  BY DEF Complete
<1> DEFINE more == Append(evs, n + 1)
<1>2. /\ more \in Seq(Nat) /\ Len(more) = Len(evs) + 1 /\ more[Len(evs) + 1] = n + 1
      /\ \A i \in 1..Len(evs) : more[i] = evs[i]
  BY <1>1
<1> HIDE DEF more
<1>3. \A i \in 1..Len(evs) : evs[i] \in ((after + 1)..n) \ m
  BY DEF Complete
<1>4. increasing(more)
  <2> SUFFICES ASSUME NEW i \in 1..Len(more), NEW j \in 1..Len(more), i < j PROVE more[i] < more[j]
    <3>1. DOMAIN more = 1..Len(more)
      BY <1>2
    <3> QED
      BY <3>1, Zenon DEF increasing
  <2>1. PICK k \in Nat : k = Len(evs)
    BY <1>1, Zenon
  <2>2. i \in 1..k /\ (j = k + 1 \/ j \in 1..k)
    <3>1. \A a, b \in 1..(k + 1) : a < b => a \in 1..k /\ (b = k + 1 \/ b \in 1..k)
      OBVIOUS
    <3> QED
      BY <1>2, <2>1, <3>1, Zenon
  <2>3. more[i] = evs[i] /\ evs[i] \in Nat /\ evs[i] <= n
    BY <1>2, <1>3, <2>1, <2>2
  <2>4. CASE j = k + 1
    BY <1>2, <2>1, <2>3, <2>4
  <2>5. CASE j \in 1..k
    <3>1. more[j] = evs[j]
      BY <1>2, <2>1, <2>5, Zenon
    <3> QED
      BY <1>1, <2>1, <2>2, <2>3, <2>5, <3>1, Zenon DEF increasing, Complete
  <2> QED
    BY <2>2, <2>4, <2>5
<1>5. {more[i] : i \in 1..Len(more)} = {evs[i] : i \in 1..Len(evs)} \cup {n + 1}
  <2>1. 1..Len(more) = (1..Len(evs)) \cup {Len(evs) + 1}
    BY <1>1, <1>2
  <2> QED
    BY <1>2, <2>1, Zenon
<1>6. ((after + 1)..(n + 1)) \ m = (((after + 1)..n) \ m) \cup {n + 1}
  OBVIOUS
<1>7. ((after + 1)..(n + 1)) \ (m \cup {n + 1}) = ((after + 1)..n) \ m
  OBVIOUS
<1> QED
  BY <1>2, <1>4, <1>5, <1>6, <1>7, Zenon DEF Complete, more

\* A closed stream holds nothing.
LEMMA ClosedStream == closed \in StreamRecords /\ closed.buf = <<>> /\ closed.sent = <<>> /\ closed.on = FALSE
<1>1. <<>> \in Seq(Nat)
  OBVIOUS
<1> QED
  BY <1>1 DEF closed, StreamRecords

\* The other parts of the state when a step concerns one stream
LEMMA StreamStep ==
  ASSUME NotificationsInv, NEW c \in Streams, NEW s, NEW m \in SUBSET Nat, GoodStream(s, allowed, m),
         stream' = [stream EXCEPT ![c] = s], missed' = [missed EXCEPT ![c] = m], UNCHANGED <<allowed, hook>>
  PROVE  NotificationsInv'
<1>1. s \in StreamRecords
  BY DEF GoodStream
<1>2. \A d \in Streams : GoodStream(stream'[d], allowed, missed'[d])
  BY DEF NotificationsInv
<1> QED
  BY <1>1, <1>2 DEF NotificationsInv

\* A stream that opens owes the envelopes that come from then on.
LEMMA OpenKeeps ==
  ASSUME NotificationsInv, NEW c \in Streams, OpenStream(c)
  PROVE  NotificationsInv'
<1> DEFINE s == [closed EXCEPT !.on = TRUE, !.after = allowed]
<1>1. <<>> \in Seq(Nat) /\ allowed \in Nat
  BY NotificationsAssumption DEF NotificationsInv
<1>2. closed \in StreamRecords /\ closed.buf = <<>> /\ closed.sent = <<>>
  BY ClosedStream
<1>3. s \in StreamRecords /\ s.on /\ s.buf = <<>> /\ s.sent = <<>> /\ s.after = allowed
  BY <1>1, <1>2, Zenon DEF StreamRecords
<1>4. stream' = [stream EXCEPT ![c] = s] /\ missed' = [missed EXCEPT ![c] = {}] /\ UNCHANGED <<allowed, hook>>
  BY DEF OpenStream
<1> HIDE DEF s
<1>5. Complete(<<>>, allowed, allowed, {})
  BY <1>1 DEF Complete, increasing
<1>6. s.sent \o s.buf = <<>>
  BY <1>3
<1>7. GoodStream(s, allowed, {})
  BY <1>1, <1>3, <1>5, <1>6, NotificationsAssumption DEF GoodStream
<1> QED
  BY <1>4, <1>7, StreamStep, Zenon

\* The oldest event of the buffer is written to the client.
LEMMA WriteKeeps ==
  ASSUME NotificationsInv, NEW c \in Streams, WriteEvent(c)
  PROVE  NotificationsInv'
<1> DEFINE b == stream[c].buf
           s == [stream[c] EXCEPT !.buf = Tail(b), !.sent = Append(stream[c].sent, Head(b))]
<1>1. stream[c] \in StreamRecords /\ b # <<>> /\ GoodStream(stream[c], allowed, missed[c]) /\ missed[c] \in SUBSET Nat
  BY DEF NotificationsInv, WriteEvent
<1>2. b \in Seq(Nat) /\ stream[c].sent \in Seq(Nat) /\ stream[c].on \in BOOLEAN /\ stream[c].after \in Nat
  BY <1>1 DEF StreamRecords
<1>3. /\ Append(stream[c].sent, Head(b)) \in Seq(Nat) /\ Tail(b) \in Seq(Nat) /\ Len(Tail(b)) <= Len(b)
      /\ Append(stream[c].sent, Head(b)) \o Tail(b) = stream[c].sent \o b
  BY <1>1, <1>2, MoveEvent, Zenon
<1>4. /\ s \in StreamRecords /\ s.buf = Tail(b) /\ s.sent = Append(stream[c].sent, Head(b))
      /\ s.after = stream[c].after /\ s.on = stream[c].on
  BY <1>1, <1>3, Zenon DEF StreamRecords
<1>5. stream' = [stream EXCEPT ![c] = s] /\ UNCHANGED <<allowed, missed, hook>>
  BY Zenon DEF WriteEvent
<1>6. missed' = [missed EXCEPT ![c] = missed[c]]
  BY <1>5 DEF NotificationsInv
<1>7. stream[c] # closed
  BY <1>1, ClosedStream
<1>8. GoodStream(s, allowed, missed[c])
  <2>1. Len(b) <= subBufSize /\ subBufSize \in Nat
    BY <1>1, NotificationsAssumption, Zenon DEF GoodStream
  <2>2. Len(s.buf) <= subBufSize
    <3>1. \A i, j, k \in Nat : i <= j /\ j <= k => i <= k
      OBVIOUS
    <3> HIDE DEF s, b
    <3>2. Len(b) \in Nat /\ Len(Tail(b)) \in Nat
      BY <1>2, <1>3
    <3> QED
      BY <1>3, <1>4, <2>1, <3>1, <3>2, Zenon
  <2>3. s.sent \o s.buf = stream[c].sent \o b
    BY <1>3, <1>4, Zenon
  <2> HIDE DEF s
  <2> QED
    BY <1>1, <1>4, <1>7, <2>2, <2>3, Zenon DEF GoodStream
<1> QED
  BY <1>1, <1>5, <1>6, <1>8, StreamStep, Zenon

\* A client that goes is owed nothing.
LEMMA LeaveKeeps ==
  ASSUME NotificationsInv, NEW c \in Streams, LeaveStream(c)
  PROVE  NotificationsInv'
<1>1. GoodStream(closed, allowed, {})
  BY ClosedStream, NotificationsAssumption DEF GoodStream
<1> QED
  BY <1>1, StreamStep, Zenon DEF LeaveStream

\* An envelope that is let through goes to every open stream with room, and a callback begins for its application.
LEMMA AllowKeeps ==
  ASSUME NotificationsInv, Allow
  PROVE  NotificationsInv'
<1>1. allowed \in Nat /\ allowed' = allowed + 1 /\ allowed' \in 0..MaxEnvelopes /\ subBufSize \in Nat /\ subBufSize > 0
  BY NotificationsAssumption DEF NotificationsInv, Allow
<1>2. ASSUME NEW c \in Streams
      PROVE  stream'[c] \in StreamRecords /\ missed'[c] \in SUBSET Nat /\ GoodStream(stream'[c], allowed', missed'[c])
  <2> DEFINE s == stream[c]
             t == [s EXCEPT !.buf = offer(s.buf, allowed + 1)]
  <2>1. s \in StreamRecords /\ GoodStream(s, allowed, missed[c]) /\ missed[c] \in SUBSET Nat
    BY DEF NotificationsInv
  <2>2. s.buf \in Seq(Nat) /\ s.sent \in Seq(Nat) /\ s.after \in Nat /\ Len(s.buf) \in Nat /\ Len(s.buf) <= subBufSize
    BY <2>1 DEF StreamRecords, GoodStream
  <2>3. CASE s = closed
    <3>1. ~s.on
      BY <2>3, ClosedStream
    <3>2. stream'[c] = s /\ missed'[c] = missed[c]
      BY <3>1 DEF Allow
    <3> QED
      BY <2>1, <2>2, <2>3, <3>2 DEF GoodStream
  <2>4. CASE s # closed
    <3>1. /\ s.on /\ missed[c] \in SUBSET (1..allowed) /\ s.after <= allowed
          /\ Complete(s.sent \o s.buf, s.after, allowed, missed[c])
      BY <2>1, <2>4 DEF GoodStream
    <3>2. stream'[c] = t /\ missed'[c] = IF Len(s.buf) = subBufSize THEN missed[c] \cup {allowed + 1} ELSE missed[c]
      BY <3>1 DEF Allow
    <3>3. /\ Complete(Append(s.sent \o s.buf, allowed + 1), s.after, allowed + 1, missed[c])
          /\ Complete(s.sent \o s.buf, s.after, allowed + 1, missed[c] \cup {allowed + 1})
      BY <1>1, <2>2, <3>1, CompleteNext, Zenon
    <3>4. /\ Append(s.buf, allowed + 1) \in Seq(Nat) /\ Len(Append(s.buf, allowed + 1)) = Len(s.buf) + 1
          /\ s.sent \o Append(s.buf, allowed + 1) = Append(s.sent \o s.buf, allowed + 1)
      <4>1. allowed + 1 \in Nat
        BY <1>1
      <4> QED
        BY <2>2, <4>1, PutEvent, Zenon
    <3>5. ASSUME NEW b \in Seq(Nat), t = [s EXCEPT !.buf = b]
          PROVE  /\ t \in StreamRecords /\ t.on /\ t.buf = b /\ t.sent = s.sent /\ t.after = s.after
      BY <2>1, <3>1, <3>5, Zenon DEF StreamRecords
    <3>6. CASE Len(s.buf) = subBufSize
      <4>1. t = [s EXCEPT !.buf = s.buf]
        BY <3>6 DEF offer
      <4>2. t \in StreamRecords /\ t.on /\ t.buf = s.buf /\ t.sent = s.sent /\ t.after = s.after
        BY <2>2, <3>5, <4>1, Zenon
      <4>3. missed'[c] = missed[c] \cup {allowed + 1} /\ missed'[c] \subseteq 1..(allowed + 1) /\ s.after <= allowed + 1
        BY <1>1, <2>2, <3>1, <3>2, <3>6
      <4> HIDE DEF t, s
      <4>4. GoodStream(t, allowed + 1, missed[c] \cup {allowed + 1})
        BY <2>2, <3>3, <4>2, <4>3, Zenon DEF GoodStream
      <4>5. missed[c] \cup {allowed + 1} \in SUBSET Nat
        BY <1>1, <2>1
      <4> QED
        BY <1>1, <3>2, <4>2, <4>3, <4>4, <4>5, Zenon
    <3>7. CASE Len(s.buf) # subBufSize
      <4>1. t = [s EXCEPT !.buf = Append(s.buf, allowed + 1)] /\ Len(s.buf) + 1 <= subBufSize
        <5>1. \A i, j \in Nat : i <= j /\ i # j => i < j /\ i + 1 <= j
          OBVIOUS
        <5>2. Len(s.buf) < subBufSize /\ Len(s.buf) + 1 <= subBufSize
          BY <1>1, <2>2, <3>7, <5>1
        <5> QED
          BY <5>2 DEF offer
      <4>2. t \in StreamRecords /\ t.on /\ t.buf = Append(s.buf, allowed + 1) /\ t.sent = s.sent /\ t.after = s.after
        BY <3>4, <3>5, <4>1, Zenon
      <4>3. missed'[c] = missed[c] /\ missed'[c] \subseteq 1..(allowed + 1) /\ s.after <= allowed + 1
        BY <1>1, <2>2, <3>1, <3>2, <3>7
      <4> HIDE DEF t, s
      <4>4. GoodStream(t, allowed + 1, missed[c])
        BY <3>3, <3>4, <4>1, <4>2, <4>3, Zenon DEF GoodStream
      <4> QED
        BY <1>1, <2>1, <3>2, <4>2, <4>3, <4>4
    <3> QED
      BY <3>6, <3>7
  <2> QED
    BY <2>3, <2>4
<1>3. stream' \in [Streams -> StreamRecords] /\ missed' \in [Streams -> SUBSET Nat]
  BY <1>2, Zenon DEF Allow
<1>4. ASSUME NEW x \in (1..MaxEnvelopes) \X HookApps
      PROVE  hook'[x] \in HookRecords /\ GoodHook(hook'[x]) /\ (hook'[x].pc = "none" <=> x[1] > allowed')
  <2>1. /\ x[1] \in Nat /\ GoodHook(hook[x]) /\ (hook[x].pc = "none" <=> x[1] > allowed)
        /\ hook'[x] = IF x[1] = allowed + 1 THEN [notYet EXCEPT !.pc = "post"] ELSE hook[x]
    BY DEF NotificationsInv, Allow
  <2>2. CASE x[1] = allowed + 1
    <3>1. <<>> \in Seq(Answers) /\ Len(<<>>) = 0
      OBVIOUS
    <3>2. hook'[x] = [pc |-> "post", answers |-> <<>>]
      BY <2>1, <2>2 DEF notYet
    <3> QED
      BY <1>1, <2>2, <3>1, <3>2 DEF GoodHook, HookRecords
  <2>3. CASE x[1] # allowed + 1
    BY <1>1, <2>1, <2>3 DEF GoodHook
  <2> QED
    BY <2>2, <2>3
<1>5. hook' \in [(1..MaxEnvelopes) \X HookApps -> HookRecords]
  BY <1>4, Zenon DEF Allow, NotificationsInv
<1> QED
  BY <1>1, <1>2, <1>3, <1>4, <1>5 DEF NotificationsInv

\* The other parts of the state when a step concerns one webhook
LEMMA HookStep ==
  ASSUME NotificationsInv, NEW e \in 1..allowed, NEW a \in HookApps, NEW h, GoodHook(h), h.pc # "none",
         hook' = [hook EXCEPT ![<<e, a>>] = h], UNCHANGED <<allowed, stream, missed>>
  PROVE  NotificationsInv'
<1>1. <<e, a>> \in (1..MaxEnvelopes) \X HookApps /\ ~(e > allowed)
  BY NotificationsAssumption DEF NotificationsInv
<1>2. h \in HookRecords
  BY DEF GoodHook
<1>3. hook' \in [(1..MaxEnvelopes) \X HookApps -> HookRecords]
  BY <1>2, Zenon DEF NotificationsInv
<1>4. ASSUME NEW x \in (1..MaxEnvelopes) \X HookApps
      PROVE  GoodHook(hook'[x]) /\ (hook'[x].pc = "none" <=> x[1] > allowed)
  <2>1. CASE x = <<e, a>>
    BY <1>1, <2>1 DEF NotificationsInv
  <2>2. CASE x # <<e, a>>
    BY <2>2 DEF NotificationsInv
  <2> QED
    BY <2>1, <2>2
<1> QED
  BY <1>3, <1>4 DEF NotificationsInv

\* A callback ends with its first success or its last attempt.
LEMMA PostKeeps ==
  ASSUME NotificationsInv, NEW e \in 1..allowed, NEW a \in HookApps,
         CutShort(e, a) \/ \E r \in Answers : Post(e, a, r)
  PROVE  NotificationsInv'
<1>1. PICK h : h = hook[<<e, a>>]
  OBVIOUS
<1>2. GoodHook(h) /\ h.pc \in {"post", "retry"}
  <2>1. <<e, a>> \in (1..MaxEnvelopes) \X HookApps
    BY NotificationsAssumption DEF NotificationsInv
  <2>2. GoodHook(hook[<<e, a>>])
    BY <2>1 DEF NotificationsInv
  <2> QED
    BY <1>1, <2>2, Zenon DEF CutShort, Post
<1>3. h \in HookRecords /\ h.answers \in Seq(Answers)
  BY <1>2 DEF GoodHook, HookRecords
<1>4. CASE CutShort(e, a)
  <2>1. GoodHook([h EXCEPT !.pc = "done"]) /\ [h EXCEPT !.pc = "done"].pc = "done"
    BY <1>2, <1>3 DEF GoodHook, HookRecords
  <2>2. hook' = [hook EXCEPT ![<<e, a>>] = [h EXCEPT !.pc = "done"]]
    BY <1>1, <1>4 DEF CutShort
  <2> QED
    BY <1>4, <2>1, <2>2, HookStep, Zenon DEF CutShort
<1>5. ASSUME NEW r \in Answers, Post(e, a, r) PROVE NotificationsInv'
  <2> DEFINE k == [pc |-> IF h.pc = "post" /\ r = "5xx" THEN "retry" ELSE "done", answers |-> Append(h.answers, r)]
  <2>1. hook' = [hook EXCEPT ![<<e, a>>] = k]
    BY <1>1, <1>5 DEF Post
  <2>2. /\ Append(h.answers, r) \in Seq(Answers) /\ Len(Append(h.answers, r)) = Len(h.answers) + 1
        /\ Len(h.answers) = 0 => Append(h.answers, r)[1] = r
        /\ Len(h.answers) = 1 => Append(h.answers, r)[1] = h.answers[1]
    BY <1>3
  <2>3. k \in HookRecords /\ k.answers = Append(h.answers, r) /\ k.pc = IF h.pc = "post" /\ r = "5xx" THEN "retry" ELSE "done"
    BY <2>2 DEF HookRecords
  <2> HIDE DEF k
  <2>4. CASE h.pc = "post"
    <3>1. Len(k.answers) = 1 /\ k.answers[1] = r
      BY <1>2, <2>2, <2>3, <2>4 DEF GoodHook
    <3>2. GoodHook(k) /\ k.pc # "none"
      BY <2>3, <2>4, <3>1 DEF GoodHook
    <3> QED
      BY <1>5, <2>1, <3>2, HookStep, Zenon DEF Post
  <2>5. CASE h.pc = "retry"
    <3>1. Len(k.answers) = 2 /\ k.answers[1] = "5xx"
      BY <1>2, <2>2, <2>3, <2>5 DEF GoodHook
    <3>2. GoodHook(k) /\ k.pc # "none"
      BY <2>3, <2>5, <3>1 DEF GoodHook
    <3> QED
      BY <1>5, <2>1, <3>2, HookStep, Zenon DEF Post
  <2> QED
    BY <1>2, <2>4, <2>5
<1> QED
  BY <1>4, <1>5

\* What every stream has got and what every callback has tried, at every moment.
THEOREM NotificationsInvariant == NotificationsSpec => []NotificationsInv
<1>1. NotificationsInit => NotificationsInv
  <2> SUFFICES ASSUME NotificationsInit PROVE NotificationsInv
    OBVIOUS
  <2>1. GoodStream(closed, 0, {})
    BY ClosedStream, NotificationsAssumption DEF GoodStream
  <2>2. GoodHook(notYet) /\ notYet \in HookRecords /\ notYet.pc = "none"
    <3>1. <<>> \in Seq(Answers) /\ Len(<<>>) = 0
      OBVIOUS
    <3> QED
      BY <3>1 DEF GoodHook, HookRecords, notYet
  <2> QED
    BY <2>1, <2>2, ClosedStream, NotificationsAssumption DEF NotificationsInit, NotificationsInv
<1>2. NotificationsInv /\ [NotificationsNext]_notificationVars => NotificationsInv'
  <2> SUFFICES ASSUME NotificationsInv, [NotificationsNext]_notificationVars PROVE NotificationsInv'
    OBVIOUS
  <2>1. CASE UNCHANGED notificationVars
    BY <2>1 DEF notificationVars, NotificationsInv
  <2>2. ASSUME NEW c \in Streams, OpenStream(c) \/ WriteEvent(c) \/ LeaveStream(c) PROVE NotificationsInv'
    BY <2>2, OpenKeeps, WriteKeeps, LeaveKeeps
  <2>3. CASE Allow
    BY <2>3, AllowKeeps
  <2>4. ASSUME NEW e \in 1..allowed, NEW a \in HookApps, CutShort(e, a) \/ \E r \in Answers : Post(e, a, r)
        PROVE  NotificationsInv'
    BY <2>4, PostKeeps
  <2> QED
    BY <2>1, <2>2, <2>3, <2>4 DEF NotificationsNext
<1> QED
  BY <1>1, <1>2, PTL DEF NotificationsSpec

\* An open stream has every envelope that found room in its channel, once and in order, and an
\* application is sent one again only after a server error: ToldOnce.
THEOREM WhoeverIsToldOnce == NotificationsSpec => []ToldOnce
<1>1. NotificationsInv => StreamIsComplete
  <2> SUFFICES ASSUME NotificationsInv, NEW c \in Streams, stream[c].on
               PROVE  LET events == stream[c].sent \o stream[c].buf
                      IN  /\ increasing(events)
                          /\ {events[i] : i \in DOMAIN events} = ((stream[c].after + 1)..allowed) \ missed[c]
    BY Zenon DEF StreamIsComplete
  <2>1. stream[c] # closed
    BY ClosedStream
  <2>2. Complete(stream[c].sent \o stream[c].buf, stream[c].after, allowed, missed[c])
    BY <2>1 DEF NotificationsInv, GoodStream
  <2> QED
    <3>1. PICK evs : evs = stream[c].sent \o stream[c].buf
      BY Zenon
    <3>2. evs \in Seq(Nat) /\ increasing(evs) /\ {evs[i] : i \in 1..Len(evs)} = ((stream[c].after + 1)..allowed) \ missed[c]
      BY <2>2, <3>1, Zenon DEF Complete
    <3>3. DOMAIN evs = 1..Len(evs)
      BY <3>2
    <3> QED
      BY <3>1, <3>2, <3>3, Zenon
<1>2. NotificationsInv => ToldTwiceOnlyAfter5xx
  BY DEF NotificationsInv, GoodHook, ToldTwiceOnlyAfter5xx
<1> QED
  BY <1>1, <1>2, NotificationsInvariant, PTL DEF ToldOnce
-----------------------------------------------------------------------------
(***************************************************************************)
(* The management tables, for any set of custom adapter types.             *)
(***************************************************************************)

\* Only custom types are ever registered.
ManagementInv == ManagementTypeOK /\ DOMAIN runtimeAdapters \subseteq CustomTypes

\* The tables that the management API changes keep their types, and built-in adapters are never
\* among those registered.
THEOREM ManagementInvariant == ManagementSpec => []ManagementInv
<1>1. ManagementInit => ManagementInv
  <2> SUFFICES ASSUME ManagementInit PROVE ManagementInv
    OBVIOUS
  <2>1. runtimePeers \in Seq(PeerAddrs \ {""}) /\ Len(runtimePeers) = 0 /\ DOMAIN runtimeAdapters = {} /\ runtimeApps = {}
    BY DEF ManagementInit
  <2> QED
    BY <2>1, PeersAssumption DEF ManagementInv, ManagementTypeOK
<1>2. ManagementInv /\ [ManagementNext]_managementVars => ManagementInv'
  <2> SUFFICES ASSUME ManagementInv, [ManagementNext]_managementVars PROVE ManagementInv'
    OBVIOUS
  <2>1. CASE UNCHANGED managementVars
    BY <2>1 DEF managementVars, ManagementInv, ManagementTypeOK
  <2>2. ASSUME NEW addr \in PeerAddrs, RegisterPeer(addr) PROVE ManagementInv'
    <3>1. addr \in PeerAddrs \ {""} /\ runtimePeers \in Seq(PeerAddrs \ {""}) /\ runtimePeers' = Append(runtimePeers, addr)
      BY <2>2 DEF RegisterPeer, ManagementInv, ManagementTypeOK
    <3>2. runtimePeers' \in Seq(PeerAddrs \ {""}) /\ Len(runtimePeers') = Len(runtimePeers) + 1 /\ Len(runtimePeers) \in Nat
      <4>1. \A S : \A s \in Seq(S), e \in S : Append(s, e) \in Seq(S) /\ Len(Append(s, e)) = Len(s) + 1 /\ Len(s) \in Nat
        OBVIOUS
      <4> QED
        BY <3>1, <4>1, Zenon
    <3>3. \A i, j \in Nat : i < j => i + 1 <= j
      OBVIOUS
    <3>4. Len(runtimePeers') <= MaxPeers
      BY <2>2, <3>2, <3>3, PeersAssumption DEF RegisterPeer
    <3> QED
      BY <2>2, <3>2, <3>4 DEF RegisterPeer, ManagementInv, ManagementTypeOK
  <2>3. ASSUME NEW id \in AppIDs, RegisterApp(id) \/ DeleteApp(id) PROVE ManagementInv'
    BY <2>3 DEF RegisterApp, DeleteApp, ManagementInv, ManagementTypeOK
  <2>4. ASSUME NEW t \in SchemaTypes, NEW r \in Restrictions, RegisterAdapter(t, r) PROVE ManagementInv'
    BY <2>4, TypesAssumption DEF RegisterAdapter, ManagementInv, ManagementTypeOK
  <2>5. ASSUME NEW t \in SchemaTypes, DeleteAdapter(t) PROVE ManagementInv'
    BY <2>5 DEF DeleteAdapter, ManagementInv, ManagementTypeOK
  <2> QED
    BY <2>1, <2>2, <2>3, <2>4, <2>5 DEF ManagementNext
<1> QED
  BY <1>1, <1>2, PTL DEF ManagementSpec

\* GET schema/adapters lists every type once, whatever was registered and removed:
\* AdaptersListedOnce.
THEOREM AdaptersAlwaysListedOnce == ManagementSpec => []AdaptersListedOnce
<1>1. ManagementInv => AdaptersListedOnce
  <2> SUFFICES ASSUME ManagementInv PROVE AdaptersListedOnce
    OBVIOUS
  <2> DEFINE builtin(t) == [from |-> "builtin", entry |-> entryOf(ListedRules, t)]
             runtime(t) == [from |-> "runtime", entry |-> [type |-> t, tiers |-> runtimeAdapters[t].tiers, regions |-> {},
                                                           profile |-> runtimeAdapters[t].profile]]
  <2>1. \A x \in listedAdapters : (\E t \in Builtins : x = builtin(t)) \/ (\E t \in DOMAIN runtimeAdapters : x = runtime(t))
    BY DEF listedAdapters
  <2>2. \A t \in Builtins : builtin(t) \in listedAdapters
    BY DEF listedAdapters
  <2>3. \A t : builtin(t).entry.type = t /\ runtime(t).entry.type = t
    BY DEF entryOf
  <2>4. builtin("hl7fhir").entry.tiers = {"regional"} /\ builtin("hl7fhir").entry.profile = "strict"
    BY DEF entryOf
  <2>5. \A t \in DOMAIN runtimeAdapters : t \notin Builtins
    BY TypesAssumption DEF ManagementInv
  <2> HIDE DEF builtin, runtime
  <2>6. ASSUME NEW x \in listedAdapters, NEW y \in listedAdapters, x.entry.type = y.entry.type PROVE x = y
    BY <2>1, <2>3, <2>5, <2>6
  <2>7. Builtins \subseteq {x.entry.type : x \in listedAdapters}
    BY <2>2, <2>3
  <2>8. ASSUME NEW x \in listedAdapters, x.entry.type = "hl7fhir"
        PROVE  x.entry.tiers = {"regional"} /\ x.entry.profile = "strict"
    <3>1. "hl7fhir" \in Builtins
      BY DEF Builtins
    <3> QED
      BY <2>1, <2>3, <2>4, <2>5, <2>8, <3>1
  <2> QED
    BY <2>6, <2>7, <2>8 DEF AdaptersListedOnce
<1> QED
  BY <1>1, ManagementInvariant, PTL
-----------------------------------------------------------------------------
(***************************************************************************)
(* The application registry, for any users, rules and lifetime of tokens.  *)
(* The argument follows every answer of Connect: it stands by the token it *)
(* was given for, and later steps change neither.                          *)
(***************************************************************************)

Issued == [user: users, expires: Nat, live: BOOLEAN]
Answered == [token: Nat, by: Requesters, at: Nat, status: {"ACCEPTED", "PENDING", "DENIED"}]

\* Was token t ever presented
Presented(C, t) == \E i \in 1..Len(C) : C[i].token = t

\* Connect i of C stands: it was the first with its token, and in time, if and only if
\* it got a session, and was accepted at once only by the rule of the token's application
Stands(C, T, i) ==
  LET k == C[i]
      first == \A j \in 1..(i - 1) : C[j].token # k.token
      app == RegApps[T[k.token].user[1]]
  IN  /\ k.token \in 1..Len(T)
      /\ k.status # "DENIED" <=> first /\ k.at <= T[k.token].expires
      /\ k.status = "ACCEPTED" => \/ app.autoAccept = "auto_all"
                                  \/ app.autoAccept = "auto_mutual" /\ k.by.region \in RegAllowTo
                                  \/ app.autoAccept = "auto_whitelist" /\ k.by.id \in DOMAIN app.users

\* What the tokens may become: tokens are added, and what one says of its user and its time stays.
Kept(T, U) ==
  /\ U \in Seq(Issued) /\ Len(T) <= Len(U)
  /\ \A t \in 1..Len(T) : U[t].user = T[t].user /\ U[t].expires = T[t].expires

\* A token is in the map until it is presented.
RegistryInv ==
  /\ time \in Nat
  /\ tokens \in Seq(Issued)
  /\ connects \in Seq(Answered)
  /\ \A t \in 1..Len(tokens) : tokens[t].live <=> ~Presented(connects, t)
  /\ \A i \in 1..Len(connects) : Stands(connects, tokens, i)

\* What auto_accept says is a session, and ACCEPTED only by its rule
LEMMA StatusByRule ==
  ASSUME NEW app, NEW r
  PROVE  /\ statusFor(app, r) \in {"ACCEPTED", "PENDING"}
         /\ statusFor(app, r) = "ACCEPTED" =>
              \/ RegApps[app].autoAccept = "auto_all"
              \/ RegApps[app].autoAccept = "auto_mutual" /\ r.region \in RegAllowTo
              \/ RegApps[app].autoAccept = "auto_whitelist" /\ r.id \in DOMAIN RegApps[app].users
BY DEF statusFor

\* A connect names a token that was issued; one that got a session was the first with it, and in time.
LEMMA StandsBy ==
  ASSUME NEW C, NEW T, NEW i, Stands(C, T, i)
  PROVE  /\ C[i].token \in 1..Len(T)
         /\ (C[i].status # "DENIED") <=>
              ((\A j \in 1..(i - 1) : C[j].token # C[i].token) /\ C[i].at <= T[C[i].token].expires)
BY Zenon DEF Stands

\* The part of a token that connects depend on stays as it is, and tokens are added.
LEMMA StandsStill ==
  ASSUME NEW C \in Seq(Answered), NEW T \in Seq(Issued), NEW U, Kept(T, U), NEW i \in 1..Len(C), Stands(C, T, i)
  PROVE  Stands(C, U, i)
<1>1. C[i].token \in 1..Len(U) /\ C[i].token \in 1..Len(T)
  <2>1. C[i].token \in 1..Len(T)
    BY StandsBy, Zenon
  <2>2. Len(T) <= Len(U) /\ Len(T) \in Nat /\ Len(U) \in Nat
    BY DEF Kept
  <2>3. \A a, b \in Nat : a <= b => 1..a \subseteq 1..b
    OBVIOUS
  <2> QED
    BY <2>1, <2>2, <2>3, Zenon
<1> QED
  BY <1>1, Zenon DEF Stands, Kept

\* Discover adds tokens that no one has presented.
LEMMA DiscoverIssues ==
  ASSUME RegistryInv, NEW q \in Queries, Discover(q)
  PROVE  RegistryInv'
<1> DEFINE found == {x \in users : matches(q, x)}
<1>1. PICK order \in [1..Cardinality(found) -> found] :
        tokens' = tokens \o [i \in 1..Cardinality(found) |-> [user |-> order[i], expires |-> time + tokenTTL, live |-> TRUE]]
  BY DEF Discover
<1>2. UNCHANGED <<time, connects>> /\ time \in Nat /\ tokens \in Seq(Issued) /\ connects \in Seq(Answered)
  BY DEF Discover, RegistryInv
<1>3. Cardinality(found) \in Nat /\ time + tokenTTL \in Nat
  BY <1>2, RegistryAssumption
<1>4. \A i \in 1..Cardinality(found) : [user |-> order[i], expires |-> time + tokenTTL, live |-> TRUE] \in Issued
  BY <1>1, <1>3 DEF Issued
<1> DEFINE new == [i \in 1..Cardinality(found) |-> [user |-> order[i], expires |-> time + tokenTTL, live |-> TRUE]]
<1>5. new \in Seq(Issued) /\ Len(new) = Cardinality(found)
  BY <1>3, <1>4
<1>6. \A i \in 1..Len(new) : new[i].live = TRUE
  BY <1>3, <1>5
<1>7. tokens' = tokens \o new
  BY <1>1
<1> HIDE DEF new
<1>8. /\ tokens' \in Seq(Issued) /\ Len(tokens') = Len(tokens) + Len(new) /\ Len(tokens) \in Nat /\ Len(new) \in Nat
      /\ \A t \in 1..Len(tokens) : tokens'[t] = tokens[t]
      /\ \A t \in 1..Len(tokens') : t \notin 1..Len(tokens) => tokens'[t] = new[t - Len(tokens)]
  BY <1>2, <1>5, <1>7
<1>9. \A i \in 1..Len(connects) : connects[i].token \in 1..Len(tokens)
  BY StandsBy, Zenon DEF RegistryInv
<1>10. ASSUME NEW t \in 1..Len(tokens') PROVE tokens'[t].live <=> ~Presented(connects, t)
  <2>1. CASE t \in 1..Len(tokens)
    BY <1>8, <2>1, Zenon DEF RegistryInv
  <2>2. CASE t \notin 1..Len(tokens)
    <3>1. t - Len(tokens) \in 1..Len(new)
      BY <1>8, <2>2
    <3>2. tokens'[t].live = TRUE
      BY <1>6, <1>8, <2>2, <3>1
    <3>3. ~Presented(connects, t)
      BY <1>9, <2>2 DEF Presented
    <3> QED
      BY <3>2, <3>3
  <2> QED
    BY <2>1, <2>2
<1>11. \A i \in 1..Len(connects) : Stands(connects, tokens', i)
  <2>1. Kept(tokens, tokens')
    BY <1>8 DEF Kept
  <2> QED
    BY <1>2, <2>1, StandsStill DEF RegistryInv
<1> QED
  BY <1>2, <1>8, <1>10, <1>11 DEF RegistryInv

\* Connect answers one call, and takes the token it accepts.
LEMMA ConnectAnswers ==
  ASSUME RegistryInv, NEW t \in DOMAIN tokens, NEW r \in Requesters, Connect(t, r)
  PROVE  RegistryInv'
<1>1. /\ time \in Nat /\ tokens \in Seq(Issued) /\ connects \in Seq(Answered) /\ t \in 1..Len(tokens)
      /\ tokens' = [tokens EXCEPT ![t].live = FALSE] /\ time' = time
  BY DEF Connect, RegistryInv
<1>2. PICK n \in Nat : n = Len(connects)
  <2>1. Len(connects) \in Nat
    BY <1>1
  <2> QED
    BY <2>1, Zenon
<1>3. PICK good \in BOOLEAN : good <=> tokens[t].live /\ time <= tokens[t].expires
  BY Zenon
<1>4. PICK status : /\ status = IF good THEN statusFor(tokens[t].user[1], r) ELSE "DENIED"
                    /\ connects' = Append(connects, [token |-> t, by |-> r, at |-> time, status |-> status])
  BY <1>3, Zenon DEF Connect
<1> DEFINE k == [token |-> t, by |-> r, at |-> time, status |-> status]
<1>5. status \in {"ACCEPTED", "PENDING", "DENIED"} /\ (status # "DENIED" <=> good)
  BY <1>4, StatusByRule
<1>6. k \in Answered /\ k.token = t /\ k.by = r /\ k.at = time /\ k.status = status
  BY <1>1, <1>5 DEF Answered
<1> HIDE DEF k
<1>7. /\ connects' \in Seq(Answered) /\ Len(connects') = n + 1 /\ connects'[n + 1] = k
      /\ \A i \in 1..n : connects'[i] = connects[i]
  BY <1>1, <1>2, <1>4, <1>6 DEF k
<1>8. /\ [tokens[t] EXCEPT !.live = FALSE] \in Issued /\ [tokens[t] EXCEPT !.live = FALSE].live = FALSE
      /\ [tokens[t] EXCEPT !.live = FALSE].user = tokens[t].user /\ [tokens[t] EXCEPT !.live = FALSE].expires = tokens[t].expires
  <2>1. tokens[t] \in Issued
    BY <1>1
  <2> QED
    BY <2>1, Zenon DEF Issued
<1>9. PICK e : e = [tokens[t] EXCEPT !.live = FALSE]
  BY Zenon
<1>10. tokens' = [tokens EXCEPT ![t] = e]
  BY <1>1, <1>9
<1>11. /\ tokens' \in Seq(Issued) /\ Len(tokens') = Len(tokens) /\ tokens'[t] = e
       /\ \A u \in 1..Len(tokens) : u # t => tokens'[u] = tokens[u]
  BY <1>1, <1>8, <1>9, <1>10
<1>12. \A u \in 1..Len(tokens) : tokens'[u].user = tokens[u].user /\ tokens'[u].expires = tokens[u].expires
  BY <1>8, <1>9, <1>11, Zenon
<1>13. \A u : Presented(connects', u) <=> Presented(connects, u) \/ u = t
  <2>1. 1..(n + 1) = (1..n) \cup {n + 1}
    BY <1>2
  <2> QED
    BY <1>2, <1>6, <1>7, <2>1 DEF Presented
<1>14. \A u \in 1..Len(tokens') : tokens'[u].live <=> ~Presented(connects', u)
  BY <1>8, <1>9, <1>11, <1>13, Zenon DEF RegistryInv
<1>15. ASSUME NEW i \in 1..Len(connects') PROVE Stands(connects', tokens', i)
  <2>1. CASE i \in 1..n
    <3>1. Stands(connects, tokens', i)
      <4>1. Kept(tokens, tokens')
        BY <1>1, <1>11, <1>12 DEF Kept
      <4>2. Stands(connects, tokens, i)
        BY <1>2, <2>1 DEF RegistryInv
      <4> QED
        BY <1>1, <1>2, <2>1, <4>1, <4>2, StandsStill
    <3>2. \A j \in 1..(i - 1) : connects'[j] = connects[j]
      BY <1>2, <1>7, <2>1
    <3>3. connects'[i] = connects[i]
      BY <1>7, <2>1
    <3> QED
      BY <3>1, <3>2, <3>3, Zenon DEF Stands
  <2>2. CASE i \notin 1..n
    <3>1. i = n + 1 /\ i - 1 = n
      BY <1>2, <1>7, <2>2
    <3>2. (\A j \in 1..(i - 1) : connects'[j].token # t) <=> tokens[t].live
      <4>1. tokens[t].live <=> ~Presented(connects, t)
        BY <1>1 DEF RegistryInv
      <4>2. (\A j \in 1..(i - 1) : connects'[j].token # t) <=> ~Presented(connects, t)
        BY <1>2, <1>7, <3>1 DEF Presented
      <4> QED
        BY <4>1, <4>2, Zenon
    <3>3. connects'[i] = k /\ tokens'[t].expires = tokens[t].expires /\ tokens'[t].user = tokens[t].user /\ t \in 1..Len(tokens')
      BY <1>1, <1>7, <1>11, <1>12, <3>1, Zenon
    <3>4. k.status # "DENIED" <=> (\A j \in 1..(i - 1) : connects'[j].token # t) /\ time <= tokens'[t].expires
      BY <1>3, <1>5, <1>6, <3>2, <3>3
    <3>5. status = "ACCEPTED" => status = statusFor(tokens[t].user[1], r)
      BY <1>4
    <3> QED
      BY <1>6, <3>3, <3>4, <3>5, StatusByRule DEF Stands
  <2> QED
    BY <2>1, <2>2
<1> QED
  BY <1>1, <1>7, <1>11, <1>14, <1>15, Zenon DEF RegistryInv

\* Every answer that Connect gave stands, whatever was discovered and asked since.
THEOREM RegistryInvariant == RegistrySpec => []RegistryInv
<1>1. RegistryInit => RegistryInv
  BY DEF RegistryInit, RegistryInv
<1>2. RegistryInv /\ [RegistryNext]_registryVars => RegistryInv'
  <2> SUFFICES ASSUME RegistryInv, [RegistryNext]_registryVars PROVE RegistryInv'
    OBVIOUS
  <2>1. CASE UNCHANGED registryVars
    BY <2>1 DEF registryVars, RegistryInv
  <2>2. CASE Pass
    BY <2>2 DEF Pass, RegistryInv
  <2>3. ASSUME NEW q \in Queries, Discover(q) PROVE RegistryInv'
    BY <2>3, DiscoverIssues
  <2>4. ASSUME NEW t \in DOMAIN tokens, NEW r \in Requesters, Connect(t, r) PROVE RegistryInv'
    BY <2>4, ConnectAnswers
  <2> QED
    BY <2>1, <2>2, <2>3, <2>4 DEF RegistryNext
<1> QED
  BY <1>1, <1>2, PTL DEF RegistrySpec

\* A token gives one session at most, in its time, by the rule of its application:
\* ConnectsAsIssued.
THEOREM TokensConnectAsIssued == RegistrySpec => []ConnectsAsIssued
<1>1. RegistryInv => ConnectsAsIssued
  <2> SUFFICES ASSUME RegistryInv PROVE ConnectsAsIssued
    OBVIOUS
  <2>1. connects \in Seq(Answered) /\ DOMAIN connects = 1..Len(connects) /\ Len(connects) \in Nat
    BY DEF RegistryInv
  <2>2. \A i \in 1..Len(connects) : Stands(connects, tokens, i)
    BY DEF RegistryInv
  <2>3. ASSUME NEW i \in sessions, NEW j \in sessions, connects[i].token = connects[j].token PROVE i = j
    <3>1. i \in 1..Len(connects) /\ j \in 1..Len(connects) /\ connects[i].status # "DENIED" /\ connects[j].status # "DENIED"
      BY <2>1, Zenon DEF sessions
    <3>2. i \notin 1..(j - 1) /\ j \notin 1..(i - 1)
      BY <2>2, <2>3, <3>1, StandsBy, Zenon
    <3>3. \A a, b, n \in Nat : a \in 1..n /\ b \in 1..n /\ a \notin 1..(b - 1) /\ b \notin 1..(a - 1) => a = b
      OBVIOUS
    <3>4. i \in Nat /\ j \in Nat
      BY <3>1
    <3> QED
      BY <2>1, <3>1, <3>2, <3>3, <3>4, Zenon
  <2>4. ASSUME NEW i \in DOMAIN connects, \A j \in 1..(i - 1) : connects[j].token # connects[i].token,
               connects[i].at <= tokens[connects[i].token].expires
        PROVE  i \in sessions
    BY <2>1, <2>2, <2>4, StandsBy, Zenon DEF sessions
  <2>5. AcceptedByItsOwnApp
    BY <2>1, <2>2, Zenon DEF AcceptedByItsOwnApp, Stands
  <2> QED
    BY <2>3, <2>4, <2>5 DEF ConnectsAsIssued, TokenConnectsOnce
<1> QED
  BY <1>1, RegistryInvariant, PTL
-----------------------------------------------------------------------------
(***************************************************************************)
(* The reload of the configuration, for any files and any interleaving of  *)
(* the watcher and administrators.                                         *)
(***************************************************************************)

\* What goroutines that bring a configuration may be about to do: a file that is
\* about to be stored is one that loads
Holding == {[pc |-> "install", file |-> f] : f \in loadable}

\* The active configuration is a valid one, made from one file or by a PUT, and that
\* of the start until one is stored.
ReloadInv ==
  /\ disk.file \in Files
  /\ watcher \in {resting, [pc |-> "load"]} \cup Holding
  /\ admin \in [Admins -> {resting} \cup Holding]
  /\ Validates(engineCfg)
  /\ ReloadForgets
  /\ installed \/ (engineCfg = startCfg /\ (trail = noRows \/ trail.engine = startCfg.PolicyVersion))
  /\ trail.gateway \in {"", startCfg.PolicyVersion}
  /\ \E e, g : trail = [engine |-> e, gateway |-> g]

\* What Engine.Reload stores from a file
LEMMA FileLoads ==
  ASSUME NEW f \in loadable
  PROVE  f \in Files /\ f.parses /\ Validates(loaded[f])
BY DEF loadable, loaded, Loads

\* What a goroutine is about to store came from a file that loads.
LEMMA HeldFile ==
  ASSUME NEW k \in Holding
  PROVE  k.pc = "install" /\ k.file \in loadable
BY DEF Holding

\* A goroutine that is about to store a configuration holds a file.
LEMMA AboutToInstall ==
  ASSUME NEW k \in {resting, [pc |-> "load"]} \cup Holding, k.pc = "install"
  PROVE  k \in Holding
<1>1. resting.pc = "rest" /\ [pc |-> "load"].pc = "load"
  BY DEF resting
<1> QED
  BY <1>1

\* Where the active configuration came from, while a watcher and administrators replace it.
THEOREM ReloadInvariant == ReloadSpec => []ReloadInv
<1>1. ReloadInit => ReloadInv
  <2> SUFFICES ASSUME ReloadInit PROVE ReloadInv
    OBVIOUS
  <2>1. StartFile \in loadable
    BY ReloadAssumption DEF loadable
  <2>2. disk.file = StartFile /\ trail.gateway = ""
    BY DEF ReloadInit, noRows
  <2>3. \E e, g : trail = [engine |-> e, gateway |-> g]
    BY DEF ReloadInit, noRows
  <2> QED
    BY <2>1, <2>2, <2>3, FileLoads DEF ReloadInit, ReloadInv, ReloadForgets
<1>2. ReloadInv /\ [ReloadNext]_reloadVars => ReloadInv'
  <2> SUFFICES ASSUME ReloadInv, [ReloadNext]_reloadVars PROVE ReloadInv'
    OBVIOUS
  <2>1. CASE UNCHANGED reloadVars
    BY <2>1 DEF reloadVars, ReloadInv, ReloadForgets
  <2>2. ASSUME NEW f \in Files, NEW m, Save(f, m) PROVE ReloadInv'
    <3>1. disk'.file = f /\ UNCHANGED <<watcher, admin, engineCfg, startCfg, source, installed, trail>>
      BY <2>2 DEF Save
    <3> QED
      BY <3>1 DEF ReloadInv, ReloadForgets
  <2>3. CASE FirstTick \/ LaterTick \/ WatchLoad \/ WatchLoadFails
    <3>1. UNCHANGED <<disk, admin, engineCfg, startCfg, source, installed, trail>>
      BY <2>3 DEF FirstTick, LaterTick, WatchLoad, WatchLoadFails
    <3>2. watcher' \in {resting, [pc |-> "load"]} \cup Holding
      BY <2>3 DEF FirstTick, LaterTick, WatchLoad, WatchLoadFails, ReloadInv, Holding
    <3> QED
      BY <3>1, <3>2 DEF ReloadInv, ReloadForgets
  <2>4. ASSUME NEW f \in loadable, ReloadFile(f), UNCHANGED <<disk, startCfg, trail>>,
               watcher' \in {resting, [pc |-> "load"]} \cup Holding, admin' \in [Admins -> {resting} \cup Holding]
        PROVE  ReloadInv'
    <3>1. engineCfg' = loaded[f] /\ source' = f /\ installed'
      BY <2>4 DEF ReloadFile
    <3> QED
      BY <2>4, <3>1, FileLoads DEF ReloadInv, ReloadForgets
  <2>5. CASE WatchInstall
    <3>1. watcher \in Holding
      BY <2>5, AboutToInstall DEF WatchInstall, ReloadInv
    <3> QED
      BY <2>4, <2>5, <3>1, HeldFile DEF WatchInstall, ReloadInv
  <2>6. ASSUME NEW a \in Admins, PostReload(a) PROVE ReloadInv'
    <3>1. UNCHANGED <<disk, watcher, engineCfg, startCfg, source, installed, trail>>
      BY <2>6 DEF PostReload
    <3>2. admin' \in [Admins -> {resting} \cup Holding]
      BY <2>6 DEF PostReload, ReloadInv, Holding
    <3> QED
      BY <3>1, <3>2 DEF ReloadInv, ReloadForgets
  <2>7. ASSUME NEW a \in Admins, PostInstall(a) PROVE ReloadInv'
    <3>1. admin[a] \in Holding
      BY <2>7, AboutToInstall DEF PostInstall, ReloadInv
    <3>2. admin' \in [Admins -> {resting} \cup Holding]
      BY <2>7 DEF PostInstall, ReloadInv
    <3> QED
      BY <2>4, <2>7, <3>1, <3>2, HeldFile DEF PostInstall, ReloadInv
  <2>8. ASSUME NEW a \in Admins, NEW c \in PutConfigs, PutConfig(a, c) PROVE ReloadInv'
    <3>1. Validates(engineCfg') /\ installed' /\ ~source'.parses /\ UNCHANGED <<disk, watcher, admin, startCfg, trail>>
      BY <2>8 DEF PutConfig
    <3> QED
      BY <3>1 DEF ReloadInv, ReloadForgets
  <2>9. CASE EvaluateRow
    <3>1. UNCHANGED <<disk, watcher, admin, engineCfg, startCfg, source, installed>>
      BY <2>9 DEF EvaluateRow
    <3>2. trail' = [engine |-> engineCfg.PolicyVersion, gateway |-> ""]
      BY <2>9 DEF EvaluateRow
    <3>3. trail'.engine = engineCfg.PolicyVersion /\ trail'.gateway = "" /\ \E e, g : trail' = [engine |-> e, gateway |-> g]
      BY <3>2
    <3> QED
      BY <3>1, <3>3 DEF ReloadInv, ReloadForgets
  <2>10. CASE GatewayRow
    <3>1. UNCHANGED <<disk, watcher, admin, engineCfg, startCfg, source, installed>> /\ trail # noRows
      BY <2>10 DEF GatewayRow
    <3>2. PICK e, g : trail = [engine |-> e, gateway |-> g]
      BY DEF ReloadInv
    <3>3. trail' = [engine |-> e, gateway |-> startCfg.PolicyVersion]
      BY <2>10, <3>2 DEF GatewayRow
    <3>4. trail'.engine = trail.engine /\ trail'.gateway = startCfg.PolicyVersion /\ \E x, y : trail' = [engine |-> x, gateway |-> y]
      BY <3>2, <3>3, Zenon
    <3> QED
      BY <3>1, <3>4 DEF ReloadInv, ReloadForgets
  <2> QED
    BY <2>1, <2>2, <2>3, <2>5, <2>6, <2>7, <2>8, <2>9, <2>10, Zenon DEF ReloadNext
<1> QED
  BY <1>1, <1>2, PTL DEF ReloadSpec

\* After a reload the node runs with what a node started with that file would run with,
\* whatever was PUT or loaded before: ReloadForgets.
THEOREM ReloadsForget == ReloadSpec => []ReloadForgets
<1>1. ReloadInv => ReloadForgets
  BY DEF ReloadInv
<1> QED
  BY <1>1, ReloadInvariant, PTL

\* The engine never has a configuration that Validate refuses.
THEOREM ActiveConfigIsValid == ReloadSpec => []Validates(engineCfg)
<1>1. ReloadInv => Validates(engineCfg)
  BY DEF ReloadInv
<1> QED
  BY <1>1, ReloadInvariant, PTL

\* The two rows of a decision name different policies only if one was loaded since the
\* start: RowsDifferOnlyAfterReload.
THEOREM RowsDifferAfterReload == ReloadSpec => []RowsDifferOnlyAfterReload
<1>1. noRows.gateway = ""
  BY DEF noRows
<1>2. ReloadInv => RowsDifferOnlyAfterReload
  BY <1>1 DEF ReloadInv, RowsDifferOnlyAfterReload
<1> QED
  BY <1>2, ReloadInvariant, PTL
=============================================================================

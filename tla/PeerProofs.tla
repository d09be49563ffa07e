----------------------------- MODULE PeerProofs -----------------------------
(***************************************************************************)
(* Proofs about the traffic of a node with its peers: the link to a peer,  *)
(* gossip, the cut-off window, and the end of it all when the node stops.  *)
(***************************************************************************)
EXTENDS PeerLink, PeerGossip, CutoffWindow, NodeStop, TLAPS

-----------------------------------------------------------------------------
(***************************************************************************)
(* Proofs about the link to a peer, for any senders, addresses, regions    *)
(* and number of sends.  The connection a send has dialled and not added   *)
(* is its own, which is why closing it cannot take it from another send;   *)
(* every number given out is at most the counter of its region.            *)
(***************************************************************************)

Sends == [pc: {"lookup", "dial", "add", "invoke"}, addr: LinkAddrs, conn: Nat, number: Regions \X Nat]

LinkTypes ==
  /\ pool \in [LinkAddrs -> Nat]
  /\ shut \subseteq Nat
  /\ dials \in Nat
  /\ poolClosed \in BOOLEAN
  /\ sender \in [Senders -> Sends \cup {noSend}]
  /\ seqSend \in [Regions -> Nat]
  /\ seqRecv \in [LinkAddrs -> Nat]
  /\ received \in [LinkAddrs -> SUBSET (Regions \X Nat)]

\* The connections that were dialled so far bound all others.
Dialled ==
  /\ \A c \in shut : c <= dials
  /\ \A a \in LinkAddrs : pool[a] <= dials
  /\ \A s \in Senders : sender[s] # noSend => sender[s].conn <= dials

\* What the pool holds is open.
PooledIsOpen == \A a \in LinkAddrs : pool[a] # 0 => pool[a] \notin shut

\* What a send has dialled and not added is open, and nobody else has it.
DialledIsOwn ==
  \A s \in Senders : sender[s].pc = "add" =>
    /\ sender[s].conn # 0 /\ sender[s].conn \notin shut
    /\ \A a \in LinkAddrs : pool[a] # sender[s].conn
    /\ \A t \in Senders \ {s} : sender[t] # noSend => sender[t].conn # sender[s].conn

ConnInv == Dialled /\ PooledIsOpen /\ DialledIsOwn /\ OpenIsPooled /\ UsedIsOpen

\* Numbers given out are at most the counter of their region.
NumbersBelow ==
  /\ \A s \in Senders : sender[s] # noSend => sender[s].number[2] <= seqSend[sender[s].number[1]]
  /\ \A a \in LinkAddrs : \A n \in received[a] : n[2] <= seqSend[n[1]]

NumberInv == NumbersBelow /\ NumberedOnce

\* The fields of a send that has begun
LEMMA SendFields ==
  ASSUME LinkTypes, NEW s \in Senders, sender[s] # noSend
  PROVE  /\ sender[s] \in Sends
         /\ sender[s].addr \in LinkAddrs /\ sender[s].conn \in Nat
         /\ sender[s].number \in Regions \X Nat
BY DEF LinkTypes, Sends

\* Every step of the link keeps the types of its variables, for any parameters.
LEMMA LinkTypesKept ==
  ASSUME LinkTypes, [LinkNext]_linkVars
  PROVE  LinkTypes'
<1>1. ASSUME NEW s \in Senders, NEW r \in Regions, NEW a \in LinkAddrs, Number(s, r, a) PROVE LinkTypes'
  BY <1>1 DEF Number, LinkTypes, Sends
<1>2. ASSUME NEW s \in Senders, Lookup(s) PROVE LinkTypes'
  <2>1. sender[s] # noSend
    BY <1>2 DEF Lookup, noSend
  <2>2. sender[s] \in Sends /\ sender[s].addr \in LinkAddrs
    BY <2>1, SendFields
  <2> QED
    BY <1>2, <2>1, <2>2, Zenon DEF Lookup, LinkTypes, Sends
<1>3. ASSUME NEW s \in Senders, Dial(s) PROVE LinkTypes'
  <2>1. sender[s] # noSend
    BY <1>3 DEF Dial, noSend
  <2>2. sender[s] \in Sends
    BY <2>1, SendFields
  <2>3. dials + 1 \in Nat
    BY DEF LinkTypes
  <2>4. sender' \in [Senders -> Sends \cup {noSend}]
    <3>1. [[sender[s] EXCEPT !.pc = "add"] EXCEPT !.conn = dials + 1] \in Sends
      BY <2>2, <2>3, Zenon DEF Sends
    <3> QED
      BY <1>3, <3>1 DEF Dial, LinkTypes
  <2> QED
    BY <1>3, <2>3, <2>4 DEF Dial, LinkTypes
<1>4. ASSUME NEW s \in Senders, DialFails(s) PROVE LinkTypes'
  BY <1>4 DEF DialFails, LinkTypes
<1>5. ASSUME NEW s \in Senders, Add(s) PROVE LinkTypes'
  <2>1. sender[s] # noSend
    BY <1>5 DEF Add, noSend
  <2>2. sender[s] \in Sends /\ sender[s].addr \in LinkAddrs /\ sender[s].conn \in Nat
    BY <2>1, SendFields
  <2> QED
    BY <1>5, <2>1, <2>2, Zenon DEF Add, LinkTypes, Sends
<1>6. ASSUME NEW s \in Senders, Invoke(s) PROVE LinkTypes'
  <2>1. sender[s] # noSend
    BY <1>6 DEF Invoke, noSend
  <2>2. sender[s].number \in Regions \X Nat /\ sender[s].addr \in LinkAddrs /\ sender[s].number[2] \in Nat
    BY <2>1, SendFields
  <2> QED
    BY <1>6, <2>1, <2>2 DEF Invoke, validate, LinkTypes
<1>7. ASSUME NEW s \in Senders, InvokeFails(s) PROVE LinkTypes'
  BY <1>7 DEF InvokeFails, LinkTypes
<1>8. ASSUME ClosePool PROVE LinkTypes'
  BY <1>8, Zenon DEF ClosePool, LinkTypes
<1>9. ASSUME UNCHANGED linkVars PROVE LinkTypes'
  BY <1>9 DEF linkVars, LinkTypes
<1> QED
  BY <1>1, <1>2, <1>3, <1>4, <1>5, <1>6, <1>7, <1>8, <1>9 DEF LinkNext, SendStep

\* Taking a number leaves connections alone.
LEMMA NumberKeepsConns ==
  ASSUME LinkTypes, ConnInv, NEW s \in Senders, NEW r \in Regions, NEW a \in LinkAddrs, Number(s, r, a)
  PROVE  ConnInv'
<1>1. /\ sender'[s].pc = "lookup" /\ sender'[s].conn = 0
      /\ \A t \in Senders \ {s} : sender'[t] = sender[t]
      /\ UNCHANGED <<pool, shut, dials, poolClosed>>
  BY DEF Number, LinkTypes
<1>2. sender[s].pc = "idle" /\ sender[s] = noSend
  BY DEF Number, noSend
<1>3. Dialled'
  BY <1>1 DEF ConnInv, Dialled, LinkTypes
<1>4. PooledIsOpen'
  BY <1>1 DEF ConnInv, PooledIsOpen
<1>5. DialledIsOwn'
  BY <1>1 DEF ConnInv, DialledIsOwn
<1>6. OpenIsPooled'
  BY <1>1, <1>2 DEF ConnInv, OpenIsPooled
<1>7. UsedIsOpen'
  BY <1>1 DEF ConnInv, UsedIsOpen
<1> QED
  BY <1>3, <1>4, <1>5, <1>6, <1>7 DEF ConnInv

\* The first look at the pool takes an open connection, or none.
LEMMA LookupKeepsConns ==
  ASSUME LinkTypes, ConnInv, NEW s \in Senders, Lookup(s)
  PROVE  ConnInv'
<1> DEFINE a == sender[s].addr
           c == pool[a]
<1>1. sender[s].pc = "lookup" /\ sender[s] # noSend
  BY DEF Lookup, noSend
<1>2. a \in LinkAddrs /\ c \in Nat /\ sender[s] \in Sends
  BY <1>1, SendFields DEF LinkTypes
<1>3. c # 0 => c \notin shut
  BY <1>2 DEF ConnInv, PooledIsOpen
<1>4. pool' = pool
  BY <1>2, <1>3 DEF Lookup, LinkTypes
<1>5. /\ sender'[s].pc = (IF c # 0 THEN "invoke" ELSE "dial") /\ sender'[s].conn = c
      /\ \A t \in Senders \ {s} : sender'[t] = sender[t]
      /\ UNCHANGED <<shut, dials, poolClosed>>
  BY <1>1, <1>2, <1>3 DEF Lookup, LinkTypes, Sends
<1>6. Dialled'
  BY <1>2, <1>4, <1>5 DEF ConnInv, Dialled
<1>7. PooledIsOpen'
  BY <1>4, <1>5 DEF ConnInv, PooledIsOpen
<1>8. DialledIsOwn'
  BY <1>2, <1>4, <1>5 DEF ConnInv, DialledIsOwn
<1>9. OpenIsPooled'
  BY <1>1, <1>4, <1>5 DEF ConnInv, OpenIsPooled
<1>10. UsedIsOpen'
  BY <1>3, <1>5 DEF ConnInv, UsedIsOpen
<1> QED
  BY <1>6, <1>7, <1>8, <1>9, <1>10 DEF ConnInv

\* A connection that is dialled is one that nobody has.
LEMMA DialKeepsConns ==
  ASSUME LinkTypes, ConnInv, NEW s \in Senders, Dial(s)
  PROVE  ConnInv'
<1>1. sender[s].pc = "dial" /\ sender[s] # noSend
  BY DEF Dial, noSend
<1>2. sender[s] \in Sends /\ dials \in Nat
  BY <1>1, SendFields DEF LinkTypes
<1>3. /\ sender'[s].pc = "add" /\ sender'[s].conn = dials + 1
      /\ \A t \in Senders \ {s} : sender'[t] = sender[t]
      /\ UNCHANGED <<pool, shut, poolClosed>> /\ dials' = dials + 1
  BY <1>1, <1>2 DEF Dial, LinkTypes, Sends
<1>4. \A t \in Senders : sender[t] # noSend => sender[t].conn \in Nat
  BY SendFields
<1>5. Dialled'
  BY <1>2, <1>3, <1>4 DEF ConnInv, Dialled, LinkTypes
<1>6. PooledIsOpen'
  BY <1>3 DEF ConnInv, PooledIsOpen
<1>7. /\ dials + 1 # 0 /\ dials + 1 \notin shut
      /\ \A a \in LinkAddrs : pool[a] # dials + 1
      /\ \A t \in Senders : sender[t] # noSend => sender[t].conn # dials + 1
  BY <1>2, <1>4 DEF ConnInv, Dialled, LinkTypes
<1>8. \A t \in Senders : sender[t].pc = "add" => sender[t] # noSend
  BY DEF noSend
<1>9. DialledIsOwn'
  BY <1>3, <1>7, <1>8 DEF ConnInv, DialledIsOwn
<1>10. OpenIsPooled'
  <2>1. ASSUME NEW c \in (1..(dials + 1)) \ shut, c # dials + 1 PROVE c \in (1..dials) \ shut
    BY <1>2, <2>1
  <2>2. ASSUME NEW c \in (1..(dials + 1)) \ shut
        PROVE  \/ \E a \in LinkAddrs : pool'[a] = c
               \/ \E t \in Senders : sender'[t].pc = "add" /\ sender'[t].conn = c
    <3>1. CASE c = dials + 1
      BY <1>3, <3>1
    <3>2. CASE c # dials + 1
      BY <1>1, <1>3, <2>1, <3>2 DEF ConnInv, OpenIsPooled
    <3> QED
      BY <3>1, <3>2
  <2> QED
    BY <1>3, <2>2 DEF OpenIsPooled
<1>11. UsedIsOpen'
  BY <1>3 DEF ConnInv, UsedIsOpen
<1> QED
  BY <1>5, <1>6, <1>9, <1>10, <1>11 DEF ConnInv

\* A send that fails to connect has no connection to give up.
LEMMA DialFailsKeepsConns ==
  ASSUME LinkTypes, ConnInv, NEW s \in Senders, DialFails(s)
  PROVE  ConnInv'
<1>1. sender[s].pc = "dial" /\ sender'[s] = noSend /\ noSend.pc = "idle"
  BY DEF DialFails, noSend, LinkTypes
<1>2. /\ \A t \in Senders \ {s} : sender'[t] = sender[t]
      /\ UNCHANGED <<pool, shut, dials, poolClosed>>
  BY DEF DialFails, LinkTypes
<1>3. Dialled'
  BY <1>1, <1>2 DEF ConnInv, Dialled
<1>4. PooledIsOpen'
  BY <1>2 DEF ConnInv, PooledIsOpen
<1>5. DialledIsOwn'
  BY <1>1, <1>2 DEF ConnInv, DialledIsOwn
<1>6. OpenIsPooled'
  BY <1>1, <1>2 DEF ConnInv, OpenIsPooled
<1>7. UsedIsOpen'
  BY <1>1, <1>2 DEF ConnInv, UsedIsOpen
<1> QED
  BY <1>3, <1>4, <1>5, <1>6, <1>7 DEF ConnInv

\* The second look at the pool: of two connections to an address the pool keeps one, and
\* the send that dialled the other closes it, which only it has.
LEMMA AddKeepsConns ==
  ASSUME LinkTypes, ConnInv, NEW s \in Senders, Add(s)
  PROVE  ConnInv'
<1> DEFINE a == sender[s].addr
           c == sender[s].conn
           use == IF pool[a] # 0 THEN pool[a] ELSE c
<1>1. sender[s].pc = "add" /\ sender[s] # noSend
  BY DEF Add, noSend
<1>2. a \in LinkAddrs /\ c \in Nat /\ sender[s] \in Sends /\ pool[a] \in Nat
  BY <1>1, SendFields DEF LinkTypes
<1>3. /\ sender'[s].pc = "invoke" /\ sender'[s].conn = use
      /\ \A t \in Senders \ {s} : sender'[t] = sender[t]
      /\ UNCHANGED <<dials, poolClosed>>
  BY <1>1, <1>2 DEF Add, LinkTypes, Sends
<1>4. pool'[a] = use /\ \A b \in LinkAddrs \ {a} : pool'[b] = pool[b]
  BY <1>2 DEF Add, LinkTypes
<1>5. shut' = IF pool[a] # 0 THEN shut \cup {c} ELSE shut
  BY DEF Add
<1>6. /\ c # 0 /\ c \notin shut
      /\ \A b \in LinkAddrs : pool[b] # c
      /\ \A t \in Senders \ {s} : sender[t] # noSend => sender[t].conn # c
  BY <1>1 DEF ConnInv, DialledIsOwn
<1>7. use \in Nat /\ use # 0 /\ use \notin shut'
  BY <1>2, <1>5, <1>6 DEF ConnInv, PooledIsOpen
<1>8. c <= dials /\ use <= dials
  BY <1>1, <1>2 DEF ConnInv, Dialled
<1>9. \A t \in Senders : sender[t].pc \in {"add", "invoke"} => sender[t] # noSend
  BY DEF noSend
<1>10. Dialled'
  BY <1>2, <1>3, <1>4, <1>5, <1>8 DEF ConnInv, Dialled
<1>11. PooledIsOpen'
  BY <1>4, <1>5, <1>6, <1>7 DEF ConnInv, PooledIsOpen
<1>12. DialledIsOwn'
  <2> SUFFICES ASSUME NEW t \in Senders, sender'[t].pc = "add"
               PROVE  /\ sender'[t].conn # 0 /\ sender'[t].conn \notin shut'
                      /\ \A b \in LinkAddrs : pool'[b] # sender'[t].conn
                      /\ \A u \in Senders \ {t} : sender'[u] # noSend => sender'[u].conn # sender'[t].conn
    BY DEF DialledIsOwn
  <2>1. t # s /\ sender'[t] = sender[t] /\ sender[t].pc = "add" /\ sender[t] # noSend
    BY <1>3, <1>9
  <2>2. /\ sender[t].conn # 0 /\ sender[t].conn \notin shut /\ sender[t].conn # c
        /\ \A b \in LinkAddrs : pool[b] # sender[t].conn
        /\ \A u \in Senders \ {t} : sender[u] # noSend => sender[u].conn # sender[t].conn
    BY <1>6, <2>1 DEF ConnInv, DialledIsOwn
  <2>3. use # sender[t].conn
    BY <1>2, <2>2
  <2> QED
    BY <1>3, <1>4, <1>5, <2>1, <2>2, <2>3
<1>13. OpenIsPooled'
  <2> SUFFICES ASSUME NEW d \in (1..dials) \ shut'
               PROVE  \/ \E b \in LinkAddrs : pool'[b] = d
                      \/ \E t \in Senders : sender'[t].pc = "add" /\ sender'[t].conn = d
    BY <1>3 DEF OpenIsPooled
  <2>1. d \in (1..dials) \ shut
    BY <1>5
  <2>2. CASE d = c
    <3>1. pool[a] = 0
      BY <1>5, <2>2
    <3> QED
      BY <1>2, <1>4, <2>2, <3>1
  <2>3. CASE \E b \in LinkAddrs : pool[b] = d
    <3>1. PICK b \in LinkAddrs : pool[b] = d
      BY <2>3
    <3>2. d # 0
      OBVIOUS
    <3> QED
      BY <1>4, <3>1, <3>2
  <2>4. CASE d # c /\ \E t \in Senders : sender[t].pc = "add" /\ sender[t].conn = d
    <3>1. PICK t \in Senders : sender[t].pc = "add" /\ sender[t].conn = d
      BY <2>4
    <3> QED
      BY <1>3, <2>4, <3>1
  <2> QED
    BY <2>1, <2>2, <2>3, <2>4 DEF ConnInv, OpenIsPooled
<1>14. UsedIsOpen'
  <2> SUFFICES ASSUME NEW t \in Senders, sender'[t].pc = "invoke"
               PROVE  sender'[t].conn \notin shut' \/ poolClosed
    BY <1>3 DEF UsedIsOpen
  <2>1. CASE t = s
    BY <1>3, <1>7, <2>1
  <2>2. CASE t # s
    BY <1>3, <1>5, <1>6, <1>9, <2>2 DEF ConnInv, UsedIsOpen
  <2> QED
    BY <2>1, <2>2
<1> QED
  BY <1>10, <1>11, <1>12, <1>13, <1>14 DEF ConnInv

\* A send that is over leaves its connection to the pool.
LEMMA InvokeKeepsConns ==
  ASSUME LinkTypes, ConnInv, NEW s \in Senders, Invoke(s) \/ InvokeFails(s)
  PROVE  ConnInv'
<1>1. sender[s].pc = "invoke" /\ sender'[s] = noSend /\ noSend.pc = "idle"
  BY DEF Invoke, InvokeFails, noSend, LinkTypes
<1>2. /\ \A t \in Senders \ {s} : sender'[t] = sender[t]
      /\ UNCHANGED <<pool, shut, dials, poolClosed>>
  BY DEF Invoke, InvokeFails, LinkTypes
<1>3. Dialled'
  BY <1>1, <1>2 DEF ConnInv, Dialled
<1>4. PooledIsOpen'
  BY <1>2 DEF ConnInv, PooledIsOpen
<1>5. DialledIsOwn'
  BY <1>1, <1>2 DEF ConnInv, DialledIsOwn
<1>6. OpenIsPooled'
  BY <1>1, <1>2 DEF ConnInv, OpenIsPooled
<1>7. UsedIsOpen'
  BY <1>1, <1>2 DEF ConnInv, UsedIsOpen
<1> QED
  BY <1>3, <1>4, <1>5, <1>6, <1>7 DEF ConnInv

\* Close leaves a connection open only with the send that has yet to add it.
LEMMA CloseKeepsConns ==
  ASSUME LinkTypes, ConnInv, ClosePool
  PROVE  ConnInv'
<1>1. /\ poolClosed' = TRUE
      /\ shut' = shut \cup ({pool[a] : a \in LinkAddrs} \ {0})
      /\ \A a \in LinkAddrs : pool'[a] = 0
      /\ UNCHANGED <<dials, sender>>
  BY DEF ClosePool
<1>2. Dialled'
  BY <1>1 DEF ConnInv, Dialled, LinkTypes
<1>3. PooledIsOpen'
  BY <1>1 DEF PooledIsOpen
<1>4. DialledIsOwn'
  BY <1>1 DEF ConnInv, DialledIsOwn
<1>5. OpenIsPooled'
  <2> SUFFICES ASSUME NEW d \in (1..dials) \ shut'
               PROVE  \E t \in Senders : sender[t].pc = "add" /\ sender[t].conn = d
    BY <1>1 DEF OpenIsPooled
  <2>1. d \in (1..dials) \ shut /\ d # 0
    BY <1>1
  <2>2. \A a \in LinkAddrs : pool[a] # d
    BY <1>1, <2>1
  <2> QED
    BY <2>1, <2>2 DEF ConnInv, OpenIsPooled
<1>6. UsedIsOpen'
  BY <1>1 DEF UsedIsOpen
<1> QED
  BY <1>2, <1>3, <1>4, <1>5, <1>6 DEF ConnInv

\* Every step keeps what is true of connections.
LEMMA ConnsKept ==
  ASSUME LinkTypes, ConnInv, [LinkNext]_linkVars
  PROVE  ConnInv'
<1>1. ASSUME UNCHANGED linkVars PROVE ConnInv'
  BY <1>1 DEF linkVars, ConnInv, Dialled, PooledIsOpen, DialledIsOwn, OpenIsPooled, UsedIsOpen
<1> QED
  BY <1>1, NumberKeepsConns, LookupKeepsConns, DialKeepsConns, DialFailsKeepsConns, AddKeepsConns,
     InvokeKeepsConns, CloseKeepsConns DEF LinkNext, SendStep

\* Every step either takes a number above all others, ends a send, or leaves numbers alone.
LEMMA NumbersKept ==
  ASSUME LinkTypes, NumberInv, [LinkNext]_linkVars
  PROVE  NumberInv'
<1>1. ASSUME NEW s \in Senders, NEW r \in Regions, NEW a \in LinkAddrs, Number(s, r, a) PROVE NumberInv'
  <2> DEFINE n == <<r, seqSend[r] + 1>>
  <2>1. /\ sender'[s].number = n /\ sender'[s] # noSend
        /\ \A t \in Senders \ {s} : sender'[t] = sender[t]
        /\ seqSend'[r] = seqSend[r] + 1 /\ \A q \in Regions \ {r} : seqSend'[q] = seqSend[q]
        /\ UNCHANGED received
    BY <1>1 DEF Number, LinkTypes, noSend
  <2>2. \A q \in Regions : seqSend[q] \in Nat /\ seqSend'[q] \in Nat /\ seqSend[q] <= seqSend'[q]
    BY <2>1 DEF LinkTypes
  <2>3. \A t \in Senders : sender[t] # noSend =>
          sender[t].number \in Regions \X Nat /\ sender[t].number[1] \in Regions /\ sender[t].number[2] \in Nat
    BY SendFields
  <2>4. \A b \in LinkAddrs : \A k \in received[b] : k[1] \in Regions /\ k[2] \in Nat
    BY DEF LinkTypes
  <2>5. \A t \in Senders : sender[t] # noSend => sender[t].number # n
    BY <2>2, <2>3 DEF NumberInv, NumbersBelow
  <2>6. \A b \in LinkAddrs : n \notin received[b]
    <3> SUFFICES ASSUME NEW b \in LinkAddrs, n \in received[b] PROVE FALSE
      OBVIOUS
    <3>1. n[2] <= seqSend[n[1]]
      BY DEF NumberInv, NumbersBelow
    <3> QED
      BY <2>2, <3>1
  <2>7. NumbersBelow'
    <3>1. ASSUME NEW t \in Senders, sender'[t] # noSend
          PROVE  sender'[t].number[2] <= seqSend'[sender'[t].number[1]]
      <4>1. CASE t = s
        BY <2>1, <2>2, <4>1
      <4>2. CASE t # s
        BY <2>1, <2>2, <2>3, <3>1, <4>2 DEF NumberInv, NumbersBelow
      <4> QED
        BY <4>1, <4>2
    <3>2. ASSUME NEW b \in LinkAddrs, NEW k \in received'[b] PROVE k[2] <= seqSend'[k[1]]
      BY <2>1, <2>2, <2>4 DEF NumberInv, NumbersBelow
    <3> QED
      BY <3>1, <3>2 DEF NumbersBelow
  <2>8. NumberedOnce'
    BY <2>1, <2>5, <2>6 DEF NumberInv, NumberedOnce
  <2> QED
    BY <2>7, <2>8 DEF NumberInv
<1>2. ASSUME NEW s \in Senders, Lookup(s) \/ Dial(s) \/ Add(s) PROVE NumberInv'
  <2>1. sender[s] # noSend
    BY <1>2 DEF Lookup, Dial, Add, noSend
  <2>2. sender[s] \in Sends
    BY <2>1, SendFields
  <2>3. /\ sender'[s].number = sender[s].number
        /\ \A t \in Senders \ {s} : sender'[t] = sender[t]
        /\ UNCHANGED <<seqSend, received>>
    BY <1>2, <2>2 DEF Lookup, Dial, Add, LinkTypes, Sends
  <2> QED
    BY <2>1, <2>3 DEF NumberInv, NumbersBelow, NumberedOnce
<1>3. ASSUME NEW s \in Senders, DialFails(s) \/ InvokeFails(s) PROVE NumberInv'
  <2>1. /\ sender'[s] = noSend
        /\ \A t \in Senders \ {s} : sender'[t] = sender[t]
        /\ UNCHANGED <<seqSend, received>>
    BY <1>3 DEF DialFails, InvokeFails, LinkTypes
  <2> QED
    BY <2>1 DEF NumberInv, NumbersBelow, NumberedOnce
<1>4. ASSUME NEW s \in Senders, Invoke(s) PROVE NumberInv'
  <2>1. sender[s] # noSend
    BY <1>4 DEF Invoke, noSend
  <2>2. sender[s].addr \in LinkAddrs
    BY <2>1, SendFields
  <2>3. /\ sender'[s] = noSend
        /\ \A t \in Senders \ {s} : sender'[t] = sender[t]
        /\ \A b \in LinkAddrs : received'[b] \subseteq received[b] \cup {sender[s].number}
        /\ UNCHANGED seqSend
    BY <1>4, <2>2 DEF Invoke, LinkTypes
  <2>4. NumbersBelow'
    BY <2>1, <2>3 DEF NumberInv, NumbersBelow
  <2>5. NumberedOnce'
    BY <2>1, <2>3 DEF NumberInv, NumberedOnce
  <2> QED
    BY <2>4, <2>5 DEF NumberInv
<1>5. ASSUME ClosePool \/ UNCHANGED linkVars PROVE NumberInv'
  BY <1>5 DEF ClosePool, linkVars, NumberInv, NumbersBelow, NumberedOnce
<1> QED
  BY <1>1, <1>2, <1>3, <1>4, <1>5 DEF LinkNext, SendStep

\* A peer's counter follows the highest number it was given.
LEMMA HighestKept ==
  ASSUME LinkTypes, ExpectsTheHighest, [LinkNext]_linkVars
  PROVE  ExpectsTheHighest'
<1>1. ASSUME NEW s \in Senders, Invoke(s) PROVE ExpectsTheHighest'
  <2> DEFINE a == sender[s].addr
             n == sender[s].number
  <2>1. sender[s] # noSend
    BY <1>1 DEF Invoke, noSend
  <2>2. a \in LinkAddrs /\ n \in Regions \X Nat /\ n[2] \in Nat
    BY <2>1, SendFields
  <2>3. /\ received'[a] = received[a] \cup {n}
        /\ seqRecv'[a] = IF n[2] > seqRecv[a] THEN n[2] ELSE seqRecv[a]
        /\ \A b \in LinkAddrs \ {a} : received'[b] = received[b] /\ seqRecv'[b] = seqRecv[b]
    BY <1>1, <2>2 DEF Invoke, validate, LinkTypes
  <2>4. seqRecv[a] \in Nat /\ \A k \in received[a] : k[2] \in Nat
    BY <2>2 DEF LinkTypes
  <2>5. /\ \A k \in received[a] : k[2] <= seqRecv[a]
        /\ seqRecv[a] > 0 => \E k \in received[a] : k[2] = seqRecv[a]
    BY <2>2 DEF ExpectsTheHighest
  <2>6. \A k \in received'[a] : k[2] <= seqRecv'[a]
    BY <2>2, <2>3, <2>4, <2>5
  <2>7. seqRecv'[a] > 0 => \E k \in received'[a] : k[2] = seqRecv'[a]
    BY <2>3, <2>5
  <2>8. ASSUME NEW b \in LinkAddrs, b # a
        PROVE  /\ \A k \in received'[b] : k[2] <= seqRecv'[b]
               /\ seqRecv'[b] > 0 => \E k \in received'[b] : k[2] = seqRecv'[b]
    BY <2>3, <2>8 DEF ExpectsTheHighest
  <2> QED
    BY <2>6, <2>7, <2>8 DEF ExpectsTheHighest
<1>2. ASSUME UNCHANGED <<seqRecv, received>> PROVE ExpectsTheHighest'
  BY <1>2 DEF ExpectsTheHighest
<1> QED
  BY <1>1, <1>2, Zenon DEF LinkNext, SendStep, Number, Lookup, Dial, DialFails, Add, InvokeFails, ClosePool, linkVars

LinkInv == LinkTypes /\ ConnInv /\ NumberInv /\ ExpectsTheHighest

\* The inductive invariant of the link holds at all times, for any parameters.
THEOREM LinkInvariant == LinkSpec => []LinkInv
<1>1. LinkInit => LinkInv
  <2> SUFFICES ASSUME LinkInit PROVE LinkInv
    OBVIOUS
  <2>1. LinkTypes
    BY Zenon DEF LinkInit, LinkTypes
  <2>2. \A s \in Senders : sender[s] = noSend /\ sender[s].pc = "idle"
    BY DEF LinkInit, noSend
  <2>3. ConnInv
    BY <2>2 DEF LinkInit, ConnInv, Dialled, PooledIsOpen, DialledIsOwn, OpenIsPooled, UsedIsOpen
  <2>4. NumberInv
    BY <2>2 DEF LinkInit, NumberInv, NumbersBelow, NumberedOnce
  <2>5. ExpectsTheHighest
    BY DEF LinkInit, ExpectsTheHighest
  <2> QED
    BY <2>1, <2>3, <2>4, <2>5 DEF LinkInv
<1>2. LinkInv /\ [LinkNext]_linkVars => LinkInv'
  BY LinkTypesKept, ConnsKept, NumbersKept, HighestKept DEF LinkInv
<1> QED
  BY <1>1, <1>2, PTL DEF LinkSpec

\* No connection leaks and no send loses the connection it uses, however dials to one
\* address overlap and whenever the pool is closed.
THEOREM LinkConnections == LinkSpec => []PoolOwnsConnections
<1>1. LinkInv => PoolOwnsConnections
  BY DEF LinkInv, ConnInv, PoolOwnsConnections
<1> QED
  BY <1>1, LinkInvariant, PTL

\* A number is never on two envelopes for a region, however sends overlap and fail, and
\* a peer expects the one after the highest it has seen, in whatever order they come.
THEOREM LinkNumbers == LinkSpec => []NumbersCount
<1>1. LinkInv => NumbersCount
  BY DEF LinkInv, NumberInv, NumbersCount
<1> QED
  BY <1>1, LinkInvariant, PTL
-----------------------------------------------------------------------------
(***************************************************************************)
(* Gossip, for any nodes and links, any expiry and any interleaving of the *)
(* calls. A node knows the peer at the end of a steady link because the    *)
(* answer that renews the entry is never older than the entry is allowed   *)
(* to be: the invariant counts the intervals since the last answer.        *)
(***************************************************************************)

\* What is on its way is of listed peers too.
GossipListed ==
  /\ KnownIsListed
  /\ \A x \in pairs : answer[x] \subseteq listed

\* A peer at the end of a steady link is known and lists itself in its answers, and
\* the entry is not older than the last answer.  When the link has been silent as long
\* as it can be, the call of this interval is still under way.
SteadyLink(l) ==
  /\ age[l[1]][l[2]] >= 0 /\ age[l[1]][l[2]] <= silent[l]
  /\ silent[l] <= staleAge
  /\ answer[l] # {} => l[2] \in answer[l]
  /\ silent[l] = staleAge /\ l[1] \in ticked => l \in calls \/ answer[l] # {}

GossipInv ==
  /\ GossipTypeOK
  /\ \A n \in ticked : \A p \in GossipNodes : age[n][p] <= staleAge
  /\ GossipListed
  /\ \A l \in steadyLinks : SteadyLink(l)

\* A steady link by its ends
LEMMA LinkEnds ==
  ASSUME NEW l \in steadyLinks
  PROVE  l \in pairs /\ l[1] \in GossipNodes /\ l[2] \in GossipNodes /\ l = <<l[1], l[2]>> /\ l[2] \in staticPeers[l[1]]
BY GossipAssumption DEF pairs

\* The peers after Announce, EvictStale and a further interval
LEMMA RowSteps ==
  ASSUME NEW r \in [GossipNodes -> -1..(staleAge + 1)]
  PROVE  /\ \A P \in SUBSET GossipNodes :
              announce(r, P) \in [GossipNodes -> -1..(staleAge + 1)]
              /\ \A p \in GossipNodes : (p \in P => announce(r, P)[p] = 0) /\ (p \notin P => announce(r, P)[p] = r[p])
         /\ EvictStale(r) \in [GossipNodes -> -1..staleAge]
         /\ \A p \in GossipNodes : IF r[p] > staleAge THEN EvictStale(r)[p] = -1 ELSE EvictStale(r)[p] = r[p]
BY GossipAssumption DEF announce, EvictStale

\* At the start nothing is known and nothing is under way.
LEMMA GossipStart == GossipInit => GossipInv
<1> SUFFICES ASSUME GossipInit PROVE GossipInv
  OBVIOUS
<1>1. staleAge \in Nat /\ staleAge >= 2 /\ staticPeers \in [GossipNodes -> SUBSET GossipNodes] /\ bootstrap \subseteq pairs
  BY GossipAssumption DEF pairs
<1>2. age \in [GossipNodes -> [GossipNodes -> -1..(staleAge + 1)]]
  BY <1>1 DEF GossipInit
<1>3. GossipTypeOK
  BY <1>1, <1>2 DEF GossipInit, GossipTypeOK
<1>4. GossipListed
  BY <1>1 DEF GossipInit, GossipListed, KnownIsListed, known, listed
<1>5. ASSUME NEW l \in steadyLinks PROVE SteadyLink(l)
  BY <1>1, LinkEnds DEF GossipInit, SteadyLink
<1> QED
  BY <1>3, <1>4, <1>5 DEF GossipInv, GossipInit

\* A tick of a link starts a call when none is under way.
LEMMA TickKeeps ==
  ASSUME GossipInv, NEW n \in GossipNodes, GossipTick(n)
  PROVE  GossipInv'
<1>1. /\ age \in [GossipNodes -> [GossipNodes -> -1..(staleAge + 1)]] /\ ticked' = ticked \cup {n}
      /\ age' = [age EXCEPT ![n] = EvictStale(age[n])] /\ UNCHANGED <<answer, silent>> /\ staleAge \in Nat
  BY GossipAssumption DEF GossipInv, GossipTypeOK, GossipTick
<1>2. /\ EvictStale(age[n]) \in [GossipNodes -> -1..staleAge]
      /\ \A p \in GossipNodes : IF age[n][p] > staleAge THEN EvictStale(age[n])[p] = -1 ELSE EvictStale(age[n])[p] = age[n][p]
  BY <1>1, RowSteps
<1>3. /\ age' \in [GossipNodes -> [GossipNodes -> -1..(staleAge + 1)]]
      /\ \A p \in GossipNodes : age'[n][p] <= staleAge
      /\ \A m, p \in GossipNodes : age'[m][p] = age[m][p] \/ (m = n /\ age[n][p] > staleAge /\ age'[n][p] = -1)
  BY <1>1, <1>2
<1>4. calls' = calls \cup {<<n, p>> : p \in {p \in GossipNodes : age'[n][p] >= 0}}
  BY DEF GossipTick
<1>5. GossipTypeOK'
  BY <1>1, <1>3, <1>4 DEF GossipInv, GossipTypeOK, pairs
<1>6. GossipListed'
  BY <1>1, <1>3 DEF GossipInv, GossipListed, KnownIsListed, known
<1>7. ASSUME NEW l \in steadyLinks PROVE SteadyLink(l)'
  <2>1. SteadyLink(l)
    BY DEF GossipInv
  <2>2. age'[l[1]][l[2]] = age[l[1]][l[2]] /\ age[l[1]][l[2]] \in -1..(staleAge + 1) /\ silent[l] \in Nat
    BY <1>1, <1>3, <2>1, LinkEnds DEF SteadyLink, GossipInv, GossipTypeOK
  <2>3. l[1] \in ticked' => l[1] \in ticked \/ l \in calls'
    BY <1>1, <1>4, <2>1, <2>2, LinkEnds DEF SteadyLink
  <2> QED
    BY <1>1, <1>4, <2>1, <2>2, <2>3 DEF SteadyLink
<1>8. \A m \in ticked' : \A p \in GossipNodes : age'[m][p] <= staleAge
  BY <1>1, <1>3 DEF GossipInv, GossipTypeOK
<1> QED
  BY <1>5, <1>6, <1>7, <1>8 DEF GossipInv

\* A peer answers with what it knows and with itself.
LEMMA ServeKeeps ==
  ASSUME GossipInv, NEW n \in GossipNodes, NEW p \in GossipNodes, Serve(n, p)
  PROVE  GossipInv'
<1> DEFINE merged == announce(age[p], known(n))
           told == {q \in GossipNodes : merged[q] >= 0}
<1>1. /\ age \in [GossipNodes -> [GossipNodes -> -1..(staleAge + 1)]] /\ answer \in [pairs -> SUBSET GossipNodes]
      /\ age' = [age EXCEPT ![p] = merged] /\ answer' = [answer EXCEPT ![<<n, p>>] = told] /\ calls' = calls \ {<<n, p>>}
      /\ UNCHANGED <<ticked, silent>> /\ staleAge \in Nat /\ <<n, p>> \in pairs /\ known(n) \in SUBSET GossipNodes
  BY GossipAssumption DEF GossipInv, GossipTypeOK, Serve, pairs, known
<1>2. /\ merged \in [GossipNodes -> -1..(staleAge + 1)]
      /\ \A q \in GossipNodes : (q \in known(n) => merged[q] = 0) /\ (q \notin known(n) => merged[q] = age[p][q])
  BY <1>1, RowSteps, Zenon
<1>3. \A q \in GossipNodes : q \in told <=> q \in known(n) \/ q \in known(p)
  BY <1>2 DEF known
<1> HIDE DEF merged, told
<1>4. /\ age' \in [GossipNodes -> [GossipNodes -> -1..(staleAge + 1)]]
      /\ \A m, q \in GossipNodes : age'[m][q] = age[m][q] \/ (m = p /\ q \in known(n) /\ age'[m][q] = 0)
  BY <1>1, <1>2, Zenon
<1>5. told \in SUBSET GossipNodes /\ answer'[<<n, p>>] = told /\ \A x \in pairs : x # <<n, p>> => answer'[x] = answer[x]
  BY <1>1 DEF told
<1>6. GossipTypeOK'
  BY <1>1, <1>4, <1>5 DEF GossipInv, GossipTypeOK
<1>7. GossipListed'
  <2>1. \A m \in GossipNodes : known(m) \subseteq listed
    BY DEF GossipInv, GossipListed, KnownIsListed
  <2>2. told \subseteq listed
    BY <1>3, <1>5, <2>1
  <2>3. \A m \in GossipNodes : known(m)' \subseteq listed
    BY <1>4, <2>1 DEF known
  <2> QED
    BY <1>5, <2>2, <2>3 DEF GossipInv, GossipListed, KnownIsListed
<1>8. ASSUME NEW l \in steadyLinks PROVE SteadyLink(l)'
  <2>1. SteadyLink(l) /\ l \in pairs /\ l[1] \in GossipNodes /\ l[2] \in GossipNodes /\ l = <<l[1], l[2]>>
    BY LinkEnds DEF GossipInv
  <2>2. age[l[1]][l[2]] \in Int /\ silent[l] \in Nat /\ age'[l[1]][l[2]] >= 0 /\ age'[l[1]][l[2]] <= silent[l]
    <3>1. age[l[1]][l[2]] \in Int /\ silent[l] \in Nat
      BY <2>1 DEF GossipInv, GossipTypeOK
    <3>2. age[l[1]][l[2]] >= 0 /\ age[l[1]][l[2]] <= silent[l]
      BY <2>1 DEF SteadyLink
    <3> QED
      BY <1>4, <2>1, <3>1, <3>2
  <2>3. l = <<n, p>> => l[2] \in answer'[l]
    BY <1>3, <1>5, <2>1 DEF SteadyLink, known
  <2>4. l # <<n, p>> => answer'[l] = answer[l] /\ (l \in calls => l \in calls')
    BY <1>1, <1>5, <2>1
  <2> QED
    BY <1>1, <2>1, <2>2, <2>3, <2>4 DEF SteadyLink
<1>9. ASSUME NEW m \in ticked', NEW q \in GossipNodes PROVE age'[m][q] <= staleAge
  <2>1. m \in GossipNodes /\ age[m][q] <= staleAge
    BY <1>1 DEF GossipInv, GossipTypeOK
  <2>2. age'[m][q] = age[m][q] \/ age'[m][q] = 0
    BY <1>4, <2>1
  <2>3. \A i \in Nat : 0 <= i
    OBVIOUS
  <2> QED
    BY <1>1, <2>1, <2>2, <2>3
<1> QED
  BY <1>6, <1>7, <1>8, <1>9 DEF GossipInv

\* An answer renews the entries of the peers it lists.
LEMMA ApplyKeeps ==
  ASSUME GossipInv, NEW n \in GossipNodes, NEW p \in GossipNodes, ApplyAnswer(n, p)
  PROVE  GossipInv'
<1> DEFINE told == answer[<<n, p>>]
<1>1. /\ age \in [GossipNodes -> [GossipNodes -> -1..(staleAge + 1)]] /\ answer \in [pairs -> SUBSET GossipNodes]
      /\ age' = [age EXCEPT ![n] = announce(age[n], told)] /\ answer' = [answer EXCEPT ![<<n, p>>] = {}]
      /\ silent' = [x \in steadyLinks |-> IF x = <<n, p>> THEN 0 ELSE silent[x]]
      /\ UNCHANGED <<ticked, calls>> /\ staleAge \in Nat /\ staleAge >= 2 /\ <<n, p>> \in pairs /\ told # {}
  BY GossipAssumption, Zenon DEF GossipInv, GossipTypeOK, ApplyAnswer, pairs
<1>2. told \in SUBSET GossipNodes
  BY <1>1
<1>3. /\ announce(age[n], told) \in [GossipNodes -> -1..(staleAge + 1)]
      /\ \A q \in GossipNodes : (q \in told => announce(age[n], told)[q] = 0) /\ (q \notin told => announce(age[n], told)[q] = age[n][q])
  BY <1>1, <1>2, RowSteps, Zenon
<1>4. /\ age' \in [GossipNodes -> [GossipNodes -> -1..(staleAge + 1)]]
      /\ \A m, q \in GossipNodes : age'[m][q] = age[m][q] \/ (m = n /\ q \in told /\ age'[m][q] = 0)
      /\ \A q \in told : age'[n][q] = 0
  BY <1>1, <1>2, <1>3, Zenon
<1>5. answer'[<<n, p>>] = {} /\ \A x \in pairs : x # <<n, p>> => answer'[x] = answer[x]
  BY <1>1
<1>6. GossipTypeOK'
  <2>1. silent' \in [steadyLinks -> 0..(staleAge + 1)]
    BY <1>1 DEF GossipInv, GossipTypeOK
  <2>2. answer' \in [pairs -> SUBSET GossipNodes]
    BY <1>1
  <2> QED
    BY <1>1, <1>4, <2>1, <2>2, Zenon DEF GossipInv, GossipTypeOK
<1>7. GossipListed'
  <2>1. \A m \in GossipNodes : known(m) \subseteq listed
    BY DEF GossipInv, GossipListed, KnownIsListed
  <2>2. told \subseteq listed
    BY <1>1 DEF GossipInv, GossipListed
  <2>3. \A m \in GossipNodes : known(m)' \subseteq listed
    BY <1>4, <2>1, <2>2, Zenon DEF known
  <2> QED
    BY <1>5, <2>3 DEF GossipInv, GossipListed, KnownIsListed
<1>8. ASSUME NEW l \in steadyLinks PROVE SteadyLink(l)'
  <2>1. SteadyLink(l) /\ l \in pairs /\ l[1] \in GossipNodes /\ l[2] \in GossipNodes /\ l = <<l[1], l[2]>>
    BY LinkEnds DEF GossipInv
  <2>2. CASE l = <<n, p>>
    <3>1. age'[l[1]][l[2]] = 0 /\ silent'[l] = 0 /\ answer'[l] = {}
      BY <1>1, <1>4, <1>5, <2>1, <2>2, Zenon DEF SteadyLink
    <3> QED
      BY <1>1, <3>1 DEF SteadyLink
  <2>3. CASE l # <<n, p>>
    <3>1. silent'[l] = silent[l] /\ answer'[l] = answer[l] /\ silent[l] \in Nat
      BY <1>1, <1>5, <2>1, <2>3 DEF GossipInv, GossipTypeOK
    <3>2. age'[l[1]][l[2]] >= 0 /\ age'[l[1]][l[2]] <= silent[l]
      <4>1. age[l[1]][l[2]] >= 0 /\ age[l[1]][l[2]] <= silent[l]
        BY <2>1 DEF SteadyLink
      <4>2. age'[l[1]][l[2]] = age[l[1]][l[2]] \/ age'[l[1]][l[2]] = 0
        BY <1>4, <2>1
      <4> QED
        BY <3>1, <4>1, <4>2
    <3> QED
      BY <1>1, <2>1, <3>1, <3>2 DEF SteadyLink
  <2> QED
    BY <2>2, <2>3
<1>9. ASSUME NEW m \in ticked', NEW q \in GossipNodes PROVE age'[m][q] <= staleAge
  <2>1. m \in GossipNodes /\ age[m][q] <= staleAge
    BY <1>1 DEF GossipInv, GossipTypeOK
  <2>2. age'[m][q] = age[m][q] \/ age'[m][q] = 0
    BY <1>4, <2>1
  <2>3. \A i \in Nat : 0 <= i
    OBVIOUS
  <2> QED
    BY <1>1, <2>1, <2>2, <2>3, Zenon
<1> QED
  BY <1>6, <1>7, <1>8, <1>9 DEF GossipInv

\* A call that fails leaves the table as it was, and ends the steadiness of the link.
LEMMA FailKeeps ==
  ASSUME GossipInv, NEW n \in GossipNodes, NEW p \in GossipNodes, CallFails(n, p)
  PROVE  GossipInv'
<1>1. calls' = calls \ {<<n, p>>} /\ UNCHANGED <<age, ticked, answer, silent>> /\ (<<n, p>> \in steadyLinks => silent[<<n, p>>] < staleAge)
  BY DEF CallFails
<1>2. GossipTypeOK'
  BY <1>1 DEF GossipInv, GossipTypeOK
<1>3. GossipListed'
  BY <1>1 DEF GossipInv, GossipListed, KnownIsListed, known
<1>4. ASSUME NEW l \in steadyLinks PROVE SteadyLink(l)'
  <2>1. silent[l] \in Nat /\ staleAge \in Nat /\ SteadyLink(l)
    BY GossipAssumption DEF GossipInv, GossipTypeOK
  <2> QED
    BY <1>1, <2>1 DEF SteadyLink
<1> QED
  BY <1>1, <1>2, <1>3, <1>4 DEF GossipInv

\* When an interval goes by, every entry is one older, and one that is too old is dropped.
LEMMA IntervalKeeps ==
  ASSUME GossipInv, NextInterval
  PROVE  GossipInv'
<1>1. /\ ticked = GossipNodes /\ calls = {} /\ (\A x \in pairs : answer[x] = {}) /\ ticked' = {}
      /\ age' = [n \in GossipNodes |-> [p \in GossipNodes |-> older(age[n][p])]]
      /\ silent' = [x \in steadyLinks |-> older(silent[x])] /\ UNCHANGED <<calls, answer>>
      /\ staleAge \in Nat /\ staleAge >= 2
  BY GossipAssumption DEF NextInterval
<1>2. ASSUME NEW n \in GossipNodes, NEW p \in GossipNodes
      PROVE  /\ age[n][p] \in -1..staleAge /\ older(age[n][p]) \in -1..(staleAge + 1)
             /\ age[n][p] >= 0 => age'[n][p] = age[n][p] + 1
             /\ age[n][p] < 0 => age'[n][p] < 0
  <2>1. age[n][p] \in -1..(staleAge + 1) /\ age[n][p] <= staleAge /\ age'[n][p] = older(age[n][p])
    BY <1>1 DEF GossipInv, GossipTypeOK
  <2>2. \A i \in -1..(staleAge + 1) : i <= staleAge => i \in -1..staleAge /\ older(i) \in -1..(staleAge + 1)
                 /\ (i >= 0 => older(i) = i + 1) /\ (i < 0 => older(i) < 0)
    BY <1>1 DEF older
  <2> QED
    BY <2>1, <2>2
<1>3. ASSUME NEW l \in steadyLinks
      PROVE  silent[l] \in Nat /\ silent[l] < staleAge /\ silent'[l] = silent[l] + 1 /\ silent'[l] \in 0..(staleAge + 1)
  <2>1. SteadyLink(l) /\ l \in pairs /\ l[1] \in GossipNodes
    BY LinkEnds DEF GossipInv
  <2>2. silent[l] \in Nat /\ silent[l] < staleAge
    <3>1. silent[l] \in Nat
      BY DEF GossipInv, GossipTypeOK
    <3>2. silent[l] <= staleAge /\ silent[l] # staleAge
      BY <1>1, <2>1 DEF SteadyLink
    <3>3. \A i, j \in Nat : i <= j /\ i # j => i < j
      OBVIOUS
    <3> QED
      BY <1>1, <3>1, <3>2, <3>3, Zenon
  <2> QED
    BY <1>1, <2>2 DEF older
<1>4. GossipTypeOK'
  <2>1. age' \in [GossipNodes -> [GossipNodes -> -1..(staleAge + 1)]]
    BY <1>1, <1>2
  <2>2. silent' \in [steadyLinks -> 0..(staleAge + 1)]
    BY <1>1, <1>3
  <2> QED
    BY <1>1, <2>1, <2>2 DEF GossipInv, GossipTypeOK
<1>5. GossipListed'
  BY <1>1, <1>2 DEF GossipInv, GossipListed, KnownIsListed, known
<1>6. ASSUME NEW l \in steadyLinks PROVE SteadyLink(l)'
  <2>1. SteadyLink(l) /\ l[1] \in GossipNodes /\ l[2] \in GossipNodes
    BY LinkEnds DEF GossipInv
  <2> QED
    BY <1>1, <1>2, <1>3, <2>1, LinkEnds DEF SteadyLink
<1> QED
  BY <1>1, <1>4, <1>5, <1>6 DEF GossipInv

\* What a node knows about its peers, with the calls under way that keep it so.
THEOREM GossipInvariant == GossipSpec => []GossipInv
<1>1. GossipInv /\ [GossipNext]_gossipVars => GossipInv'
  <2> SUFFICES ASSUME GossipInv, [GossipNext]_gossipVars PROVE GossipInv'
    OBVIOUS
  <2>1. CASE UNCHANGED gossipVars
    BY <2>1 DEF gossipVars, GossipInv, GossipTypeOK, GossipListed, KnownIsListed, known, SteadyLink
  <2>2. ASSUME NEW n \in GossipNodes, GossipTick(n) PROVE GossipInv'
    BY <2>2, TickKeeps
  <2>3. ASSUME NEW n \in GossipNodes, NEW p \in GossipNodes, GossipStep(n, p) PROVE GossipInv'
    BY <2>3, ServeKeeps, ApplyKeeps, FailKeeps DEF GossipStep
  <2>4. CASE NextInterval
    BY <2>4, IntervalKeeps
  <2> QED
    BY <2>1, <2>2, <2>3, <2>4 DEF GossipNext
<1> QED
  BY <1>1, GossipStart, PTL DEF GossipSpec

\* A node knows the peer at the other end of a steady link, and nobody that no
\* configuration lists: KnowsItsPeers.
THEOREM GossipKnowsItsPeers == GossipSpec => []KnowsItsPeers
<1>1. GossipInv => KnowsItsPeers
  <2> SUFFICES ASSUME GossipInv, NEW l \in steadyLinks PROVE KnownIsListed /\ l[2] \in known(l[1])
    BY DEF KnowsItsPeers, StaticPeersStay, GossipInv, GossipListed
  <2> QED
    BY LinkEnds DEF GossipInv, GossipListed, SteadyLink, known
<1> QED
  BY <1>1, GossipInvariant, PTL
-----------------------------------------------------------------------------
(***************************************************************************)
(* Proofs that the opening a rejected envelope is given is the next one,   *)
(* for every length of the day and every window.                           *)
(***************************************************************************)

\* Where the promise lies as long as it is ahead: later today, with the window closed
\* since the rejection, or tomorrow, after today's closing.
Ahead ==
  before(now, promised) =>
    \/ /\ promised.day = now.day
       /\ window.close <= now.tod \/ window.open <= window.close
    \/ /\ promised.day = now.day + 1
       /\ window.open <= window.close
       /\ now.tod >= window.close

Promise ==
  promised # noTime =>
    /\ window \in windows
    /\ rejected \in times /\ promised \in times
    /\ promised.tod = window.open
    /\ before(rejected, promised)
    /\ Ahead

CutoffInv == CutoffTypeOK /\ Promise

\* The mark of no time is no time.
LEMMA NoTimeIsNoTime == noTime \notin times
BY SMT DEF noTime, times, tods

\* A time is determined by its fields.
LEMMA TimeFields ==
  ASSUME NEW t \in times
  PROVE  t.day \in Nat /\ t.tod \in tods /\ t = [day |-> t.day, tod |-> t.tod]
BY SMT DEF times

\* A window that parses has an opening and a closing time of day.
LEMMA WindowFields ==
  ASSUME NEW w \in windows
  PROVE  w.open \in tods /\ w.close \in tods /\ w # malformed
BY DayAssumption, SMT DEF windows, malformed, tods

\* The invariant implies what the runs check.
LEMMA CutoffInvImplies == CutoffInv => ClosedUntilPromised /\ OpenWhenPromised
<1> SUFFICES ASSUME CutoffInv PROVE ClosedUntilPromised /\ OpenWhenPromised
  OBVIOUS
<1>1. now \in times /\ now.day \in Nat /\ now.tod \in tods
  BY TimeFields DEF CutoffInv, CutoffTypeOK
<1>2. CASE promised = noTime
  BY <1>1, <1>2, NoTimeIsNoTime DEF ClosedUntilPromised, OpenWhenPromised
<1>3. CASE promised # noTime
  <2>1. /\ window \in windows /\ promised \in times /\ promised.tod = window.open
        /\ before(rejected, promised) /\ Ahead
    BY <1>3 DEF CutoffInv, Promise
  <2>2. /\ window.open \in tods /\ window.close \in tods
        /\ promised.day \in Nat
    BY <2>1, WindowFields, TimeFields
  <2>3. before(now, promised) => ~IsInWindow(window, now)
    BY <1>1, <2>1, <2>2, DayAssumption, SMT DEF Ahead, before, IsInWindow, tods
  <2>4. now = promised => IsInWindow(window, now) \/ window.open = window.close
    BY <1>1, <2>1, <2>2, DayAssumption, SMT DEF IsInWindow, tods
  <2> QED
    BY <2>1, <2>3, <2>4 DEF ClosedUntilPromised, OpenWhenPromised
<1> QED
  BY <1>2, <1>3

\* A minute passes: midnight turns tomorrow's promise into today's.
LEMMA MinuteKeeps == CutoffInv /\ Minute => CutoffInv'
<1> SUFFICES ASSUME CutoffInv, Minute PROVE CutoffInv'
  OBVIOUS
<1>1. now \in times /\ now.day \in Nat /\ now.tod \in tods /\ now = [day |-> now.day, tod |-> now.tod]
  BY TimeFields DEF CutoffInv, CutoffTypeOK
<1>2. window' = window /\ rejected' = rejected /\ promised' = promised
  BY DEF Minute
<1>3. \/ now.tod + 1 < minutesPerDay /\ now' = [day |-> now.day, tod |-> now.tod + 1]
      \/ now.tod + 1 >= minutesPerDay /\ now' = [day |-> now.day + 1, tod |-> 0]
  <2>1. CASE now.tod + 1 < minutesPerDay
    <3>1. now' = [now EXCEPT !.tod = @ + 1]
      BY <2>1 DEF Minute
    <3> QED
      BY <1>1, <2>1, <3>1
  <2>2. CASE ~(now.tod + 1 < minutesPerDay)
    BY <1>1, <2>2, DayAssumption, SMT DEF Minute, tods
  <2> QED
    BY <2>1, <2>2
<1>4. now' \in times
  BY <1>1, <1>3, DayAssumption, SMT DEF times, tods
<1>5. CutoffTypeOK'
  BY <1>2, <1>4 DEF CutoffInv, CutoffTypeOK
<1>6. Promise'
  <2> SUFFICES ASSUME promised # noTime PROVE Promise'
    BY <1>2 DEF Promise
  <2>1. /\ window \in windows /\ rejected \in times /\ promised \in times
        /\ promised.tod = window.open /\ before(rejected, promised) /\ Ahead
    BY DEF CutoffInv, Promise
  <2>2. /\ window.open \in tods /\ window.close \in tods /\ promised.day \in Nat
    BY <2>1, WindowFields, TimeFields
  <2>3. \/ now'.day = now.day /\ now'.tod = now.tod + 1
        \/ now'.day = now.day + 1 /\ now'.tod = 0 /\ now.tod + 1 >= minutesPerDay
    BY <1>3
  <2>4. Ahead'
    BY <1>1, <1>2, <2>1, <2>2, <2>3, DayAssumption, SMT DEF Ahead, before, tods
  <2>5. before(rejected, promised)'
    BY <1>2, <2>1 DEF before
  <2> QED
    BY <1>2, <2>1, <2>4, <2>5 DEF Promise
<1> QED
  BY <1>5, <1>6 DEF CutoffInv

\* A rejection gives the next opening.
LEMMA RejectKeeps == CutoffInv /\ Reject => CutoffInv'
<1> SUFFICES ASSUME CutoffInv, Reject PROVE CutoffInv'
  OBVIOUS
<1>1. now \in times /\ now.day \in Nat /\ now.tod \in tods
  BY TimeFields DEF CutoffInv, CutoffTypeOK
<1>2. window' = window /\ now' = now /\ rejected' = now
  BY DEF Reject
<1>3. CASE window = malformed
  <2>1. promised' = noTime
    BY <1>3 DEF Reject
  <2> QED
    BY <1>1, <1>2, <2>1 DEF CutoffInv, CutoffTypeOK, Promise
<1>4. CASE window # malformed
  <2>1. window \in windows /\ window.open \in tods /\ window.close \in tods
    BY <1>4, WindowFields DEF CutoffInv, CutoffTypeOK
  <2>2. ~IsInWindow(window, now) /\ promised' = NextOpen(window, now)
    BY <1>4 DEF Reject
  <2>3. /\ promised'.tod = window.open
        /\ promised'.day = IF window.open <= window.close /\ now.tod >= window.open
                             THEN now.day + 1 ELSE now.day
    BY <2>2 DEF NextOpen
  <2>4. promised' \in times
    <3>1. promised'.day \in Nat
      BY <1>1, <2>3, SMT
    <3>2. promised' = [day |-> promised'.day, tod |-> promised'.tod]
      BY <2>2, <2>3 DEF NextOpen
    <3> QED
      BY <2>1, <2>3, <3>1, <3>2 DEF times
  <2>5. before(now, promised')
    BY <1>1, <2>1, <2>2, <2>3, DayAssumption, SMT DEF before, IsInWindow, tods
  <2>6. Ahead'
    BY <1>1, <1>2, <2>1, <2>2, <2>3, DayAssumption, SMT DEF Ahead, before, IsInWindow, tods
  <2>7. before(rejected, promised)'
    BY <1>2, <2>5 DEF before
  <2>8. CutoffTypeOK'
    BY <1>1, <1>2, <2>4 DEF CutoffInv, CutoffTypeOK
  <2> QED
    BY <1>1, <1>2, <2>1, <2>3, <2>4, <2>6, <2>7, <2>8 DEF CutoffInv, Promise
<1> QED
  BY <1>3, <1>4

\* The invariant holds at the start and after every step.
LEMMA CutoffInvariant == CutoffSpec => []CutoffInv
<1>1. CutoffInit => CutoffInv
  <2> SUFFICES ASSUME CutoffInit PROVE CutoffInv
    OBVIOUS
  <2>1. now \in times
    BY DayAssumption, SMT DEF CutoffInit, times, tods
  <2> QED
    BY <2>1 DEF CutoffInit, CutoffInv, CutoffTypeOK, Promise
<1>2. CutoffInv /\ [CutoffNext]_cutoffVars => CutoffInv'
  <2>1. CutoffInv /\ UNCHANGED cutoffVars => CutoffInv'
    BY DEF CutoffInv, CutoffTypeOK, Promise, Ahead, before, cutoffVars
  <2> QED
    BY <2>1, MinuteKeeps, RejectKeeps DEF CutoffNext
<1> QED
  BY <1>1, <1>2, PTL DEF CutoffSpec

\* A window stays closed until the opening that the entry of a rejected envelope names
\* (checkCutoffWindow with IsInWindow and NextOpen), and is open then, unless it is empty.
THEOREM CutoffOpensAsPromised == CutoffSpec => []PromiseIsKept
<1>1. CutoffInv => PromiseIsKept
  BY CutoffInvImplies DEF PromiseIsKept
<1> QED
  BY <1>1, CutoffInvariant, PTL
-----------------------------------------------------------------------------
(***************************************************************************)
(* Proof that a clean stop leaves nothing being handled, for any number of *)
(* calls and requests and whatever their handlers do.  While Run waits for *)
(* the HTTP server after a signal, the gRPC server takes no call, and those *)
(* it had have ended: had the deadline cut them off, Run would have        *)
(* returned its error already.                                             *)
(***************************************************************************)

StopInv ==
  /\ handling \subseteq Rpcs \cup Requests
  /\ run = "http" => grpc = "stopped"
  /\ run = "http" /\ cause = "signal" => handling \cap Rpcs = {}

\* The invariant holds of every behaviour of Run, the servers and their clients.
THEOREM StopInvariant == StopSpec => []StopInv
<1>1. StopInit => StopInv
  BY DEF StopInit, StopInv
<1>2. StopInv /\ [StopNext]_stopVars => StopInv'
  <2> SUFFICES ASSUME StopInv, [StopNext]_stopVars PROVE StopInv'
    OBVIOUS
  <2>1. ASSUME NEW x \in Rpcs \cup Requests, Handle(x) PROVE StopInv'
    BY <2>1 DEF Handle, StopInv
  <2>2. ASSUME NEW x \in Rpcs \cup Requests, EndHandling(x) PROVE StopInv'
    BY <2>2 DEF EndHandling, StopInv
  <2>3. ASSUME NEW x \in {"grpc", "http"}, ServerExits(x) PROVE StopInv'
    BY <2>3 DEF ServerExits, StopInv
  <2>4. CASE Signal \/ Deadline
    BY <2>4 DEF Signal, Deadline, StopInv
  <2>5. CASE BeginStop
    BY <2>5 DEF BeginStop, StopInv
  <2>6. CASE GrpcDrained \/ GrpcForced
    BY <2>6 DEF GrpcDrained, GrpcForced, toHTTP, return, StopInv
  <2>7. CASE HTTPDrained \/ HTTPForced
    BY <2>7 DEF HTTPDrained, HTTPForced, return, StopInv
  <2>8. CASE UNCHANGED stopVars
    BY <2>8 DEF stopVars, StopInv
  <2> QED
    BY <2>1, <2>2, <2>3, <2>4, <2>5, <2>6, <2>7, <2>8 DEF StopNext, Stopping
<1> QED
  BY <1>1, <1>2, PTL DEF StopSpec

\* Run returns no error only by the step that finds the HTTP server idle after a
\* signal, and then the invariant leaves no call of either server.
THEOREM StopDrains == StopSpec => CleanStopDrains
<1>1. StopInv /\ [StopNext]_stopVars => [result' = "nil" /\ result = "none" => handling' = {}]_stopVars
  <2> SUFFICES ASSUME StopInv, StopNext, result' = "nil", result = "none"
               PROVE  handling' = {}
    BY DEF stopVars
  <2>1. ~HTTPForced /\ ~GrpcForced /\ ~GrpcDrained /\ ~BeginStop
    BY DEF HTTPForced, GrpcForced, GrpcDrained, BeginStop, return, toHTTP
  <2>2. ~Signal /\ ~Deadline /\ \A x : ~Handle(x) /\ ~EndHandling(x) /\ ~ServerExits(x)
    BY DEF Signal, Deadline, Handle, EndHandling, ServerExits
  <2>3. HTTPDrained
    BY <2>1, <2>2 DEF StopNext, Stopping
  <2>4. cause = "signal" /\ run = "http" /\ handling' = handling /\ handling \cap Requests = {}
    BY <2>3 DEF HTTPDrained, return, outcome
  <2> QED
    BY <2>4 DEF StopInv
<1> QED
  BY <1>1, StopInvariant, PTL DEF StopSpec, CleanStopDrains
=============================================================================

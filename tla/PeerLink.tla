------------------------------ MODULE PeerLink ------------------------------
(***************************************************************************)
(* The link to a peer that envelopes are forwarded over: the send function *)
(* of internal/app/app.go, the connection pool and Dial of                 *)
(* internal/transport/grpc, the sequence numbers of                        *)
(* internal/session/tracker.go on both sides, and the peer's SendEnvelope  *)
(* up to its gateway (which Gateway models).                               *)
(*                                                                         *)
(* A send takes a number, looks for a connection under the pool's lock,    *)
(* dials without the lock when there is none, and takes the lock again to  *)
(* add what it dialled.  Connections are numbered as they are dialled; one *)
(* that is dialled stays open until somebody closes it, as gRPC reconnects *)
(* by itself.  The pool is closed when the node stops, with sends that     *)
(* outlived the shutdown's deadline possibly still going on.               *)
(***************************************************************************)
EXTENDS Integers, FiniteSets

CONSTANTS Senders,   \* goroutines in the send function
          LinkAddrs, \* addresses of peers
          Regions,   \* recipient regions
          Seqs       \* the bound on sends: numbers of connections and of envelopes

ASSUME SeqsAssumption == Seqs \in Nat

VARIABLES pool,       \* ConnPool.conns: for each address a connection, or 0
          shut,       \* the connections that were closed
          dials,      \* how many connections were dialled
          poolClosed, \* ConnPool.Close was called
          sender,     \* where each send is
          seqSend,    \* the sender's Tracker.next, by recipient region
          seqRecv,    \* Tracker.next of the peer at each address, for this node's region
          received    \* the numbers that the peers received, by address

linkVars == <<pool, shut, dials, poolClosed, sender, seqSend, seqRecv, received>>

noSend == [pc |-> "idle"]
envelopes == Regions \X (1..Seqs)

LinkTypeOK ==
  /\ pool \in [LinkAddrs -> 0..dials]
  /\ shut \subseteq 1..dials
  /\ dials \in 0..Seqs
  /\ poolClosed \in BOOLEAN
  /\ \A s \in Senders :
       \/ sender[s] = noSend
       \/ /\ sender[s].pc \in {"lookup", "dial", "add", "invoke"}
          /\ sender[s].addr \in LinkAddrs
          /\ sender[s].number \in envelopes
          /\ sender[s].conn \in IF sender[s].pc \in {"add", "invoke"} THEN 1..dials ELSE {0}
  /\ seqSend \in [Regions -> 0..Seqs]
  /\ seqRecv \in [LinkAddrs -> 0..Seqs]
  /\ received \in [LinkAddrs -> SUBSET envelopes]

LinkInit ==
  /\ pool = [a \in LinkAddrs |-> 0]
  /\ shut = {}
  /\ dials = 0
  /\ poolClosed = FALSE
  /\ sender = [s \in Senders |-> noSend]
  /\ seqSend = [r \in Regions |-> 0]
  /\ seqRecv = [a \in LinkAddrs |-> 0]
  /\ received = [a \in LinkAddrs |-> {}]
-----------------------------------------------------------------------------
\* NextSeq: reading and advancing the counter is one critical section
Number(s, r, a) ==
  /\ sender[s] = noSend
  /\ seqSend[r] < Seqs
  /\ seqSend' = [seqSend EXCEPT ![r] = @ + 1]
  /\ sender' = [sender EXCEPT ![s] = [pc |-> "lookup", addr |-> a, conn |-> 0,
                                      number |-> <<r, seqSend[r] + 1>>]]
  /\ UNCHANGED <<pool, shut, dials, poolClosed, seqRecv, received>>

\* The first critical section of ConnPool.Client
Lookup(s) ==
  LET a == sender[s].addr
      c == pool[a]
      live == c # 0 /\ c \notin shut
  IN  /\ sender[s].pc = "lookup"
      /\ sender' = [sender EXCEPT ![s].pc = IF live THEN "invoke" ELSE "dial",
                                  ![s].conn = IF live THEN c ELSE 0]
      /\ pool' = [pool EXCEPT ![a] = IF live THEN c ELSE 0]
      /\ UNCHANGED <<shut, dials, poolClosed, seqSend, seqRecv, received>>

\* Dial waits until the connection is ready
Dial(s) ==
  /\ sender[s].pc = "dial"
  /\ dials < Seqs
  /\ dials' = dials + 1
  /\ sender' = [sender EXCEPT ![s].pc = "add", ![s].conn = dials + 1]
  /\ UNCHANGED <<pool, shut, poolClosed, seqSend, seqRecv, received>>

\* Mutant: the number of a send that cannot connect is given back.
DialFailsAndReturns(s) ==
  /\ sender[s].pc = "dial"
  /\ sender' = [sender EXCEPT ![s] = noSend]
  /\ seqSend' = [seqSend EXCEPT ![sender[s].number[1]] = @ - 1]
  /\ UNCHANGED <<pool, shut, dials, poolClosed, seqRecv, received>>

\* It does not get ready in time: the send fails, and its number is lost
DialFails(s) ==
  /\ sender[s].pc = "dial"
  /\ sender' = [sender EXCEPT ![s] = noSend]
  /\ UNCHANGED <<pool, shut, dials, poolClosed, seqSend, seqRecv, received>>

\* Mutant: the second look at the pool is left out.
AddUnchecked(s) ==
  /\ sender[s].pc = "add"
  /\ pool' = [pool EXCEPT ![sender[s].addr] = sender[s].conn]
  /\ sender' = [sender EXCEPT ![s].pc = "invoke"]
  /\ UNCHANGED <<shut, dials, poolClosed, seqSend, seqRecv, received>>

\* The second critical section of ConnPool.Client
Add(s) ==
  LET a == sender[s].addr
      c == sender[s].conn
      existing == pool[a]
      use == IF existing # 0 THEN existing ELSE c
  IN  /\ sender[s].pc = "add"
      /\ pool' = [pool EXCEPT ![a] = use]
      /\ shut' = IF existing # 0 THEN shut \cup {c} ELSE shut
      /\ sender' = [sender EXCEPT ![s].pc = "invoke", ![s].conn = use]
      /\ UNCHANGED <<dials, poolClosed, seqSend, seqRecv, received>>

\* Tracker.Validate: the counter after a number, expected or not
validate(expected, seq) == IF seq > expected THEN seq ELSE expected

\* The peer's SendEnvelope checks the number; then the answer comes back or is lost
Invoke(s) ==
  LET a == sender[s].addr
      n == sender[s].number
  IN  /\ sender[s].pc = "invoke"
      /\ sender[s].conn \notin shut
      /\ seqRecv' = [seqRecv EXCEPT ![a] = validate(@, n[2])]
      /\ received' = [received EXCEPT ![a] = @ \cup {n}]
      /\ sender' = [sender EXCEPT ![s] = noSend]
      /\ UNCHANGED <<pool, shut, dials, poolClosed, seqSend>>

\* The call does not reach the peer
InvokeFails(s) ==
  /\ sender[s].pc = "invoke"
  /\ sender' = [sender EXCEPT ![s] = noSend]
  /\ UNCHANGED <<pool, shut, dials, poolClosed, seqSend, seqRecv, received>>

\* ConnPool.Close, when the node stops
ClosePool ==
  /\ ~poolClosed
  /\ poolClosed' = TRUE
  /\ shut' = shut \cup ({pool[a] : a \in LinkAddrs} \ {0})
  /\ pool' = [a \in LinkAddrs |-> 0]
  /\ UNCHANGED <<dials, sender, seqSend, seqRecv, received>>

SendStep(s) == Lookup(s) \/ Dial(s) \/ DialFails(s) \/ Add(s) \/ Invoke(s) \/ InvokeFails(s)

LinkNext ==
  \/ \E s \in Senders : SendStep(s) \/ \E r \in Regions, a \in LinkAddrs : Number(s, r, a)
  \/ ClosePool

LinkSpec == LinkInit /\ [][LinkNext]_linkVars
-----------------------------------------------------------------------------
\* No connection leaks: one that is open is in the pool, where Close finds it, or held
\* by the send that has dialled it and not yet added it.
OpenIsPooled ==
  \A c \in (1..dials) \ shut :
    \/ \E a \in LinkAddrs : pool[a] = c
    \/ \E s \in Senders : sender[s].pc = "add" /\ sender[s].conn = c

\* A send calls over a connection that nobody has closed, unless the node stops.
UsedIsOpen ==
  \A s \in Senders : sender[s].pc = "invoke" => sender[s].conn \notin shut \/ poolClosed

\* No two envelopes on their way, and no envelope after one that was received, carry the
\* same number for a region.
NumberedOnce ==
  \A s \in Senders : sender[s] # noSend =>
    /\ \A a \in LinkAddrs : sender[s].number \notin received[a]
    /\ \A t \in Senders \ {s} : sender[t] # noSend => sender[t].number # sender[s].number

\* In whatever order envelopes come, and from whichever counters of the sender, a peer
\* expects the number after the highest one it has seen.
ExpectsTheHighest ==
  \A a \in LinkAddrs :
    /\ \A n \in received[a] : n[2] <= seqRecv[a]
    /\ seqRecv[a] > 0 => \E n \in received[a] : n[2] = seqRecv[a]

\* The pool owns the connections: it has all that are open, and closes none in use.
PoolOwnsConnections == OpenIsPooled /\ UsedIsOpen

\* Numbers count envelopes: none is used twice, and the peer follows the highest.
NumbersCount == NumberedOnce /\ ExpectsTheHighest
=============================================================================

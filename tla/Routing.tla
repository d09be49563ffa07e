------------------------------- MODULE Routing -------------------------------
(***************************************************************************)
(* Which peers the forwarder tries, and in which order                     *)
(* (internal/delivery/forwarder.go).  A peer table is a function from the  *)
(* keys of [network.peers] to records with the scope, region and regions   *)
(* of a peer.  Go iterates over a map in any order, so PeersFor is the set *)
(* of the lists that the code may return.                                  *)
(***************************************************************************)
EXTENDS Naturals, Sequences, FiniteSets, Functions

\* append(s[:i], s[i+1:]...)
without(s, i) == [j \in 1..(Len(s) - 1) |-> IF j < i THEN s[j] ELSE s[j + 1]]

\* The lists that ranging over a map with the keys S may give
orders(S) == UNION {Bijection(1..n, S) : n \in 0..Cardinality(S)}

\* The candidates of one tier, before they are put in a list
tierPeers(peers, allowVia, to, scope) ==
  {p \in DOMAIN peers :
     /\ peers[p].scope = scope
     /\ allowVia = {} \/ scope \in allowVia
     /\ CASE scope = "regional" -> p = to
          [] scope = "alliance" -> to \in peers[p].regions
          [] scope = "global" -> TRUE}

PeersFor(peers, allowVia, to) ==
  {regional \o alliance \o global :
     regional \in orders(tierPeers(peers, allowVia, to, "regional")),
     alliance \in orders(tierPeers(peers, allowVia, to, "alliance")),
     global \in orders(tierPeers(peers, allowVia, to, "global"))}

\* The first peer of the hinted region moves to the front.
reorderByHint(peers, list, hint) ==
  LET found(i) == peers[list[i]].region = hint
      first == {i \in DOMAIN list : found(i) /\ \A j \in 1..(i - 1) : ~found(j)}
  IN  IF hint = "" \/ first = {}
        THEN list
        ELSE LET i == CHOOSE m \in first : TRUE
             IN  <<list[i]>> \o without(list, i)

\* The lists that Forward may go through for one envelope
routes(peers, allowVia, to, hint) ==
  {reorderByHint(peers, list, hint) : list \in PeersFor(peers, allowVia, to)}
=============================================================================

---------------------------- MODULE AppRegistry ----------------------------
(***************************************************************************)
(* Discovery and connection over HTTP (internal/registry/registry.go, GET  *)
(* discover and POST connect): a search hands out one opaque token for     *)
(* each user it finds, and a token is good for one connection request      *)
(* within its time.  Discover and Connect hold the registry's mutex.       *)
(***************************************************************************)
EXTENDS Naturals, Sequences, FiniteSets

CONSTANTS RegApps,    \* cfg.Apps: for each application its AutoAccept and its Users, hint by id
          RegAllowTo, \* Policy.Outbound.AllowTo
          Requesters, \* pairs of requester_id and requester_region
          Queries,    \* pairs of q and type; a text without its case
          tokenTTL,
          MaxTokens, MaxConnects, LastTime

VARIABLES time,
          tokens,   \* the tokens issued, in order: whose, until when, and whether in the map still
          connects  \* the answers to connection requests, in order

registryVars == <<time, tokens, connects>>

users == UNION {{<<a, u>> : u \in DOMAIN RegApps[a].users} : a \in DOMAIN RegApps}

\* There are finitely many users, so that whoever is found can be counted.
ASSUME RegistryAssumption == tokenTTL \in Nat /\ \A found \in SUBSET users : Cardinality(found) \in Nat

RegistryTypeOK ==
  /\ time \in 0..LastTime
  /\ \A i \in DOMAIN tokens : tokens[i].user \in users /\ tokens[i].expires \in 0..(LastTime + tokenTTL)
  /\ \A i \in DOMAIN connects : connects[i].status \in {"ACCEPTED", "PENDING", "DENIED"}

RegistryInit == time = 0 /\ tokens = <<>> /\ connects = <<>>

Pass ==
  /\ time < LastTime
  /\ time' = time + 1
  /\ UNCHANGED <<tokens, connects>>

\* A query by app_id is for the whole id, any other for a part of the hint: the
\* model's hints are sets of the queries they contain.
matches(q, x) == IF q.type = "app_id" THEN x[1] = q.text ELSE q.text \in RegApps[x[1]].users[x[2]]

\* Discover: the order in which it meets the users is that of a Go map
Discover(q) ==
  LET found == {x \in users : matches(q, x)}
      issue(x) == [user |-> x, expires |-> time + tokenTTL, live |-> TRUE]
  IN  /\ found # {}
      /\ Len(tokens) + Cardinality(found) <= MaxTokens
      /\ \E order \in [1..Cardinality(found) -> found] :
           /\ \A x \in found : \E i \in DOMAIN order : order[i] = x
           /\ tokens' = tokens \o [i \in 1..Cardinality(found) |-> issue(order[i])]
      /\ UNCHANGED <<time, connects>>

\* The status by the application's auto_accept
statusFor(app, r) ==
  CASE RegApps[app].autoAccept = "auto_all" -> "ACCEPTED"
    [] RegApps[app].autoAccept = "auto_mutual" /\ r.region \in RegAllowTo -> "ACCEPTED"
    [] RegApps[app].autoAccept = "auto_whitelist" /\ r.id \in DOMAIN RegApps[app].users -> "ACCEPTED"
    [] OTHER -> "PENDING"

\* Mutant: the application is that of the token issued last.
ConnectToLatest(t, r) ==
  LET entry == tokens[t]
      good == entry.live /\ time <= entry.expires
      status == IF good THEN statusFor(tokens[Len(tokens)].user[1], r) ELSE "DENIED"
  IN  /\ Len(connects) < MaxConnects
      /\ tokens' = [tokens EXCEPT ![t].live = FALSE]
      /\ connects' = Append(connects, [token |-> t, by |-> r, at |-> time, status |-> status])
      /\ UNCHANGED time

\* Connect with a token that was issued once; another string is denied
Connect(t, r) ==
  LET entry == tokens[t]
      good == entry.live /\ time <= entry.expires
      status == IF good THEN statusFor(entry.user[1], r) ELSE "DENIED"
  IN  /\ Len(connects) < MaxConnects
      /\ tokens' = [tokens EXCEPT ![t].live = FALSE]
      /\ connects' = Append(connects, [token |-> t, by |-> r, at |-> time, status |-> status])
      /\ UNCHANGED time

RegistryNext ==
  \/ Pass
  \/ \E q \in Queries : Discover(q)
  \/ \E t \in DOMAIN tokens, r \in Requesters : Connect(t, r)

RegistrySpec == RegistryInit /\ [][RegistryNext]_registryVars
-----------------------------------------------------------------------------
sessions == {i \in DOMAIN connects : connects[i].status # "DENIED"}

\* A token opens one connection: no two requests with it get a session, and the
\* first one in time is not turned away.
TokenConnectsOnce ==
  /\ \A i, j \in sessions : connects[i].token = connects[j].token => i = j
  /\ \A i \in DOMAIN connects :
       LET first == \A j \in 1..(i - 1) : connects[j].token # connects[i].token
       IN  first /\ connects[i].at <= tokens[connects[i].token].expires => i \in sessions

\* A requester is accepted without asking only by the rule of the application
\* whose user the token was issued for: everyone, those of an allowed region, or
\* those who are users of that application.
AcceptedByItsOwnApp ==
  \A i \in DOMAIN connects : connects[i].status = "ACCEPTED" =>
    LET app == RegApps[tokens[connects[i].token].user[1]]
        by == connects[i].by
    IN  \/ app.autoAccept = "auto_all"
        \/ app.autoAccept = "auto_mutual" /\ by.region \in RegAllowTo
        \/ app.autoAccept = "auto_whitelist" /\ by.id \in DOMAIN app.users

\* A token gives what it was issued for: one session, by its own application's rule.
ConnectsAsIssued == TokenConnectsOnce /\ AcceptedByItsOwnApp
=============================================================================

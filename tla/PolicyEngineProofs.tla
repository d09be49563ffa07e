------------------------- MODULE PolicyEngineProofs -------------------------
(***************************************************************************)
(* Proofs about decisions of the policy engine, for any configurations,    *)
(* rules and requests, and any number of evaluations, reloads and          *)
(* revocations that run between each other's steps.  An evaluation keeps   *)
(* the configuration it loaded, which stays in the history of those that   *)
(* were active; a revocation once complete is never undone.                *)
(***************************************************************************)
EXTENDS PolicyEngine, FiniteSetTheorems, TLAPS

Tasks == [pc: {"crl", "audit"}, req: Requests, cfg: Configs, revoked: BOOLEAN, from: Nat, revokedBefore: BOOLEAN]

DecisionRows == {row(c, verdict(c, b, q), q) : c \in Configs, b \in BOOLEAN, q \in Requests}

EngineTypes ==
  /\ policies \in Seq(Configs)
  /\ sigs \in [Senders -> SUBSET Sigs]
  /\ \A n \in Senders : IsFiniteSet(sigs[n])
  /\ task \in [Evaluators -> Tasks \cup {idle}]
  /\ audit \in Seq([row: DecisionRows, from: Nat, to: Nat, revokedBefore: BOOLEAN])

\* What an evaluation that is under way holds
TaskInv ==
  \A e \in Evaluators : task[e] # idle =>
    /\ task[e].from \in 1..Len(policies) /\ task[e].cfg = policies[task[e].from]
    /\ task[e].revokedBefore => IsRevoked(task[e].req.sender)
    /\ task[e].pc = "audit" /\ task[e].revokedBefore => task[e].revoked

\* What a decision was made from: one configuration, and one answer of the revocation list
Derived(d, c) ==
  \E b \in BOOLEAN : d.row = row(c, verdict(c, b, d.row.req), d.row.req) /\ (d.revokedBefore => b)

DecisionInv ==
  \A i \in DOMAIN audit :
    /\ audit[i].from \in 1..Len(policies) /\ audit[i].from <= audit[i].to
    /\ Derived(audit[i], policies[audit[i].from])

\* Only configurations that Validate accepts are ever active.
AllValid == \A k \in 1..Len(policies) : Validate(policies[k])

EngineInv == EngineTypes /\ TaskInv /\ DecisionInv /\ AllValid /\ Len(policies) >= 1
-----------------------------------------------------------------------------
\* The list of checks has eleven; the first is the revocation list's answer, and
\* no reason is that of acceptance.
LEMMA ChecksShape ==
  ASSUME NEW c, NEW b \in BOOLEAN, NEW q
  PROVE  /\ DOMAIN checks(c, b, q) = 1..11
         /\ checks(c, b, q)[1][1] = b
         /\ checks(c, b, q)[1][2] = "NODE_REVOKED"
         /\ \A i \in 1..11 : checks(c, b, q)[i][2] # "POLICY_ACCEPTED"
BY DEF checks

\* A set of naturals that is not empty has a least member.
LEMMA LeastNatural == ASSUME NEW T \in SUBSET Nat, T # {}
                      PROVE  \E x \in T : \A y \in T : x <= y
<1> DEFINE R == OpToRel(<, Nat)
<1>1. IsWellFoundedOn(R, Nat)
  BY NatLessThanWellFounded
<1>2. \A a, b \in Nat : <<a, b>> \in R <=> a < b
  BY DEF OpToRel
<1> HIDE DEF R
<1>3. PICK x \in T : \A y \in T : ~ (<<y, x>> \in R)
  BY <1>1, WFMin, Zenon
<1>4. \A y \in T : y \in Nat /\ ~(y < x)
  BY <1>2, <1>3, Zenon
<1>5. \A y \in T : x <= y
  BY <1>4
<1> QED
  BY <1>5

\* A set of numbers of checks has a first one.
LEMMA FirstCheck ==
  ASSUME NEW S \in SUBSET (1..11), S # {}
  PROVE  Min(S) \in S /\ \A i \in S : Min(S) <= i
<1>1. \E i \in S : \A j \in S : i <= j
  BY LeastNatural
<1> QED
  BY <1>1, Zenon DEF Min

\* A revoked sender is turned away for that reason whatever else fails.
LEMMA VerdictRevoked ==
  ASSUME NEW c, NEW q
  PROVE  verdict(c, TRUE, q) = "NODE_REVOKED"
<1> DEFINE list == checks(c, TRUE, q)
           failed == {i \in DOMAIN list : list[i][1]}
<1>1. failed \in SUBSET (1..11) /\ 1 \in failed
  <2>1. DOMAIN list = 1..11
    BY ChecksShape, Zenon
  <2>2. list[1][1] = TRUE
    BY ChecksShape, Zenon
  <2>3. 1 \in 1..11
    OBVIOUS
  <2> QED
    BY <2>1, <2>2, <2>3, Zenon
<1>2. Min(failed) = 1
  <2>1. \A S \in SUBSET (1..11) : 1 \in S => Min(S) = 1
    <3> SUFFICES ASSUME NEW S \in SUBSET (1..11), 1 \in S PROVE Min(S) = 1
      OBVIOUS
    <3>1. Min(S) \in S /\ Min(S) <= 1
      BY FirstCheck
    <3>2. Min(S) \in 1..11
      BY <3>1, Zenon
    <3>3. \A k \in 1..11 : k <= 1 => k = 1
      OBVIOUS
    <3> QED
      BY <3>1, <3>2, <3>3, Zenon
  <2> HIDE DEF failed
  <2> QED
    BY <1>1, <2>1
<1>3. list[1][2] = "NODE_REVOKED"
  BY ChecksShape, Zenon
<1>4. verdict(c, TRUE, q) = list[Min(failed)][2]
  BY <1>1, Zenon DEF verdict
<1> QED
  BY <1>2, <1>3, <1>4, Zenon

\* An envelope is accepted only if no check fails.
LEMMA VerdictAccepted ==
  ASSUME NEW c, NEW b \in BOOLEAN, NEW q, verdict(c, b, q) = "POLICY_ACCEPTED"
  PROVE  \A i \in 1..11 : ~checks(c, b, q)[i][1]
<1> DEFINE list == checks(c, b, q)
           failed == {i \in DOMAIN list : list[i][1]}
<1>1. DOMAIN list = 1..11 /\ failed \in SUBSET (1..11)
  BY ChecksShape
<1>2. ASSUME failed # {} PROVE FALSE
  <2>1. Min(failed) \in failed
    <3> HIDE DEF failed
    <3> QED
      BY <1>1, <1>2, FirstCheck
  <2>2. list[Min(failed)][2] # "POLICY_ACCEPTED"
    <3> HIDE DEF failed
    <3> QED
      BY <1>1, <2>1, ChecksShape, Zenon
  <2> QED
    BY <1>2, <2>2 DEF verdict
<1> QED
  BY <1>1, <1>2

\* The columns of a row
LEMMA RowFields ==
  ASSUME NEW c, NEW reason, NEW q
  PROVE  /\ row(c, reason, q).reason = reason
         /\ row(c, reason, q).scope = c.scope /\ row(c, reason, q).profile = c.profile
BY DEF row
-----------------------------------------------------------------------------
\* The fields of an evaluation under way, apart from its two Boolean ones
LEMMA TaskFields ==
  ASSUME NEW t \in Tasks \cup {idle}, t # idle
  PROVE  t \in Tasks /\ t.pc \in {"crl", "audit"} /\ t.req \in Requests /\ t.cfg \in Configs
         /\ t.from \in Nat /\ t.revoked \in BOOLEAN /\ t.revokedBefore \in BOOLEAN
BY DEF Tasks

\* An evaluation loads the configuration that is active.
LEMMA LoadKeeps ==
  ASSUME EngineInv, NEW e \in Evaluators, NEW req \in Requests, EvaluateLoad(e, req)
  PROVE  EngineInv'
<1> DEFINE t == [pc |-> "crl", req |-> req, cfg |-> active, revoked |-> FALSE,
                 from |-> Len(policies), revokedBefore |-> IsRevoked(req.sender)]
<1>1. active \in Configs /\ active = policies[Len(policies)] /\ Len(policies) \in 1..Len(policies)
  BY DEF EngineInv, EngineTypes, active
<1>2. IsRevoked(req.sender) \in BOOLEAN
  BY DEF IsRevoked
<1>3. t \in Tasks
  <2> DEFINE b == IsRevoked(req.sender)
  <2> HIDE DEF b
  <2>1. b \in BOOLEAN
    BY <1>2 DEF b
  <2>2. Len(policies) \in Nat
    BY <1>1
  <2> QED
    BY <1>1, <2>1, <2>2, Zenon DEF Tasks, b
<1>4. task' = [task EXCEPT ![e] = t] /\ policies' = policies /\ sigs' = sigs /\ audit' = audit
  BY DEF EvaluateLoad
<1> HIDE DEF t
<1>5. task'[e] = t /\ \A f \in Evaluators : f # e => task'[f] = task[f]
  BY <1>4 DEF EngineInv, EngineTypes
<1>6. EngineTypes'
  BY <1>3, <1>4 DEF EngineInv, EngineTypes
<1>7. t.from = Len(policies) /\ t.cfg = active /\ t.pc = "crl" /\ t.req = req
      /\ t.revokedBefore = IsRevoked(req.sender)
  BY Zenon DEF t
<1>8. TaskInv'
  <2> SUFFICES ASSUME NEW f \in Evaluators, task'[f] # idle
               PROVE  /\ task'[f].from \in 1..Len(policies) /\ task'[f].cfg = policies[task'[f].from]
                      /\ task'[f].revokedBefore => IsRevoked(task'[f].req.sender)
                      /\ task'[f].pc = "audit" /\ task'[f].revokedBefore => task'[f].revoked
    BY <1>4 DEF TaskInv, IsRevoked
  <2>1. CASE f # e
    BY <2>1, <1>5, Zenon DEF EngineInv, TaskInv
  <2>2. CASE f = e
    <3>1. task'[f].from \in 1..Len(policies) /\ task'[f].cfg = policies[task'[f].from] /\ task'[f].pc # "audit"
      BY <1>1, <1>5, <1>7, <2>2
    <3>2. task'[f].revokedBefore => IsRevoked(task'[f].req.sender)
      BY <1>5, <1>7, <2>2, Zenon
    <3> QED
      BY <3>1, <3>2, Zenon
  <2> QED
    BY <2>1, <2>2
<1>9. DecisionInv'
  BY <1>4 DEF EngineInv, DecisionInv
<1> QED
  BY <1>4, <1>6, <1>8, <1>9 DEF EngineInv, AllValid

\* An evaluation asks the revocation list, where a revocation complete before is found.
LEMMA CRLKeeps ==
  ASSUME EngineInv, NEW e \in Evaluators, EvaluateCRL(e)
  PROVE  EngineInv'
<1> DEFINE b == IsRevoked(task[e].req.sender)
           t == [task[e] EXCEPT !.pc = "audit", !.revoked = b]
<1>1. task[e] # idle /\ task[e] \in Tasks
  BY DEF EngineInv, EngineTypes, EvaluateCRL, idle
<1>2. task' = [task EXCEPT ![e] = t] /\ policies' = policies /\ sigs' = sigs /\ audit' = audit
  BY Zenon DEF EvaluateCRL, EngineInv, EngineTypes
<1>3. b \in BOOLEAN
  BY DEF IsRevoked
<1> HIDE DEF b
<1>4. t \in Tasks /\ t.from = task[e].from /\ t.cfg = task[e].cfg /\ t.req = task[e].req
  BY <1>1, <1>3, Zenon DEF Tasks
<1>5. t.revoked = b /\ t.revokedBefore = task[e].revokedBefore
  BY <1>1, Zenon DEF Tasks
<1> HIDE DEF t
<1>6. task'[e] = t /\ \A f \in Evaluators : f # e => task'[f] = task[f]
  BY <1>2 DEF EngineInv, EngineTypes
<1>7. EngineTypes'
  BY <1>2, <1>4 DEF EngineInv, EngineTypes
<1>8. TaskInv'
  <2> SUFFICES ASSUME NEW f \in Evaluators, task'[f] # idle
               PROVE  /\ task'[f].from \in 1..Len(policies) /\ task'[f].cfg = policies[task'[f].from]
                      /\ task'[f].revokedBefore => IsRevoked(task'[f].req.sender)
                      /\ task'[f].pc = "audit" /\ task'[f].revokedBefore => task'[f].revoked
    BY <1>2 DEF TaskInv, IsRevoked
  <2>1. CASE f # e
    BY <2>1, <1>6, Zenon DEF EngineInv, TaskInv
  <2>2. CASE f = e
    <3>1. task'[f].from \in 1..Len(policies) /\ task'[f].cfg = policies[task'[f].from]
      BY <1>1, <1>4, <1>6, <2>2 DEF EngineInv, TaskInv
    <3>2. task[e].revokedBefore => b
      BY <1>1, Zenon DEF EngineInv, TaskInv, b
    <3>3. task'[f].revokedBefore => IsRevoked(task'[f].req.sender) /\ task'[f].revoked
      BY <1>4, <1>5, <1>6, <2>2, <3>2, Zenon DEF b
    <3> QED
      BY <3>1, <3>3, Zenon
  <2> QED
    BY <2>1, <2>2
<1>9. DecisionInv'
  BY <1>2 DEF EngineInv, DecisionInv
<1> QED
  BY <1>2, <1>7, <1>8, <1>9 DEF EngineInv, AllValid

\* A decision is derived from what its evaluation holds.
LEMMA AuditKeeps ==
  ASSUME EngineInv, NEW e \in Evaluators, EvaluateAudit(e)
  PROVE  EngineInv'
<1> DEFINE t == task[e]
           d == [row |-> row(t.cfg, verdict(t.cfg, t.revoked, t.req), t.req),
                 from |-> t.from, to |-> Len(policies), revokedBefore |-> t.revokedBefore]
<1>1. t # idle /\ t.pc = "audit" /\ audit' = Append(audit, d) /\ task' = [task EXCEPT ![e] = idle]
      /\ policies' = policies /\ sigs' = sigs
  BY DEF EvaluateAudit, idle
<1>2. /\ t \in Tasks /\ t.req \in Requests /\ t.cfg \in Configs /\ t.from \in Nat
      /\ t.revoked \in BOOLEAN /\ t.revokedBefore \in BOOLEAN
  BY <1>1, TaskFields DEF EngineInv, EngineTypes
<1>3. t.from \in 1..Len(policies) /\ t.cfg = policies[t.from]
  BY <1>1 DEF EngineInv, TaskInv
<1>4. t.revokedBefore => t.revoked
  BY <1>1, Zenon DEF EngineInv, TaskInv
<1> HIDE DEF t
<1>5. Len(policies) \in Nat /\ t.from <= Len(policies)
  BY <1>3 DEF EngineInv, EngineTypes
<1>6. row(t.cfg, verdict(t.cfg, t.revoked, t.req), t.req) \in DecisionRows
  BY <1>2 DEF DecisionRows
<1>7. d.row = row(t.cfg, verdict(t.cfg, t.revoked, t.req), t.req) /\ d.from = t.from /\ d.to = Len(policies)
      /\ d.revokedBefore = t.revokedBefore /\ d.row.req = t.req
  BY Zenon DEF row
<1>8. d \in [row: DecisionRows, from: Nat, to: Nat, revokedBefore: BOOLEAN]
  BY <1>2, <1>5, <1>6, Zenon
<1> HIDE DEF d
<1>9. Derived(d, t.cfg)
  BY <1>2, <1>4, <1>7, Zenon DEF Derived
<1>10. EngineTypes'
  BY <1>1, <1>8 DEF EngineInv, EngineTypes
<1>11. TaskInv'
  <2> SUFFICES ASSUME NEW f \in Evaluators, task'[f] # idle
               PROVE  /\ task'[f].from \in 1..Len(policies) /\ task'[f].cfg = policies[task'[f].from]
                      /\ task'[f].revokedBefore => IsRevoked(task'[f].req.sender)
                      /\ task'[f].pc = "audit" /\ task'[f].revokedBefore => task'[f].revoked
    BY <1>1 DEF TaskInv, IsRevoked
  <2>1. task'[f] = task[f]
    BY <1>1 DEF EngineInv, EngineTypes
  <2> QED
    BY <2>1, Zenon DEF EngineInv, TaskInv
<1>12. DecisionInv'
  <2> SUFFICES ASSUME NEW i \in DOMAIN audit'
               PROVE  /\ audit'[i].from \in 1..Len(policies) /\ audit'[i].from <= audit'[i].to
                      /\ Derived(audit'[i], policies[audit'[i].from])
    BY <1>1 DEF DecisionInv, Derived
  <2>1. \/ i \in DOMAIN audit /\ audit'[i] = audit[i]
        \/ audit'[i] = d
    BY <1>1, <1>8 DEF EngineInv, EngineTypes
  <2>2. CASE i \in DOMAIN audit /\ audit'[i] = audit[i]
    BY <2>2, Zenon DEF EngineInv, DecisionInv
  <2>3. CASE audit'[i] = d
    <3>1. d.from \in 1..Len(policies) /\ d.from <= d.to
      BY <1>3, <1>5, <1>7
    <3>2. Derived(d, policies[d.from])
      BY <1>3, <1>7, <1>9, Zenon
    <3> QED
      BY <2>3, <3>1, <3>2, Zenon
  <2> QED
    BY <2>1, <2>2, <2>3
<1> QED
  BY <1>1, <1>10, <1>11, <1>12 DEF EngineInv, AllValid

\* A reload leaves the configurations that were active in the history.
LEMMA ReloadKeeps ==
  ASSUME EngineInv, NEW c \in Configs, Reload(c)
  PROVE  EngineInv'
<1>1. policies' = Append(policies, c) /\ sigs' = sigs /\ task' = task /\ audit' = audit
  BY DEF Reload
<1>2. EngineTypes' /\ Len(policies') >= 1
  BY <1>1 DEF EngineInv, EngineTypes
<1>3. \A k \in 1..Len(policies) : k \in 1..Len(policies') /\ policies'[k] = policies[k]
  BY <1>1 DEF EngineInv, EngineTypes
<1>4. TaskInv'
  <2> SUFFICES ASSUME NEW f \in Evaluators, task[f] # idle
               PROVE  /\ task[f].from \in 1..Len(policies') /\ task[f].cfg = policies'[task[f].from]
                      /\ task[f].revokedBefore => IsRevoked(task[f].req.sender)
                      /\ task[f].pc = "audit" /\ task[f].revokedBefore => task[f].revoked
    BY <1>1 DEF TaskInv, IsRevoked
  <2> QED
    BY <1>3, Zenon DEF EngineInv, TaskInv
<1>5. DecisionInv'
  <2> SUFFICES ASSUME NEW i \in DOMAIN audit
               PROVE  /\ audit[i].from \in 1..Len(policies') /\ audit[i].from <= audit[i].to
                      /\ Derived(audit[i], policies'[audit[i].from])
    BY <1>1 DEF DecisionInv, Derived
  <2> QED
    BY <1>3, Zenon DEF EngineInv, DecisionInv
<1>6. AllValid'
  <2>1. Validate(c)
    BY DEF Reload
  <2>2. \A k \in 1..Len(policies') : (k \in 1..Len(policies) /\ policies'[k] = policies[k]) \/ policies'[k] = c
    BY <1>1 DEF EngineInv, EngineTypes
  <2> QED
    BY <2>1, <2>2 DEF EngineInv, AllValid
<1> QED
  BY <1>2, <1>4, <1>5, <1>6 DEF EngineInv

\* A signature more revokes no node less.
LEMMA RevokeKeeps ==
  ASSUME EngineInv, NEW n \in Senders, NEW s \in Sigs, Revoke(n, s)
  PROVE  EngineInv'
<1>1. policies' = policies /\ task' = task /\ audit' = audit /\ sigs' = [sigs EXCEPT ![n] = sigs[n] \cup {s}]
  BY DEF Revoke
<1>2. \A m \in Senders : sigs'[m] = IF m = n THEN sigs[n] \cup {s} ELSE sigs[m]
  BY <1>1 DEF EngineInv, EngineTypes
<1>3. IsFiniteSet(sigs[n] \cup {s})
  BY FS_AddElement, Zenon DEF EngineInv, EngineTypes
<1>4. \A m \in Senders : IsFiniteSet(sigs'[m]) /\ sigs[m] \subseteq sigs'[m]
  BY <1>2, <1>3 DEF EngineInv, EngineTypes
<1>5. EngineTypes'
  BY <1>1, <1>4, Zenon DEF EngineInv, EngineTypes
<1>6. \A m \in Senders : IsRevoked(m) => IsRevoked(m)'
  <2> SUFFICES ASSUME NEW m \in Senders, Cardinality(sigs[m]) >= 2
               PROVE  Cardinality(sigs'[m]) >= 2
    BY DEF IsRevoked
  <2>1. Cardinality(sigs[m]) <= Cardinality(sigs'[m])
    BY <1>4, FS_Subset
  <2>2. Cardinality(sigs[m]) \in Nat /\ Cardinality(sigs'[m]) \in Nat
    BY <1>4, FS_CardinalityType DEF EngineInv, EngineTypes
  <2> QED
    BY <2>1, <2>2
<1>7. TaskInv'
  <2> SUFFICES ASSUME NEW f \in Evaluators, task[f] # idle
               PROVE  /\ task[f].from \in 1..Len(policies) /\ task[f].cfg = policies[task[f].from]
                      /\ task[f].revokedBefore => IsRevoked(task[f].req.sender)'
                      /\ task[f].pc = "audit" /\ task[f].revokedBefore => task[f].revoked
    BY <1>1, Zenon DEF TaskInv, IsRevoked
  <2>1. task[f].req.sender \in Senders
    BY TaskFields, RequestAssumption DEF EngineInv, EngineTypes
  <2>2. IsRevoked(task[f].req.sender)' <=> Cardinality(sigs'[task[f].req.sender]) >= 2
    BY <1>1 DEF IsRevoked
  <2>3. task[f].revokedBefore => IsRevoked(task[f].req.sender)'
    <3> DEFINE m == task[f].req.sender
    <3>1. IsRevoked(m) => Cardinality(sigs'[m]) >= 2
      BY <1>6, <2>1 DEF IsRevoked
    <3>2. task[f].revokedBefore => IsRevoked(m)
      BY Zenon DEF EngineInv, TaskInv
    <3> QED
      BY <2>2, <3>1, <3>2, Zenon
  <2> QED
    BY <2>3, Zenon DEF EngineInv, TaskInv
<1>8. DecisionInv'
  BY <1>1 DEF EngineInv, DecisionInv
<1> QED
  BY <1>1, <1>5, <1>7, <1>8 DEF EngineInv, AllValid
-----------------------------------------------------------------------------
\* The invariant holds of every behaviour of the engine.
THEOREM EngineInvariant == Spec => []EngineInv
<1>1. Init => EngineInv
  <2> SUFFICES ASSUME Init PROVE EngineInv
    OBVIOUS
  <2>1. PICK c \in StartConfigs : policies = <<c>>
    BY DEF Init
  <2>2. policies \in Seq(Configs) /\ Len(policies) >= 1
    BY <2>1, StartAssumption
  <2>3. sigs \in [Senders -> SUBSET Sigs] /\ \A n \in Senders : IsFiniteSet(sigs[n])
    BY FS_EmptySet DEF Init
  <2>4. task \in [Evaluators -> Tasks \cup {idle}] /\ TaskInv
    BY DEF Init, TaskInv
  <2>5. AllValid
    <3>1. Validate(c) /\ Len(policies) = 1 /\ policies[1] = c
      BY <2>1, StartAssumption
    <3> QED
      BY <3>1 DEF AllValid
  <2> QED
    BY <2>2, <2>3, <2>4, <2>5 DEF Init, EngineInv, EngineTypes, DecisionInv
<1>2. EngineInv /\ [Next]_vars => EngineInv'
  <2> SUFFICES ASSUME EngineInv, [Next]_vars PROVE EngineInv'
    OBVIOUS
  <2>1. CASE \E e \in Evaluators, req \in Requests : EvaluateLoad(e, req)
    BY <2>1, LoadKeeps
  <2>2. CASE \E e \in Evaluators : Evaluate(e)
    BY <2>2, CRLKeeps, AuditKeeps DEF Evaluate
  <2>3. CASE \E c \in Configs : Reload(c)
    BY <2>3, ReloadKeeps
  <2>4. CASE \E n \in Senders, s \in Sigs : Revoke(n, s)
    BY <2>4, RevokeKeeps
  <2>5. CASE UNCHANGED vars
    BY <2>5 DEF vars, EngineInv, EngineTypes, TaskInv, DecisionInv, AllValid, Derived, IsRevoked
  <2> QED
    BY <2>1, <2>2, <2>3, <2>4, <2>5 DEF Next
<1> QED
  BY <1>1, <1>2, PTL DEF Spec

\* Every audit row that Evaluate writes follows from one valid configuration that
\* was active while it ran, and never from a mixture of two.
THEOREM EngineDecides == Spec => []DecisionFitsOnePolicy
<1>1. EngineInv => DecisionFitsOnePolicy
  <2> SUFFICES ASSUME EngineInv, NEW i \in DOMAIN audit
               PROVE  \E k \in audit[i].from..audit[i].to, revoked \in BOOLEAN :
                        /\ Validate(policies[k])
                        /\ audit[i].row = row(policies[k], verdict(policies[k], revoked, audit[i].row.req), audit[i].row.req)
    BY DEF DecisionFitsOnePolicy, decisions
  <2>1. audit[i] \in [row: DecisionRows, from: Nat, to: Nat, revokedBefore: BOOLEAN]
    <3> DEFINE S == [row: DecisionRows, from: Nat, to: Nat, revokedBefore: BOOLEAN]
    <3>1. audit \in Seq(S)
      BY DEF EngineInv, EngineTypes
    <3> HIDE DEF S
    <3>2. audit[i] \in S
      BY <3>1
    <3> QED
      BY <3>2 DEF S
  <2>2. audit[i].from \in Nat /\ audit[i].to \in Nat /\ audit[i].from <= audit[i].to
    BY <2>1 DEF EngineInv, DecisionInv
  <2>3. audit[i].from \in audit[i].from..audit[i].to
    BY <2>2
  <2>4. Derived(audit[i], policies[audit[i].from]) /\ Validate(policies[audit[i].from])
    BY DEF EngineInv, DecisionInv, AllValid
  <2> QED
    BY <2>3, <2>4, Zenon DEF Derived
<1> QED
  BY <1>1, EngineInvariant, PTL

\* A sender revoked before Evaluate begins is refused for that reason, whatever
\* is reloaded or revoked while it runs.
THEOREM EngineDeniesRevoked == Spec => []RevokedIsDenied
<1>1. EngineInv => RevokedIsDenied
  <2> SUFFICES ASSUME EngineInv, NEW i \in DOMAIN audit, audit[i].revokedBefore
               PROVE  audit[i].row.reason = "NODE_REVOKED"
    BY Zenon DEF RevokedIsDenied, decisions
  <2> DEFINE c == policies[audit[i].from]
             q == audit[i].row.req
  <2>1. Derived(audit[i], c)
    BY DEF EngineInv, DecisionInv
  <2>2. PICK b \in BOOLEAN : b = TRUE /\ audit[i].row = row(c, verdict(c, b, q), q)
    BY <2>1, Zenon DEF Derived
  <2> HIDE DEF c, q
  <2>3. audit[i].row.reason = verdict(c, b, q)
    <3>1. row(c, verdict(c, b, q), q).reason = verdict(c, b, q)
      BY RowFields
    <3> QED
      BY <2>2, <3>1, Zenon
  <2>4. verdict(c, b, q) = verdict(c, TRUE, q)
    BY <2>2, Zenon
  <2> QED
    BY <2>3, <2>4, VerdictRevoked, Zenon
<1> QED
  BY <1>1, EngineInvariant, PTL

\* Whatever the operator's rules say, health data passes only a node that is
\* regional and strict.
THEOREM EngineKeepsHealthDataRegional == Spec => []Hl7FhirStaysRegional
<1>1. ASSUME NEW c, NEW b \in BOOLEAN, NEW q, q.schema = "hl7fhir", verdict(c, b, q) = "POLICY_ACCEPTED"
      PROVE  c.scope = "regional" /\ c.profile = "strict"
  <2>1. isHl7Fhir(c, Normalize(q.schema))
    BY <1>1 DEF isHl7Fhir, Normalize
  <2>2. ~checks(c, b, q)[5][1] /\ ~checks(c, b, q)[6][1]
    BY <1>1, VerdictAccepted
  <2>3. checks(c, b, q)[5][1] <=> (isHl7Fhir(c, Normalize(q.schema)) /\ c.scope # "regional")
    BY Zenon DEF checks
  <2>4. checks(c, b, q)[6][1] <=> (isHl7Fhir(c, Normalize(q.schema)) /\ c.profile # "strict")
    BY Zenon DEF checks
  <2> QED
    BY <2>1, <2>2, <2>3, <2>4
<1>2. EngineInv => Hl7FhirStaysRegional
  <2> SUFFICES ASSUME EngineInv, NEW i \in DOMAIN audit, audit[i].row.reason = "POLICY_ACCEPTED",
                      audit[i].row.req.schema = "hl7fhir"
               PROVE  audit[i].row.scope = "regional" /\ audit[i].row.profile = "strict"
    BY Zenon DEF Hl7FhirStaysRegional, decisions
  <2> DEFINE c == policies[audit[i].from]
             q == audit[i].row.req
  <2>1. Derived(audit[i], c)
    BY DEF EngineInv, DecisionInv
  <2>2. PICK b \in BOOLEAN : audit[i].row = row(c, verdict(c, b, q), q)
    BY <2>1, Zenon DEF Derived
  <2>3. q.schema = "hl7fhir"
    OBVIOUS
  <2> HIDE DEF c, q
  <2>4. audit[i].row.reason = verdict(c, b, q) /\ audit[i].row.scope = c.scope /\ audit[i].row.profile = c.profile
    BY <2>2, RowFields
  <2> QED
    BY <1>1, <2>4, <2>3, Zenon
<1> QED
  BY <1>2, EngineInvariant, PTL

\* The configuration and the answer of the revocation list that a decision was made from
LEMMA DecisionOrigin ==
  ASSUME EngineInv, NEW d \in decisions
  PROVE  /\ d.row.req \in Requests /\ d.to \in Nat /\ d.from \in Nat /\ d.from >= 1 /\ d.from \in d.from..d.to
         /\ policies[d.from] \in Configs /\ Validate(policies[d.from])
         /\ \E b \in BOOLEAN : /\ d.row = row(policies[d.from], verdict(policies[d.from], b, d.row.req), d.row.req)
                               /\ d.row.reason = verdict(policies[d.from], b, d.row.req)
<1> DEFINE S == [row: DecisionRows, from: Nat, to: Nat, revokedBefore: BOOLEAN]
<1>1. PICK i \in DOMAIN audit : d = audit[i]
  BY DEF decisions
<1>2. d \in S
  <2>1. audit \in Seq(S)
    BY DEF EngineInv, EngineTypes
  <2> HIDE DEF S
  <2> QED
    BY <1>1, <2>1
<1>3. d.row \in DecisionRows /\ d.from \in Nat /\ d.to \in Nat
  BY <1>2
<1>4. d.row.req \in Requests
  BY <1>3 DEF DecisionRows, row
<1>5. d.from \in 1..Len(policies) /\ d.from <= d.to /\ Derived(d, policies[d.from])
  BY <1>1, Zenon DEF EngineInv, DecisionInv
<1>6. policies[d.from] \in Configs /\ Validate(policies[d.from])
  BY <1>5 DEF EngineInv, EngineTypes, AllValid
<1>7. d.from \in d.from..d.to /\ d.from >= 1
  BY <1>3, <1>5
<1>8. PICK b \in BOOLEAN : d.row = row(policies[d.from], verdict(policies[d.from], b, d.row.req), d.row.req)
  BY <1>5, Zenon DEF Derived
<1>9. row(policies[d.from], verdict(policies[d.from], b, d.row.req), d.row.req).reason
        = verdict(policies[d.from], b, d.row.req)
  BY RowFields
<1> QED
  BY <1>3, <1>4, <1>6, <1>7, <1>8, <1>9, Zenon

\* A reason other than acceptance is that of a check which fails.
LEMMA VerdictReason ==
  ASSUME NEW c, NEW b \in BOOLEAN, NEW q, verdict(c, b, q) # "POLICY_ACCEPTED"
  PROVE  \E i \in 1..11 : checks(c, b, q)[i][1] /\ verdict(c, b, q) = checks(c, b, q)[i][2]
<1> DEFINE list == checks(c, b, q)
           failed == {i \in DOMAIN list : list[i][1]}
<1>1. DOMAIN list = 1..11 /\ failed \in SUBSET (1..11)
  BY ChecksShape
<1>2. failed # {} /\ verdict(c, b, q) = list[Min(failed)][2]
  BY Zenon DEF verdict
<1>3. Min(failed) \in failed
  <2> HIDE DEF failed
  <2> QED
    BY <1>1, <1>2, FirstCheck
<1> QED
  BY <1>1, <1>2, <1>3, Zenon

\* The first rule for a schema type is the one that the listing is made from.
LEMMA RuleListed ==
  ASSUME NEW c, c.rules \in Seq(Range(c.rules)), NEW t
  PROVE  /\ matchingRule(c, t) # {} => matchingRule(c, t) = {tomlRule(c.rules, t)} /\ hasIsolationRule(c, t)
         /\ matchingRule(c, t) = {} => tomlRule(c.rules, t) = noRule
<1> DEFINE R == c.rules
           first == {i \in DOMAIN R : R[i].schema = t /\ \A j \in 1..(i - 1) : R[j].schema # t}
<1>1. matchingRule(c, t) = {R[i] : i \in first} /\ first \subseteq DOMAIN R /\ \A i \in first : R[i].schema = t
  BY Zenon DEF matchingRule
<1>2. tomlRule(R, t) = IF first = {} THEN noRule ELSE R[CHOOSE i \in first : TRUE]
  BY Zenon DEF tomlRule
<1>3. \A i, j \in first : i = j
  <2>1. DOMAIN R = 1..Len(R) /\ Len(R) \in Nat
    OBVIOUS
  <2> SUFFICES ASSUME NEW i \in first, NEW j \in first, i < j PROVE FALSE
    BY <2>1
  <2>2. i \in 1..(j - 1)
    BY <2>1
  <2> QED
    BY <2>2, Zenon
<1> HIDE DEF first
<1>4. CASE first = {}
  BY <1>1, <1>2, <1>4
<1>5. CASE first # {}
  <2>1. PICK i : i \in first /\ (CHOOSE x \in first : TRUE) = i
    BY <1>5
  <2>2. first = {i}
    BY <1>3, <2>1
  <2>3. matchingRule(c, t) = {R[i]}
    BY <1>1, <2>2
  <2>4. tomlRule(R, t) = R[i]
    BY <1>2, <1>5, <2>1, Zenon
  <2>5. hasIsolationRule(c, t)
    BY <1>1, <2>1, Zenon DEF hasIsolationRule
  <2> QED
    BY <2>3, <2>4, <2>5, Zenon
<1> QED
  BY <1>4, <1>5

\* What each check of Evaluate after the first asks
LEMMA ChecksAsk ==
  ASSUME NEW c, NEW b \in BOOLEAN, NEW q, NEW t, t = Normalize(q.schema)
  PROVE  /\ checks(c, b, q)[2][1] <=> q.tier < c.minTier
         /\ checks(c, b, q)[3][1] <=> q.to \in c.denyTo
         /\ checks(c, b, q)[4][1] <=> ~isLocalDestination(c, q) /\ c.allowTo # {} /\ q.to \notin c.allowTo
         /\ checks(c, b, q)[5][1] <=> isHl7Fhir(c, t) /\ c.scope # "regional"
         /\ checks(c, b, q)[6][1] <=> isHl7Fhir(c, t) /\ c.profile # "strict"
         /\ checks(c, b, q)[7][1] <=> isDefaultEdifact(c, t) /\ c.scope \notin {"regional", "alliance"}
         /\ checks(c, b, q)[8][1] <=> isDefaultEdifact(c, t) /\ c.profile \notin {"balanced", "strict"}
         /\ checks(c, b, q)[9][1] <=> \E r \in matchingRule(c, t) : r.tiers # {} /\ c.scope \notin r.tiers
         /\ checks(c, b, q)[10][1] <=> \E r \in matchingRule(c, t) : r.regions # {} /\ ~({q.from, q.to} \subseteq r.regions)
         /\ checks(c, b, q)[11][1] <=> \E r \in matchingRule(c, t) : r.profile # "" /\ c.profile # r.profile
BY Zenon DEF checks

\* The reasons of the checks
LEMMA ChecksSay ==
  ASSUME NEW c, NEW b \in BOOLEAN, NEW q
  PROVE  /\ checks(c, b, q)[1][2] = "NODE_REVOKED" /\ checks(c, b, q)[2][2] = "TRUST_TIER_BELOW_MINIMUM"
         /\ checks(c, b, q)[3][2] = "RECIPIENT_REGION_DENIED"
         /\ checks(c, b, q)[4][2] = "RECIPIENT_REGION_NOT_IN_ALLOW_LIST"
         /\ checks(c, b, q)[5][2] = "HL7FHIR_NON_REGIONAL_NODE"
         /\ checks(c, b, q)[6][2] = "HL7FHIR_REQUIRES_STRICT_PROFILE"
         /\ checks(c, b, q)[7][2] = "EDIFACT_NODE_TIER_DENIED"
         /\ checks(c, b, q)[8][2] = "EDIFACT_REQUIRES_BALANCED_PROFILE"
         /\ checks(c, b, q)[9][2] = "JURISDICTION_ISOLATION_TIER_DENIED"
         /\ checks(c, b, q)[10][2] = "JURISDICTION_ISOLATION_REGION_DENIED"
         /\ checks(c, b, q)[11][2] = "JURISDICTION_ISOLATION_PROFILE_MISMATCH"
BY Zenon DEF checks

\* What a configuration permits of a request whose checks all pass
LEMMA AcceptedPermits ==
  ASSUME NEW c \in Configs, Validate(c), NEW b \in BOOLEAN, NEW q \in Requests, verdict(c, b, q) = "POLICY_ACCEPTED",
         NEW mine, mine = {i \in DOMAIN c.rules : c.rules[i].schema = q.schema}
  PROVE  /\ q.tier >= c.minTier
         /\ q.to \notin c.denyTo
         /\ q.to = c.region \/ c.allowTo = {} \/ q.to \in c.allowTo
         /\ mine # {} => /\ c.rules[Min(mine)].regions = {} \/ {q.from, q.to} \subseteq c.rules[Min(mine)].regions
                         /\ c.rules[Min(mine)].tiers = {} \/ c.scope \in c.rules[Min(mine)].tiers
<1> DEFINE t == Normalize(q.schema)
<1>1. \A i \in 1..11 : ~checks(c, b, q)[i][1]
  BY VerdictAccepted
<1>2. ~checks(c, b, q)[2][1] /\ ~checks(c, b, q)[3][1] /\ ~checks(c, b, q)[4][1]
      /\ ~checks(c, b, q)[9][1] /\ ~checks(c, b, q)[10][1]
  BY <1>1
<1>3. /\ ~(q.tier < c.minTier) /\ q.to \notin c.denyTo
      /\ ~(~isLocalDestination(c, q) /\ c.allowTo # {} /\ q.to \notin c.allowTo)
  BY <1>2, ChecksAsk, Zenon
<1>4. /\ ~(\E r \in matchingRule(c, t) : r.tiers # {} /\ c.scope \notin r.tiers)
      /\ ~(\E r \in matchingRule(c, t) : r.regions # {} /\ ~({q.from, q.to} \subseteq r.regions))
  BY <1>2, ChecksAsk, Zenon
<1>5. q.tier >= c.minTier
  BY <1>3, ConfigAssumption, RequestAssumption
<1>6. q.to = c.region \/ c.allowTo = {} \/ q.to \in c.allowTo
  BY <1>3, Zenon DEF isLocalDestination
<1>7. ASSUME mine # {} PROVE c.rules[Min(mine)] \in matchingRule(c, t)
  <2>1. c.rules \in Seq(Range(c.rules))
    BY ConfigAssumption
  <2>2. DOMAIN c.rules = 1..Len(c.rules) /\ Len(c.rules) \in Nat
    BY <2>1
  <2>3. mine \in SUBSET Nat
    BY <2>2
  <2>4. Min(mine) \in mine /\ \A y \in mine : Min(mine) <= y
    <3>1. \E x \in mine : \A y \in mine : x <= y
      BY <1>7, <2>3, LeastNatural
    <3> QED
      BY <3>1, Zenon DEF Min
  <2>5. PICK m : m = Min(mine)
    OBVIOUS
  <2>6. m \in DOMAIN c.rules /\ c.rules[m].schema = q.schema
    BY <2>4, <2>5
  <2>7. \A j \in 1..(m - 1) : c.rules[j].schema # q.schema
    <3> SUFFICES ASSUME NEW j \in 1..(m - 1), c.rules[j].schema = q.schema PROVE FALSE
      OBVIOUS
    <3>1. j \in DOMAIN c.rules /\ j < m /\ m \in Nat /\ j \in Nat
      BY <2>2, <2>6
    <3>2. m <= j
      BY <2>4, <2>5, <3>1
    <3> QED
      BY <3>1, <3>2
  <2>8. q.schema # ""
    BY <2>6, Zenon DEF Validate
  <2>9. t = q.schema
    BY <2>8 DEF Normalize
  <2> QED
    BY <2>5, <2>6, <2>7, <2>9, Zenon DEF matchingRule
<1> QED
  BY <1>3, <1>4, <1>5, <1>6, <1>7, Zenon

\* An envelope that Evaluate lets through is one that a configuration active while
\* it ran permits: the tier, the recipient's region, and the first rule for its schema.
THEOREM EnginePermits == Spec => []AllowedIsPermitted
<1>1. EngineInv => AllowedIsPermitted
  <2> SUFFICES ASSUME EngineInv, NEW d \in decisions, d.row.reason = "POLICY_ACCEPTED"
               PROVE  \E k \in d.from..d.to :
                        LET c == policies[k]
                            req == d.row.req
                            mine == {i \in DOMAIN c.rules : c.rules[i].schema = req.schema}
                        IN  /\ req.tier >= c.minTier
                            /\ req.to \notin c.denyTo
                            /\ req.to = c.region \/ c.allowTo = {} \/ req.to \in c.allowTo
                            /\ mine # {} => LET r == c.rules[Min(mine)]
                                            IN  /\ r.regions = {} \/ {req.from, req.to} \subseteq r.regions
                                                /\ r.tiers = {} \/ c.scope \in r.tiers
    BY Zenon DEF AllowedIsPermitted
  <2> DEFINE c == policies[d.from]
             q == d.row.req
             mine == {i \in DOMAIN c.rules : c.rules[i].schema = q.schema}
  <2>1. q \in Requests /\ c \in Configs /\ Validate(c) /\ d.from \in d.from..d.to
    BY DecisionOrigin, Zenon
  <2>2. PICK b \in BOOLEAN : verdict(c, b, q) = "POLICY_ACCEPTED"
    BY DecisionOrigin, Zenon
  <2>3. /\ q.tier >= c.minTier
        /\ q.to \notin c.denyTo
        /\ q.to = c.region \/ c.allowTo = {} \/ q.to \in c.allowTo
        /\ mine # {} => /\ c.rules[Min(mine)].regions = {} \/ {q.from, q.to} \subseteq c.rules[Min(mine)].regions
                        /\ c.rules[Min(mine)].tiers = {} \/ c.scope \in c.rules[Min(mine)].tiers
    BY <2>1, <2>2, AcceptedPermits, Zenon
  <2> QED
    BY <2>1, <2>3, Zenon
<1> QED
  BY <1>1, EngineInvariant, PTL

\* What an entry of the listing says of a node, of the two ends and of the profile
tierOK(c, l) == l.tiers = {} \/ c.scope \in l.tiers
regionOK(q, l) == l.regions = {} \/ {q.from, q.to} \subseteq l.regions
profileOK(c, t, l) == l.profile \in {"", c.profile} \/ (isDefaultEdifact(c, t) /\ c.profile = "strict")

\* What ListedIsEnforced says of a verdict v on q by the configuration c, where r is
\* the rule for the type t and l the entry listed for it
AsListed(c, q, t, r, l, v) ==
  /\ v = "POLICY_ACCEPTED" =>
       /\ tierOK(c, l) \/ (t = "edifact" /\ hasIsolationRule(c, t) /\ r.tiers = {})
       /\ regionOK(q, l)
       /\ profileOK(c, t, l) \/ (t = "edifact" /\ hasIsolationRule(c, t) /\ r.profile = "")
  /\ v \in {"HL7FHIR_NON_REGIONAL_NODE", "EDIFACT_NODE_TIER_DENIED"} => ~tierOK(c, l)
  /\ v = "JURISDICTION_ISOLATION_TIER_DENIED" => ~tierOK(c, l) \/ (t = "hl7fhir" /\ hasIsolationRule(c, t))
  /\ v = "JURISDICTION_ISOLATION_REGION_DENIED" => ~regionOK(q, l)
  /\ v \in {"HL7FHIR_REQUIRES_STRICT_PROFILE", "EDIFACT_REQUIRES_BALANCED_PROFILE"} => ~profileOK(c, t, l)
  /\ v = "JURISDICTION_ISOLATION_PROFILE_MISMATCH" => ~profileOK(c, t, l) \/ (t = "hl7fhir" /\ hasIsolationRule(c, t))

\* What the listing and a verdict of the configuration it is made from agree on
LEMMA ListingAgrees ==
  ASSUME NEW c \in Configs, NEW b \in BOOLEAN, NEW q, NEW t, t = Normalize(q.schema),
         NEW r, r = tomlRule(c.rules, t), NEW l, l = entryOf(c.rules, t), NEW v, v = verdict(c, b, q)
  PROVE  AsListed(c, q, t, r, l, v)
<1>1. /\ matchingRule(c, t) # {} => matchingRule(c, t) = {r} /\ hasIsolationRule(c, t)
      /\ matchingRule(c, t) = {} => r.tiers = {} /\ r.regions = {} /\ r.profile = ""
  <2>1. c.rules \in Seq(Range(c.rules))
    BY ConfigAssumption
  <2>2. noRule.tiers = {} /\ noRule.regions = {} /\ noRule.profile = ""
    BY DEF noRule
  <2> QED
    BY <2>1, <2>2, RuleListed, Zenon
<1>2. isDefaultEdifact(c, t) <=> t = "edifact" /\ ~hasIsolationRule(c, t)
  BY DEF isDefaultEdifact
<1>3. isHl7Fhir(c, t) <=> t = "hl7fhir"
  BY DEF isHl7Fhir
<1>4. /\ checks(c, b, q)[5][1] <=> isHl7Fhir(c, t) /\ c.scope # "regional"
      /\ checks(c, b, q)[6][1] <=> isHl7Fhir(c, t) /\ c.profile # "strict"
      /\ checks(c, b, q)[7][1] <=> isDefaultEdifact(c, t) /\ c.scope \notin {"regional", "alliance"}
      /\ checks(c, b, q)[8][1] <=> isDefaultEdifact(c, t) /\ c.profile \notin {"balanced", "strict"}
      /\ checks(c, b, q)[9][1] <=> \E x \in matchingRule(c, t) : x.tiers # {} /\ c.scope \notin x.tiers
      /\ checks(c, b, q)[10][1] <=> \E x \in matchingRule(c, t) : x.regions # {} /\ ~({q.from, q.to} \subseteq x.regions)
      /\ checks(c, b, q)[11][1] <=> \E x \in matchingRule(c, t) : x.profile # "" /\ c.profile # x.profile
  <2>1. checks(c, b, q)[5][1] <=> isHl7Fhir(c, t) /\ c.scope # "regional"
    BY ChecksAsk, Zenon
  <2>2. checks(c, b, q)[6][1] <=> isHl7Fhir(c, t) /\ c.profile # "strict"
    BY ChecksAsk, Zenon
  <2>3. checks(c, b, q)[7][1] <=> isDefaultEdifact(c, t) /\ c.scope \notin {"regional", "alliance"}
    BY ChecksAsk, Zenon
  <2>4. checks(c, b, q)[8][1] <=> isDefaultEdifact(c, t) /\ c.profile \notin {"balanced", "strict"}
    BY ChecksAsk, Zenon
  <2>5. checks(c, b, q)[9][1] <=> \E x \in matchingRule(c, t) : x.tiers # {} /\ c.scope \notin x.tiers
    BY ChecksAsk, Zenon
  <2>6. checks(c, b, q)[10][1] <=> \E x \in matchingRule(c, t) : x.regions # {} /\ ~({q.from, q.to} \subseteq x.regions)
    BY Zenon DEF checks
  <2>7. checks(c, b, q)[11][1] <=> \E x \in matchingRule(c, t) : x.profile # "" /\ c.profile # x.profile
    BY ChecksAsk, Zenon
  <2> QED
    BY <2>1, <2>2, <2>3, <2>4, <2>5, <2>6, <2>7, Zenon
<1>5. /\ t = "hl7fhir" => l.tiers = {"regional"} /\ l.profile = "strict"
      /\ t = "edifact" => /\ l.tiers = IF r.tiers = {} THEN {"regional", "alliance"} ELSE r.tiers
                          /\ l.profile = IF r.profile = "" THEN "balanced" ELSE r.profile
      /\ t \notin {"hl7fhir", "edifact"} => l.tiers = r.tiers /\ l.profile = r.profile
      /\ l.regions = r.regions
  BY DEF entryOf
<1>6. CASE v = "POLICY_ACCEPTED"
  <2>1. \A i \in 1..11 : ~checks(c, b, q)[i][1]
    BY <1>6, VerdictAccepted, Zenon
  <2>2. /\ ~checks(c, b, q)[5][1] /\ ~checks(c, b, q)[6][1] /\ ~checks(c, b, q)[7][1] /\ ~checks(c, b, q)[8][1]
        /\ ~checks(c, b, q)[9][1] /\ ~checks(c, b, q)[10][1] /\ ~checks(c, b, q)[11][1]
    BY <2>1
  <2>3. /\ t = "hl7fhir" => c.scope = "regional" /\ c.profile = "strict"
        /\ isDefaultEdifact(c, t) => c.scope \in {"regional", "alliance"} /\ c.profile \in {"balanced", "strict"}
    BY <1>3, <2>2, <1>4
  <2>4. \A x \in matchingRule(c, t) : /\ x.tiers = {} \/ c.scope \in x.tiers
                                      /\ x.regions = {} \/ {q.from, q.to} \subseteq x.regions
                                      /\ x.profile = "" \/ c.profile = x.profile
    BY <2>2, <1>4
  <2>5. /\ r.tiers = {} \/ c.scope \in r.tiers
        /\ r.regions = {} \/ {q.from, q.to} \subseteq r.regions
        /\ r.profile = "" \/ c.profile = r.profile
    BY <1>1, <2>4, Zenon
  <2>6. tierOK(c, l) \/ (t = "edifact" /\ hasIsolationRule(c, t) /\ r.tiers = {})
    BY <1>2, <2>3, <2>5, <1>5 DEF tierOK
  <2>7. regionOK(q, l)
    BY <2>5, <1>5 DEF regionOK
  <2>8. profileOK(c, t, l) \/ (t = "edifact" /\ hasIsolationRule(c, t) /\ r.profile = "")
    BY <1>2, <2>3, <2>5, <1>5 DEF profileOK
  <2> QED
    BY <1>6, <2>6, <2>7, <2>8, Zenon DEF AsListed
<1>7. CASE v # "POLICY_ACCEPTED"
  <2>1. PICK i \in 1..11 : checks(c, b, q)[i][1] /\ v = checks(c, b, q)[i][2]
    <3>1. verdict(c, b, q) # "POLICY_ACCEPTED"
      BY <1>7
    <3> QED
      BY <3>1, VerdictReason
  <2>2. \/ i = 1 \/ i = 2 \/ i = 3 \/ i = 4 \/ i = 5 \/ i = 6 \/ i = 7 \/ i = 8 \/ i = 9 \/ i = 10 \/ i = 11
    OBVIOUS
  <2>3. /\ v = "HL7FHIR_NON_REGIONAL_NODE" => checks(c, b, q)[5][1]
        /\ v = "HL7FHIR_REQUIRES_STRICT_PROFILE" => checks(c, b, q)[6][1]
        /\ v = "EDIFACT_NODE_TIER_DENIED" => checks(c, b, q)[7][1]
        /\ v = "EDIFACT_REQUIRES_BALANCED_PROFILE" => checks(c, b, q)[8][1]
        /\ v = "JURISDICTION_ISOLATION_TIER_DENIED" => checks(c, b, q)[9][1]
        /\ v = "JURISDICTION_ISOLATION_REGION_DENIED" => checks(c, b, q)[10][1]
        /\ v = "JURISDICTION_ISOLATION_PROFILE_MISMATCH" => checks(c, b, q)[11][1]
    BY <2>1, <2>2, ChecksSay
  <2>4. v \in {"HL7FHIR_NON_REGIONAL_NODE", "EDIFACT_NODE_TIER_DENIED"} => ~tierOK(c, l)
    <3>1. v = "HL7FHIR_NON_REGIONAL_NODE" => t = "hl7fhir" /\ c.scope # "regional"
      BY <1>3, <2>3, <1>4
    <3>2. v = "EDIFACT_NODE_TIER_DENIED" => isDefaultEdifact(c, t) /\ c.scope \notin {"regional", "alliance"}
      BY <2>3, <1>4
    <3> QED
      BY <1>1, <1>2, <3>1, <3>2, <1>5 DEF tierOK
  <2>5. v = "JURISDICTION_ISOLATION_TIER_DENIED" => ~tierOK(c, l) \/ (t = "hl7fhir" /\ hasIsolationRule(c, t))
    <3>1. v = "JURISDICTION_ISOLATION_TIER_DENIED"
            => \E x \in matchingRule(c, t) : x.tiers # {} /\ c.scope \notin x.tiers
      BY <2>3, <1>4
    <3> QED
      BY <1>1, <3>1, <1>5 DEF tierOK
  <2>6. v = "JURISDICTION_ISOLATION_REGION_DENIED" => ~regionOK(q, l)
    <3>1. v = "JURISDICTION_ISOLATION_REGION_DENIED"
            => \E x \in matchingRule(c, t) : x.regions # {} /\ ~({q.from, q.to} \subseteq x.regions)
      BY <2>3, <1>4
    <3> QED
      BY <1>1, <3>1, <1>5 DEF regionOK
  <2>7. v \in {"HL7FHIR_REQUIRES_STRICT_PROFILE", "EDIFACT_REQUIRES_BALANCED_PROFILE"} => ~profileOK(c, t, l)
    <3>1. v = "HL7FHIR_REQUIRES_STRICT_PROFILE" => t = "hl7fhir" /\ c.profile # "strict"
      BY <1>3, <2>3, <1>4
    <3>2. v = "EDIFACT_REQUIRES_BALANCED_PROFILE" => isDefaultEdifact(c, t) /\ c.profile \notin {"balanced", "strict"}
      BY <2>3, <1>4
    <3> QED
      BY <1>1, <1>2, <3>1, <3>2, <1>5 DEF profileOK
  <2>8. v = "JURISDICTION_ISOLATION_PROFILE_MISMATCH" => ~profileOK(c, t, l) \/ (t = "hl7fhir" /\ hasIsolationRule(c, t))
    <3>1. v = "JURISDICTION_ISOLATION_PROFILE_MISMATCH"
            => \E x \in matchingRule(c, t) : x.profile # "" /\ c.profile # x.profile
      BY <2>3, <1>4
    <3> QED
      BY <1>1, <1>2, <3>1, <1>5 DEF profileOK
  <2> QED
    BY <1>7, <2>4, <2>5, <2>6, <2>7, <2>8, Zenon DEF AsListed
<1> QED
  BY <1>6, <1>7, Zenon

\* As long as no configuration is stored after the start, GET schema/adapters and
\* Evaluate agree on what each schema type requires, but for the operator's rules
\* on edifact and health data that the listing leaves out.
THEOREM EngineEnforcesListing == Spec => []ListedIsEnforced
<1>1. ASSUME EngineInv, NEW d \in decisions, d.to = 1
      PROVE  LET c == policies[1]
                 t == Normalize(d.row.req.schema)
                 r == tomlRule(c.rules, t)
                 l == entryOf(c.rules, t)
                 lifted == t = "edifact" /\ hasIsolationRule(c, t)
                 hidden == t = "hl7fhir" /\ hasIsolationRule(c, t)
             IN  /\ d.row.reason = "POLICY_ACCEPTED" =>
                      /\ tierOK(c, l) \/ (lifted /\ r.tiers = {})
                      /\ regionOK(d.row.req, l)
                      /\ profileOK(c, t, l) \/ (lifted /\ r.profile = "")
                 /\ d.row.reason \in {"HL7FHIR_NON_REGIONAL_NODE", "EDIFACT_NODE_TIER_DENIED"} => ~tierOK(c, l)
                 /\ d.row.reason = "JURISDICTION_ISOLATION_TIER_DENIED" => ~tierOK(c, l) \/ hidden
                 /\ d.row.reason = "JURISDICTION_ISOLATION_REGION_DENIED" => ~regionOK(d.row.req, l)
                 /\ d.row.reason \in {"HL7FHIR_REQUIRES_STRICT_PROFILE", "EDIFACT_REQUIRES_BALANCED_PROFILE"}
                      => ~profileOK(c, t, l)
                 /\ d.row.reason = "JURISDICTION_ISOLATION_PROFILE_MISMATCH" => ~profileOK(c, t, l) \/ hidden
  <2>1. d.from = 1
    BY <1>1, DecisionOrigin
  <2>2. policies[1] \in Configs /\ \E b \in BOOLEAN : d.row.reason = verdict(policies[1], b, d.row.req)
    BY <1>1, <2>1, DecisionOrigin
  <2>3. PICK b \in BOOLEAN : d.row.reason = verdict(policies[1], b, d.row.req)
    BY <2>2
  <2>4. PICK c, q : c \in Configs /\ c = policies[1] /\ q = d.row.req
    BY <2>2
  <2>5. PICK t : t = Normalize(q.schema)
    OBVIOUS
  <2>6. PICK r, l, v : r = tomlRule(c.rules, t) /\ l = entryOf(c.rules, t) /\ v = verdict(c, b, q)
    OBVIOUS
  <2>7. AsListed(c, q, t, r, l, v)
    BY <2>4, <2>5, <2>6, ListingAgrees, Zenon
  <2> QED
    BY <2>3, <2>4, <2>5, <2>6, <2>7 DEF AsListed
<1>2. EngineInv => ListedIsEnforced
  BY <1>1, Zenon DEF ListedIsEnforced, tierOK, regionOK, profileOK
<1> QED
  BY <1>2, EngineInvariant, PTL
=============================================================================

---------------------------- MODULE PolicyEngine ----------------------------
(***************************************************************************)
(* The policy engine of a node (internal/policy/engine.go), the revocation *)
(* list it asks (internal/crl/store.go) and the rows it writes to the      *)
(* audit log, while the configuration is replaced under it (hot reload,    *)
(* POST config/reload, PUT config).                                        *)
(*                                                                         *)
(* Evaluate takes three steps that others run between: it loads the        *)
(* configuration once, asks the revocation list, and appends its decision  *)
(* to the audit log.  Profile names are taken without their case, which    *)
(* every comparison of the code ignores.                                   *)
(***************************************************************************)
EXTENDS Naturals, Sequences, FiniteSetsExt, AdapterListing

CONSTANTS Evaluators,  \* goroutines in SendEnvelope
          Configs,     \* configurations an operator may install, valid or not
          StartConfigs, \* the ones a node may start with
          Requests,    \* policy.Request values that occur
          Senders,     \* node ids
          Sigs,        \* signatures on revocations
          MaxReloads,  \* the bound on reloads
          MaxAudit     \* the bound on audit rows

Tiers == {"regional", "alliance", "global"}

\* Config.Validate, as far as the engine's fields go
Validate(c) ==
  /\ c.scope \in Tiers
  /\ c.version # ""
  /\ c.scope \in {"regional", "global"} => c.region # ""
  /\ \A i \in DOMAIN c.rules : c.rules[i].schema # "" /\ c.rules[i].tiers \subseteq Tiers

ASSUME StartAssumption == StartConfigs \subseteq Configs /\ \A c \in StartConfigs : Validate(c)
ASSUME ConfigAssumption == \A c \in Configs : c.minTier \in Int /\ c.rules \in Seq(Range(c.rules))
ASSUME RequestAssumption == \A req \in Requests : req.sender \in Senders /\ req.tier \in Int
ASSUME BoundAssumption == MaxReloads \in Nat /\ MaxAudit \in Nat

VARIABLES policies, \* configurations stored in Engine.cfg so far; the last is the active one
          sigs,     \* for each node, the signatures of its entry in the revocation list
          task,     \* for each evaluator, where its Evaluate is
          audit     \* the rows of the audit log, each with when its evaluation ran

vars == <<policies, sigs, task, audit>>

idle == [pc |-> "idle"]

\* What e.cfg.Load() returns
active == policies[Len(policies)]

\* Store.IsRevoked
IsRevoked(n) == Cardinality(sigs[n]) >= 2

Normalize(t) == IF t = "" THEN "messaging" ELSE t

hasIsolationRule(c, t) == \E i \in DOMAIN c.rules : c.rules[i].schema = t

\* When enforceHl7FhirPolicy applies, and when the defaults for edifact do.
\* Mutant: a rule of the operator's lifts the first, as it does the second.
isHl7FhirWithoutRule(c, t) == t = "hl7fhir" /\ ~hasIsolationRule(c, "hl7fhir")
isHl7Fhir(c, t) == t = "hl7fhir"
isDefaultEdifact(c, t) == t = "edifact" /\ ~hasIsolationRule(c, "edifact")

\* Mutant: the last rule for t
lastMatchingRule(c, t) ==
  {c.rules[i] : i \in {i \in DOMAIN c.rules : /\ c.rules[i].schema = t
                                              /\ \A j \in DOMAIN c.rules : j > i => c.rules[j].schema # t}}

\* The first rule of [policy.jurisdiction_isolation] for t, as a set of at most one
matchingRule(c, t) ==
  {c.rules[i] : i \in {i \in DOMAIN c.rules : /\ c.rules[i].schema = t
                                              /\ \A j \in 1..(i - 1) : c.rules[j].schema # t}}

isLocalDestination(c, req) == c.region # "" /\ req.to = c.region

(* The checks of Evaluate in the order they are made: what fails, and the
   reason a failure gives.  enforceHl7FhirPolicy, enforceEdifactDefaults and
   evaluateJurisdictionIsolation are the last seven.                        *)
checks(c, revoked, req) ==
  LET t == Normalize(req.schema)
      hl7fhir == isHl7Fhir(c, t)
      edifact == isDefaultEdifact(c, t)
  IN  << <<revoked, "NODE_REVOKED">>,
         <<req.tier < c.minTier, "TRUST_TIER_BELOW_MINIMUM">>,
         <<req.to \in c.denyTo, "RECIPIENT_REGION_DENIED">>,
         <<~isLocalDestination(c, req) /\ c.allowTo # {} /\ req.to \notin c.allowTo,
           "RECIPIENT_REGION_NOT_IN_ALLOW_LIST">>,
         <<hl7fhir /\ c.scope # "regional", "HL7FHIR_NON_REGIONAL_NODE">>,
         <<hl7fhir /\ c.profile # "strict", "HL7FHIR_REQUIRES_STRICT_PROFILE">>,
         <<edifact /\ c.scope \notin {"regional", "alliance"}, "EDIFACT_NODE_TIER_DENIED">>,
         <<edifact /\ c.profile \notin {"balanced", "strict"}, "EDIFACT_REQUIRES_BALANCED_PROFILE">>,
         <<\E r \in matchingRule(c, t) : r.tiers # {} /\ c.scope \notin r.tiers,
           "JURISDICTION_ISOLATION_TIER_DENIED">>,
         <<\E r \in matchingRule(c, t) : r.regions # {} /\ ~({req.from, req.to} \subseteq r.regions),
           "JURISDICTION_ISOLATION_REGION_DENIED">>,
         <<\E r \in matchingRule(c, t) : r.profile # "" /\ c.profile # r.profile,
           "JURISDICTION_ISOLATION_PROFILE_MISMATCH">> >>

\* Mutant: the last check to fail gives the reason.
verdictOfLast(c, revoked, req) ==
  LET list == checks(c, revoked, req)
      failed == {i \in DOMAIN list : list[i][1]}
  IN  IF failed = {} THEN "POLICY_ACCEPTED" ELSE list[Max(failed)][2]

\* The reason that Evaluate gives: that of the first check to fail
verdict(c, revoked, req) ==
  LET list == checks(c, revoked, req)
      failed == {i \in DOMAIN list : list[i][1]}
  IN  IF failed = {} THEN "POLICY_ACCEPTED" ELSE list[Min(failed)][2]

\* The columns of an audit row that come from the configuration c
row(c, reason, req) ==
  [version |-> c.version, scope |-> c.scope, profile |-> c.profile, reason |-> reason, req |-> req]
-----------------------------------------------------------------------------
Init ==
  /\ \E c \in StartConfigs : policies = <<c>>
  /\ sigs = [n \in Senders |-> {}]
  /\ task = [e \in Evaluators |-> idle]
  /\ audit = <<>>

\* cfg := *e.cfg.Load()
EvaluateLoad(e, req) ==
  /\ task[e] = idle
  /\ task' = [task EXCEPT ![e] = [pc |-> "crl", req |-> req, cfg |-> active, revoked |-> FALSE,
                                  from |-> Len(policies), revokedBefore |-> IsRevoked(req.sender)]]
  /\ UNCHANGED <<policies, sigs, audit>>

\* e.crlStore.IsRevoked(req.SenderNodeID)
EvaluateCRL(e) ==
  /\ task[e].pc = "crl"
  /\ task' = [task EXCEPT ![e].pc = "audit", ![e].revoked = IsRevoked(task[e].req.sender)]
  /\ UNCHANGED <<policies, sigs, audit>>

\* Mutant: the row is written with the configuration of the moment.
EvaluateAuditLate(e) ==
  LET t == task[e]
  IN  /\ t.pc = "audit"
      /\ Len(audit) < MaxAudit
      /\ audit' = Append(audit, [row |-> row(active, verdict(t.cfg, t.revoked, t.req), t.req),
                                 from |-> t.from, to |-> Len(policies), revokedBefore |-> t.revokedBefore])
      /\ task' = [task EXCEPT ![e] = idle]
      /\ UNCHANGED <<policies, sigs>>

\* The rest of Evaluate: its decision, appended with the configuration it loaded
EvaluateAudit(e) ==
  LET t == task[e]
  IN  /\ t.pc = "audit"
      /\ Len(audit) < MaxAudit
      /\ audit' = Append(audit, [row |-> row(t.cfg, verdict(t.cfg, t.revoked, t.req), t.req),
                                 from |-> t.from, to |-> Len(policies), revokedBefore |-> t.revokedBefore])
      /\ task' = [task EXCEPT ![e] = idle]
      /\ UNCHANGED <<policies, sigs>>

\* Engine.Reload, for a configuration that is valid; another leaves no trace
Reload(c) ==
  /\ Len(policies) <= MaxReloads
  /\ Validate(c)
  /\ policies' = Append(policies, c)
  /\ UNCHANGED <<sigs, task, audit>>

\* Store.Revoke: a signature it has already is dropped
Revoke(n, s) ==
  /\ sigs' = [sigs EXCEPT ![n] = @ \cup {s}]
  /\ UNCHANGED <<policies, task, audit>>

Evaluate(e) == EvaluateCRL(e) \/ EvaluateAudit(e)

Next ==
  \/ \E e \in Evaluators, req \in Requests : EvaluateLoad(e, req)
  \/ \E e \in Evaluators : Evaluate(e)
  \/ \E c \in Configs : Reload(c)
  \/ \E n \in Senders, s \in Sigs : Revoke(n, s)

Spec == Init /\ [][Next]_vars
-----------------------------------------------------------------------------
decisions == {audit[i] : i \in DOMAIN audit}

\* A decision can be re-derived from its audit row: a valid configuration that was
\* active while it was made, and that bears the recorded version, scope and
\* profile, gives the recorded reason.  No decision mixes two configurations, and
\* none is made by one that Validate rejects.
DecisionFitsOnePolicy ==
  \A d \in decisions : \E k \in d.from..d.to, revoked \in BOOLEAN :
    Validate(policies[k]) /\ d.row = row(policies[k], verdict(policies[k], revoked, d.row.req), d.row.req)

\* A node that is revoked when Evaluate begins is denied for that reason, even
\* if the configuration is replaced while it runs.
RevokedIsDenied == \A d \in decisions : d.revokedBefore => d.row.reason = "NODE_REVOKED"

\* No configuration, and no reload, lets a node pass health data unless the node
\* is regional and strict at the time, by its own audit row.
Hl7FhirStaysRegional ==
  \A d \in decisions : d.row.reason = "POLICY_ACCEPTED" /\ d.row.req.schema = "hl7fhir"
                         => d.row.scope = "regional" /\ d.row.profile = "strict"

\* An envelope is let through only if the policy permits it: the recipient region
\* is not denied, is local or allowed, and every jurisdiction that the first rule
\* for its schema lists covers both ends.
AllowedIsPermitted ==
  \A d \in decisions : d.row.reason = "POLICY_ACCEPTED" =>
    \E k \in d.from..d.to :
      LET c == policies[k]
          req == d.row.req
          mine == {i \in DOMAIN c.rules : c.rules[i].schema = req.schema}
      IN  /\ req.tier >= c.minTier
          /\ req.to \notin c.denyTo
          /\ req.to = c.region \/ c.allowTo = {} \/ req.to \in c.allowTo
          /\ mine # {} => LET r == c.rules[Min(mine)]
                          IN  /\ r.regions = {} \/ {req.from, req.to} \subseteq r.regions
                              /\ r.tiers = {} \/ c.scope \in r.tiers

\* What GET schema/adapters says of a schema type is what the engine enforces, as
\* long as no configuration was stored since the start, which is the one the
\* listing is made from: a decision to let an envelope through respects the entry
\* of its type, and a refusal on account of the type has its ground in that entry.
\* The operator's own rules are where the listing says too much or too little: it
\* shows the defaults of edifact that any rule lifts, in place of what the rule
\* leaves open, and hides what a rule adds for health data.
ListedIsEnforced ==
  \A d \in decisions : d.to = 1 =>
    LET c == policies[1]
        t == Normalize(d.row.req.schema)
        r == tomlRule(c.rules, t)
        l == entryOf(c.rules, t)
        tierOK == l.tiers = {} \/ c.scope \in l.tiers
        regionOK == l.regions = {} \/ {d.row.req.from, d.row.req.to} \subseteq l.regions
        profileOK == l.profile \in {"", c.profile} \/ (isDefaultEdifact(c, t) /\ c.profile = "strict")
        lifted == t = "edifact" /\ hasIsolationRule(c, t)
        hidden == t = "hl7fhir" /\ hasIsolationRule(c, t)
    IN  /\ d.row.reason = "POLICY_ACCEPTED" =>
             /\ tierOK \/ (lifted /\ r.tiers = {})
             /\ regionOK
             /\ profileOK \/ (lifted /\ r.profile = "")
        /\ d.row.reason \in {"HL7FHIR_NON_REGIONAL_NODE", "EDIFACT_NODE_TIER_DENIED"} => ~tierOK
        /\ d.row.reason = "JURISDICTION_ISOLATION_TIER_DENIED" => ~tierOK \/ hidden
        /\ d.row.reason = "JURISDICTION_ISOLATION_REGION_DENIED" => ~regionOK
        /\ d.row.reason \in {"HL7FHIR_REQUIRES_STRICT_PROFILE", "EDIFACT_REQUIRES_BALANCED_PROFILE"} => ~profileOK
        /\ d.row.reason = "JURISDICTION_ISOLATION_PROFILE_MISMATCH" => ~profileOK \/ hidden
=============================================================================

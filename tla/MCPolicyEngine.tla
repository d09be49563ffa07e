--------------------------- MODULE MCPolicyEngine ---------------------------
(* Five configurations: a strict regional node, a laxer one of the same      *)
(* region, a global node whose rule would let health data through, a strict  *)
(* node with that rule and one for edifact that leaves everything open, and  *)
(* one that Validate rejects.                                                *)
EXTENDS PolicyEngine

CONSTANTS e1, s1, s2, n1

noRules == <<>>
lawful == [schema |-> "edifact", tiers |-> {"regional"}, regions |-> {"EU", "CH"}, profile |-> "balanced"]
loose == [schema |-> "hl7fhir", tiers |-> {"global"}, regions |-> {}, profile |-> ""]
shadowed == [schema |-> "edifact", tiers |-> {}, regions |-> {}, profile |-> ""]

strict == [version |-> "v1", scope |-> "regional", region |-> "EU", profile |-> "strict", minTier |-> 1,
           denyTo |-> {"US"}, allowTo |-> {"CH", "US"}, rules |-> noRules]
balanced == [version |-> "v2", scope |-> "regional", region |-> "EU", profile |-> "balanced", minTier |-> 0,
             denyTo |-> {}, allowTo |-> {}, rules |-> <<lawful, shadowed>>]
global == [version |-> "v3", scope |-> "global", region |-> "US", profile |-> "performance", minTier |-> 0,
           denyTo |-> {}, allowTo |-> {"EU", "CH"}, rules |-> <<loose>>]
ruled == [strict EXCEPT !.version = "v4", !.minTier = 0, !.rules = <<loose, shadowed>>]
broken == [global EXCEPT !.scope = "planet"]

MCConfigs == {strict, balanced, global, ruled, broken}
MCStartConfigs == {strict, balanced, global, ruled}
MCEvaluators == {e1}
MCSenders == {n1}
MCSigs == {s1, s2}

MCRequests ==
  {[sender |-> n1, from |-> "EU", to |-> "CH", tier |-> 1, schema |-> "hl7fhir"],
   [sender |-> n1, from |-> "US", to |-> "EU", tier |-> 0, schema |-> "edifact"],
   [sender |-> n1, from |-> "EU", to |-> "US", tier |-> 2, schema |-> "messaging"]}
=============================================================================

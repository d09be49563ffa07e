--------------------------- MODULE AdapterListing ---------------------------
(***************************************************************************)
(* What GET schema/adapters says of the built-in schema types              *)
(* (internal/server/http.go): the restrictions the operator's rules and    *)
(* the code itself put on each.  An empty set or text is no restriction.   *)
(***************************************************************************)
EXTENDS Integers

Builtins == {"messaging", "iso20022", "hl7fhir", "edifact"}

noRule == [schema |-> "", tiers |-> {}, regions |-> {}, profile |-> ""]

\* tomlRule: the first rule for t, or one without restrictions
tomlRule(rules, t) ==
  LET first == {i \in DOMAIN rules : rules[i].schema = t /\ \A j \in 1..(i - 1) : rules[j].schema # t}
  IN  IF first = {} THEN noRule ELSE rules[CHOOSE i \in first : TRUE]

\* Mutant: the rule's restrictions are listed for every type.
entryByRule(rules, t) ==
  LET r == tomlRule(rules, t)
  IN  [type |-> t, tiers |-> r.tiers, regions |-> r.regions, profile |-> r.profile]

\* The entry of a built-in type: health data is listed with the constraints that
\* no rule lifts, edifact with its defaults where the rule has none of its own.
entryOf(rules, t) ==
  LET r == tomlRule(rules, t)
  IN  [type    |-> t,
       tiers   |-> CASE t = "hl7fhir" -> {"regional"}
                     [] t = "edifact" /\ r.tiers = {} -> {"regional", "alliance"}
                     [] OTHER -> r.tiers,
       regions |-> r.regions,
       profile |-> CASE t = "hl7fhir" -> "strict"
                     [] t = "edifact" /\ r.profile = "" -> "balanced"
                     [] OTHER -> r.profile]
=============================================================================

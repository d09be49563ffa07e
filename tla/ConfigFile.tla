----------------------------- MODULE ConfigFile -----------------------------
(***************************************************************************)
(* How a configuration file becomes a Config (internal/config): presets by *)
(* profile, the values of the file over them, and Validate.                *)
(*                                                                         *)
(* A Config is a record with the fields of the Go structs, flattened.  The *)
(* decoded file, rawTOML, is a record of the keys that the file has, under *)
(* the name of the field each is for.  A text is "", " " (blanks only) or  *)
(* a word: blanks around a word, which TrimSpace drops, are left out.      *)
(* Durations are numbers in the unit of their key.                         *)
(***************************************************************************)
EXTENDS Integers, Sequences, TLC

TrimSpace(s) == IF s = " " THEN "" ELSE s

\* What apply does with a field depends on its kind: a text counts unless it is
\* blank, a number if it is positive, a sequence unless it is empty, and the
\* others (slices, maps, pointers) as soon as the key is there.
texts ==
  {"NodeID", "NodeScope", "Region", "AllianceID", "Disclaimer", "OperatorID", "PolicyVersion",
   "ApplicableLaw", "SignedBy", "LogLevel", "LogFormat", "LogBackend", "AppIsolation", "AutoAccept",
   "Cert", "Key", "CA", "APIKey", "JWTSecret", "Backend", "Path", "RedisURL", "KeyPrefix"}
numbers ==
  {"DiscoveryTokenTTL", "PaddingBucket", "TimingJitterMax", "DedupTTL", "DummyTrafficRate",
   "TransitCacheTTL", "DNSTXTInterval", "ShutdownTimeout", "PeerGossipInterval"}
sequences == {"Adapters", "Rules"}

\* DefaultConfigForProfile before its switch, with Go's zero values
base ==
  [NodeID |-> "rs-node-01", NodeScope |-> "regional", Region |-> "RS", Regions |-> {}, AllianceID |-> "",
   Disclaimer |-> "", OperatorID |-> "example-operator", PolicyVersion |-> "0.1.0",
   ApplicableLaw |-> "RS-GDPR", SignedBy |-> "ed25519:REPLACE_ME", DiscoveryTokenTTL |-> 300,
   LogLevel |-> "", LogFormat |-> "",
   AllowTo |-> {"RU", "BY", "KZ", "AM"}, DenyTo |-> {}, StoreLocally |-> TRUE, MinTrustTier |-> 0,
   LogBackend |-> "local-merkle", LogAllDecisions |-> TRUE, ExportToOperator |-> FALSE,
   DNSTXTPublish |-> TRUE, DNSTXTInterval |-> 21600, HTTPSWellKnown |-> TRUE, RootHashGossip |-> FALSE,
   AllowVia |-> {}, AppIsolation |-> "SAME_APP_ONLY", AllowedAppIDs |-> {}, AutoAccept |-> "MANUAL",
   TrustedNodes |-> {}, Rules |-> <<>>,
   GRPCListenAddr |-> ":7777", HTTPListenAddr |-> ":8080", MetricsAddr |-> ":9090", ShutdownTimeout |-> 5,
   BootstrapNodes |-> {}, PeerGossipInterval |-> 0, Peers |-> << >>,
   Cert |-> "", Key |-> "", CA |-> "", Insecure |-> FALSE, APIKey |-> "", JWTSecret |-> "",
   Backend |-> "", Path |-> "", RedisURL |-> "", KeyPrefix |-> "", Apps |-> << >>, Adapters |-> <<>>,
   Iso20022 |-> [DedupTTLH |-> 0, SettlementFinality |-> FALSE, RetainLong |-> FALSE, CutoffWindows |-> << >>]]

\* DefaultConfigForProfile; a name it does not know gets what balanced does
DefaultConfigForProfile(name) ==
  CASE name = "strict" ->
         [Name |-> "strict", DedupTTL |-> 72, TimingJitterMax |-> 500, PaddingBucket |-> 16384,
          DummyTrafficRate |-> 5, TransitCacheTTL |-> 30, DNSTXTInterval |-> 3600] @@ base
    [] name = "performance" ->
         [Name |-> "performance", DedupTTL |-> 1, TimingJitterMax |-> 0, PaddingBucket |-> 0,
          DummyTrafficRate |-> 0, TransitCacheTTL |-> 0, DNSTXTInterval |-> 0, LogAllDecisions |-> FALSE,
          ExportToOperator |-> FALSE, DNSTXTPublish |-> FALSE, HTTPSWellKnown |-> FALSE,
          StoreLocally |-> FALSE] @@ base
    [] OTHER ->
         [Name |-> "balanced", DedupTTL |-> 24, TimingJitterMax |-> 100, PaddingBucket |-> 4096,
          DummyTrafficRate |-> 60, TransitCacheTTL |-> 30] @@ base

has(raw, key) ==
  /\ key \in DOMAIN raw
  /\ key \in texts => TrimSpace(raw[key]) # ""
  /\ key \in numbers => raw[key] > 0
  /\ key \in sequences => raw[key] # <<>>

profileName(raw) == IF "Name" \in DOMAIN raw /\ TrimSpace(raw.Name) # "" THEN raw.Name ELSE "balanced"

\* The keys an address is taken from: an address, the older name for it, a port
hasText(raw, key) == key \in DOMAIN raw /\ TrimSpace(raw[key]) # ""
hasPort(raw, key) == key \in DOMAIN raw /\ raw[key] > 0
port(n) == ":" \o ToString(n)

listenAddr(raw, addr, alias, number, default) ==
  CASE hasText(raw, addr) -> raw[addr]
    [] ~hasText(raw, addr) /\ hasText(raw, alias) -> raw[alias]
    [] ~hasText(raw, addr) /\ ~hasText(raw, alias) /\ hasPort(raw, number) -> port(raw[number])
    [] OTHER -> default

\* An application and an adapter of the file, with their defaults
appFrom(app) ==
  [app EXCEPT !.WebhookTimeout = IF @ <= 0 THEN 5 ELSE @,
              !.AutoAccept = IF @ = "" THEN "manual" ELSE @]
adapterFrom(a) == a @@ [Enabled |-> TRUE]

isoGiven(iso) ==
  iso.DedupTTLH > 0 \/ iso.SettlementFinality \/ iso.RetainLong \/ DOMAIN iso.CutoffWindows # {}

applied(raw, cfg, f) ==
  CASE f = "Name" -> profileName(raw)
    [] f = "Insecure" -> "Insecure" \in DOMAIN raw /\ raw.Insecure
    [] f = "GRPCListenAddr" -> listenAddr(raw, "GRPCListenAddr", "ListenAddr", "GRPCPort", cfg[f])
    [] f = "HTTPListenAddr" -> listenAddr(raw, "HTTPListenAddr", "", "HTTPPort", cfg[f])
    [] f = "MetricsAddr" -> listenAddr(raw, "MetricsAddr", "", "MetricsPort", cfg[f])
    [] f = "Peers" /\ has(raw, f) -> [k \in DOMAIN raw.Peers |-> raw.Peers[k] @@ [Region |-> k]]
    [] f = "Apps" /\ has(raw, f) -> [id \in DOMAIN raw.Apps |-> appFrom(raw.Apps[id])]
    [] f = "Adapters" /\ has(raw, f) -> [i \in DOMAIN raw.Adapters |-> adapterFrom(raw.Adapters[i])]
    [] f = "Iso20022" -> IF f \in DOMAIN raw /\ isoGiven(raw[f]) THEN raw[f] ELSE cfg[f]
    [] OTHER -> IF has(raw, f) THEN raw[f] ELSE cfg[f]

apply(raw, cfg) == [f \in DOMAIN cfg |-> applied(raw, cfg, f)]

Scopes == {"regional", "alliance", "global"}
isCustom(t) == t \in {"custom:a", "custom:b"}
isValidSchemaType(t) == t \in {"messaging", "iso20022", "hl7fhir", "edifact"} \/ isCustom(t)
isEd25519(s) == s \in {"ed25519:REPLACE_ME", "ed25519:k"}

\* Config.Validate
Validates(c) ==
  /\ \A f \in {"NodeID", "OperatorID", "PolicyVersion", "ApplicableLaw", "Name",
               "HTTPListenAddr", "GRPCListenAddr"} : TrimSpace(c[f]) # ""
  /\ c.NodeScope \in Scopes
  /\ isEd25519(c.SignedBy)
  /\ c.DedupTTL > 0
  /\ c.NodeScope \in {"regional", "global"} => TrimSpace(c.Region) # ""
  /\ c.NodeScope = "alliance" => c.Regions # {} /\ TrimSpace(c.AllianceID) # ""
  /\ c.AllowVia \subseteq Scopes
  /\ \A k \in DOMAIN c.Peers :
       /\ TrimSpace(c.Peers[k].Addr) # ""
       /\ c.Peers[k].NodeScope \in Scopes \cup {""}
       /\ c.Peers[k].NodeScope = "alliance" => c.Peers[k].Regions # {}
  /\ \A i \in DOMAIN c.Adapters : isValidSchemaType(c.Adapters[i].Type) /\ TrimSpace(c.Adapters[i].Version) # ""
  /\ \A i \in DOMAIN c.Rules : TrimSpace(c.Rules[i].SchemaType) # "" /\ c.Rules[i].AllowTiers \subseteq Scopes

\* Load of a file that parses, which fails where the Config is not valid
configOf(raw) == apply(raw, DefaultConfigForProfile(profileName(raw)))
Loads(file) == file.parses /\ Validates(configOf(file.raw))
=============================================================================

----------------------------- MODULE MCServices -----------------------------
(***************************************************************************)
(* Small instances of the services of a node that share no state with each *)
(* other: a behaviour exercises one of them, and the others stay as they   *)
(* start.                                                                  *)
(***************************************************************************)
EXTENDS RateLimiter, ConfigReload, Management, Notifications, AppRegistry,
        PeerGossip, PeerLink, CutoffWindow, NodeStop

VARIABLE part \* the service that the behaviour exercises

serviceVars ==
  <<part, limiterVars, reloadVars, managementVars, notificationVars, registryVars,
    gossipVars, linkVars, cutoffVars, stopVars>>

ServicesInit ==
  /\ part \in {"limiter", "reload", "management", "notifications", "registry",
               "gossip", "link", "cutoff", "stop"}
  /\ LimiterInit /\ ReloadInit /\ ManagementInit /\ NotificationsInit /\ RegistryInit
  /\ GossipInit /\ LinkInit /\ CutoffInit /\ StopInit
  /\ part # "cutoff" => window = malformed /\ now.tod = 0

LimiterPart ==
  /\ part = "limiter" /\ LimiterNext
  /\ UNCHANGED <<part, reloadVars, managementVars, notificationVars, registryVars,
                 gossipVars, linkVars, cutoffVars, stopVars>>

ReloadPart ==
  /\ part = "reload" /\ ReloadNext
  /\ UNCHANGED <<part, limiterVars, managementVars, notificationVars, registryVars,
                 gossipVars, linkVars, cutoffVars, stopVars>>

ManagementPart ==
  /\ part = "management" /\ ManagementNext
  /\ UNCHANGED <<part, limiterVars, reloadVars, notificationVars, registryVars,
                 gossipVars, linkVars, cutoffVars, stopVars>>

NotificationsPart ==
  /\ part = "notifications" /\ NotificationsNext
  /\ UNCHANGED <<part, limiterVars, reloadVars, managementVars, registryVars,
                 gossipVars, linkVars, cutoffVars, stopVars>>

RegistryPart ==
  /\ part = "registry" /\ RegistryNext
  /\ UNCHANGED <<part, limiterVars, reloadVars, managementVars, notificationVars,
                 gossipVars, linkVars, cutoffVars, stopVars>>

GossipPart ==
  /\ part = "gossip" /\ GossipNext
  /\ UNCHANGED <<part, limiterVars, reloadVars, managementVars, notificationVars,
                 registryVars, linkVars, cutoffVars, stopVars>>

LinkPart ==
  /\ part = "link" /\ LinkNext
  /\ UNCHANGED <<part, limiterVars, reloadVars, managementVars, notificationVars,
                 registryVars, gossipVars, cutoffVars, stopVars>>

CutoffPart ==
  /\ part = "cutoff" /\ CutoffNext
  /\ UNCHANGED <<part, limiterVars, reloadVars, managementVars, notificationVars,
                 registryVars, gossipVars, linkVars, stopVars>>

StopPart ==
  /\ part = "stop" /\ StopNext
  /\ UNCHANGED <<part, limiterVars, reloadVars, managementVars, notificationVars,
                 registryVars, gossipVars, linkVars, cutoffVars>>

ServicesNext ==
  \/ LimiterPart \/ ReloadPart \/ ManagementPart \/ NotificationsPart \/ RegistryPart
  \/ GossipPart \/ LinkPart \/ CutoffPart \/ StopPart

\* The fairness of each service's own specification
ServicesSpec ==
  /\ ServicesInit /\ [][ServicesNext]_serviceVars
  /\ WF_reloadVars(part = "reload" /\ Watch)
  /\ WF_gossipVars(part = "gossip" /\ GossipNext)
  /\ WF_stopVars(part = "stop" /\ Stopping) /\ WF_stopVars(part = "stop" /\ Deadline)

\* The state of every service has its types; the active configuration is a valid one,
\* which Load and Engine.Reload see to.
ServicesTypeOK ==
  /\ LimiterTypeOK /\ ReloadTypeOK /\ ManagementTypeOK /\ NotificationsTypeOK /\ RegistryTypeOK
  /\ GossipTypeOK /\ LinkTypeOK /\ CutoffTypeOK /\ StopTypeOK
-----------------------------------------------------------------------------
holding(raw) == [parses |-> TRUE, raw |-> raw]

strictFile == holding([PolicyVersion |-> "1", Name |-> "strict", AllowTo |-> {"CH"}, DedupTTL |-> 96, ListenAddr |-> "h:1",
                       Peers |-> [CH |-> [Addr |-> "ch:1", NodeScope |-> "", Regions |-> {}]], Insecure |-> TRUE])
laterFile == holding([PolicyVersion |-> "2", Region |-> " ", DedupTTL |-> 0, DenyTo |-> {"RU"}, GRPCPort |-> 9,
                      Apps |-> [shop |-> [WebhookURL |-> "u", WebhookTimeout |-> 0, AutoAccept |-> ""]],
                      Adapters |-> <<[Type |-> "custom:a", Version |-> "1"]>>,
                      Rules |-> <<[SchemaType |-> "edifact", AllowTiers |-> {"regional"}]>>])
wrongFile == holding([PolicyVersion |-> "3", NodeScope |-> "planet"])
brokenFile == [parses |-> FALSE, raw |-> [PolicyVersion |-> "1"]]
MCFiles == {strictFile, laterFile, wrongFile, brokenFile, holding(<< >>)}
MCPutConfigs == {[configOf(laterFile.raw) EXCEPT !.PolicyVersion = "4", !.MinTrustTier = 1],
          [configOf(laterFile.raw) EXCEPT !.SignedBy = ""]}

MCRegApps == "shop" :> [autoAccept |-> "auto_mutual", users |-> "ana" :> {"a"}]
         @@ "clinic" :> [autoAccept |-> "auto_whitelist", users |-> "ana" :> {"a"} @@ "bo" :> {"b"}]
MCRequesters == {[id |-> "bo", region |-> "US"], [id |-> "zoe", region |-> "RU"]}
MCQueries == {[type |-> "app_id", text |-> "shop"], [type |-> "", text |-> "a"], [type |-> "", text |-> "b"]}

MCListedRules == <<[schema |-> "hl7fhir", tiers |-> {"global"}, regions |-> {}, profile |-> ""]>>

MCStaticPeers == "a" :> {"b"} @@ "b" :> {"c"} @@ "c" :> {}
MCSteadyLinks == {<<"a", "b">>}
MCBootstrap == {<<"c", "a">>}
=============================================================================

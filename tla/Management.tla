----------------------------- MODULE Management -----------------------------
(***************************************************************************)
(* The registries that the management API fills while the node runs        *)
(* (internal/server/http.go): peers, applications and custom schema        *)
(* adapters, and the listing of adapters next to the built-in ones.  A     *)
(* handler changes its registry once, under a mutex.                       *)
(***************************************************************************)
EXTENDS AdapterListing, Sequences

CONSTANTS AppIDs, PeerAddrs,        \* what requests name; "" is no name
          SchemaTypes, CustomTypes, \* schema types, and those that start with custom:
          ListedRules,              \* Policy.JurisdictionIsolation.Rules
          MaxPeers                  \* the bound on registered peers

ASSUME TypesAssumption == CustomTypes \subseteq SchemaTypes /\ CustomTypes \cap Builtins = {}
ASSUME PeersAssumption == MaxPeers \in Nat

VARIABLES runtimePeers,   \* RuntimePeers.peers
          runtimeApps,    \* RuntimeApps.apps
          runtimeAdapters \* RuntimeAdapters.adapters, the restrictions of each type

managementVars == <<runtimePeers, runtimeApps, runtimeAdapters>>

noRestriction == [tiers |-> {}, profile |-> ""]
Restrictions == {noRestriction, [tiers |-> {"regional"}, profile |-> "strict"]}

ManagementTypeOK ==
  /\ runtimePeers \in Seq(PeerAddrs \ {""}) /\ Len(runtimePeers) <= MaxPeers
  /\ runtimeApps \subseteq AppIDs \ {""}
  /\ DOMAIN runtimeAdapters \subseteq SchemaTypes

ManagementInit ==
  /\ runtimePeers = <<>>
  /\ runtimeApps = {}
  /\ runtimeAdapters = << >>

\* POST peers/register
RegisterPeer(addr) ==
  /\ addr # ""
  /\ Len(runtimePeers) < MaxPeers
  /\ runtimePeers' = Append(runtimePeers, addr)
  /\ UNCHANGED <<runtimeApps, runtimeAdapters>>

\* POST apps/register, DELETE apps/{app_id}
RegisterApp(id) ==
  /\ id # ""
  /\ runtimeApps' = runtimeApps \cup {id}
  /\ UNCHANGED <<runtimePeers, runtimeAdapters>>

DeleteApp(id) ==
  /\ id \in runtimeApps
  /\ runtimeApps' = runtimeApps \ {id}
  /\ UNCHANGED <<runtimePeers, runtimeAdapters>>

\* Mutant: any type may be registered.
RegisterAnyAdapter(t, r) ==
  /\ runtimeAdapters' = [u \in DOMAIN runtimeAdapters \cup {t} |-> IF u = t THEN r ELSE runtimeAdapters[u]]
  /\ UNCHANGED <<runtimePeers, runtimeApps>>

\* POST schema/adapters, DELETE schema/adapters/{type}
RegisterAdapter(t, r) ==
  /\ t \in CustomTypes
  /\ runtimeAdapters' = [u \in DOMAIN runtimeAdapters \cup {t} |-> IF u = t THEN r ELSE runtimeAdapters[u]]
  /\ UNCHANGED <<runtimePeers, runtimeApps>>

DeleteAdapter(t) ==
  /\ t \in CustomTypes \cap DOMAIN runtimeAdapters
  /\ runtimeAdapters' = [u \in DOMAIN runtimeAdapters \ {t} |-> runtimeAdapters[u]]
  /\ UNCHANGED <<runtimePeers, runtimeApps>>

ManagementNext ==
  \/ \E addr \in PeerAddrs : RegisterPeer(addr)
  \/ \E id \in AppIDs : RegisterApp(id) \/ DeleteApp(id)
  \/ \E t \in SchemaTypes, r \in Restrictions : RegisterAdapter(t, r)
  \/ \E t \in SchemaTypes : DeleteAdapter(t)

ManagementSpec == ManagementInit /\ [][ManagementNext]_managementVars

\* GET schema/adapters: the entries, each with where it is from
listedAdapters ==
  {[from |-> "builtin", entry |-> entryOf(ListedRules, t)] : t \in Builtins}
    \cup {[from |-> "runtime", entry |-> [type |-> t, tiers |-> runtimeAdapters[t].tiers, regions |-> {},
                                          profile |-> runtimeAdapters[t].profile]] : t \in DOMAIN runtimeAdapters}
-----------------------------------------------------------------------------
\* GET schema/adapters shows every schema type once, whatever was registered and
\* removed: the four built-in types are always there, health data with the
\* constraints of the code, and a registration never stands beside one of them
\* with restrictions that the engine does not apply.
AdaptersListedOnce ==
  /\ \A x, y \in listedAdapters : x.entry.type = y.entry.type => x = y
  /\ Builtins \subseteq {x.entry.type : x \in listedAdapters}
  /\ \A x \in listedAdapters : x.entry.type = "hl7fhir" => x.entry.tiers = {"regional"} /\ x.entry.profile = "strict"
=============================================================================

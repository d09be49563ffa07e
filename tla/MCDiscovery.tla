----------------------------- MODULE MCDiscovery -----------------------------
(***************************************************************************)
(* Three nodes that know each other, two of them in both directions, and a *)
(* discovery for the app chat with two hops.  A serves another app and     *)
(* does not admit it, B serves chat and mail and may take either for its   *)
(* own, C lists chat.  X discovers, X and Y connect.                       *)
(***************************************************************************)
EXTENDS Discovery, TLC

CONSTANTS A, B, C, d1, c1, c2

MCNodes == {A, B, C}
MCPeers == A :> {B} @@ B :> {A, C} @@ C :> {A, B}
MCApps == A :> {"mail"} @@ B :> {"chat", "mail"} @@ C :> {"mail"}
MCWithUsers == A :> {"mail"} @@ B :> {"chat", "mail"} @@ C :> {"mail"}
MCAppIsolation == A :> "SAME_APP_ONLY" @@ B :> "SAME_APP_ONLY" @@ C :> "WHITELIST"
MCAllowedApps == A :> {} @@ B :> {} @@ C :> {"chat"}
MCAutoAccept == A :> "MANUAL" @@ B :> "AUTO_MUTUAL" @@ C :> "AUTO_WHITELIST"
MCTrustedNodes == A :> {} @@ B :> {} @@ C :> {"X", "Y"}
MCRequests == {d1}
MCReq == d1 :> [origin |-> "X", app |-> "chat", hops |-> 2, stamped |-> TRUE]
MCCallers == {"X", "Y"}
MCConnects == {c1, c2}
=============================================================================

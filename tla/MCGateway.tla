------------------------------ MODULE MCGateway ------------------------------
(* Two envelopes: a message for CH and a payment for DE.  CH is a regional     *)
(* peer, AL an alliance peer of DE and CH.                                     *)
EXTENDS Gateway, TLC

CONSTANTS c1, c2, k1, k2

MCCalls == {c1, c2}
MCKeys == {k1, k2}
MCPeers == [CH |-> [scope |-> "regional", region |-> "CH", regions |-> {}],
            AL |-> [scope |-> "alliance", region |-> "", regions |-> {"DE", "CH"}]]
MCEnv == k1 :> [schema |-> "messaging", to |-> "CH", hint |-> ""]
      @@ k2 :> [schema |-> "iso20022", to |-> "DE", hint |-> ""]

\* One peer, and no path for k2
MCOnePeer == [CH |-> [scope |-> "regional", region |-> "CH", regions |-> {}]]
MCMessages == k1 :> [schema |-> "messaging", to |-> "CH", hint |-> ""]
           @@ k2 :> [schema |-> "messaging", to |-> "DE", hint |-> ""]

\* Two messages for one peer
MCPair == k1 :> [schema |-> "messaging", to |-> "CH", hint |-> ""]
       @@ k2 :> [schema |-> "messaging", to |-> "CH", hint |-> ""]

\* One payment
MCOneKey == {k2}

MCSymmetry == Permutations(MCCalls)
=============================================================================

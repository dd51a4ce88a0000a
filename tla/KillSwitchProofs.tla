-------------------------- MODULE KillSwitchProofs --------------------------
(* What the operators of KillSwitch return, for every set of interfaces.   *)
EXTENDS KillSwitch, TLAPS

(* The three kinds of policy are policies and differ by their modes.       *)
LEMMA Policies ==
  /\ Disabled \in TrafficPolicy
  /\ BlockNonTunnel \in TrafficPolicy
  /\ \A i \in ValidInterfaces : TunnelOnly(i) \in TrafficPolicy
  /\ BlockNonTunnel # Disabled
  /\ \A i : TunnelOnly(i) # Disabled
  /\ Disabled.mode = "Disabled"
  /\ BlockNonTunnel.mode = "BlockNonTunnel"
  /\ \A i : TunnelOnly(i).mode = "TunnelOnly"
  /\ \A p \in TrafficPolicy : p.mode = "Disabled" => p = Disabled
<1>1. /\ Disabled \in TrafficPolicy
      /\ BlockNonTunnel \in TrafficPolicy
      /\ \A i \in ValidInterfaces : TunnelOnly(i) \in TrafficPolicy
  BY DEF TrafficPolicy
<1>2. /\ Disabled.mode = "Disabled"
      /\ BlockNonTunnel.mode = "BlockNonTunnel"
      /\ \A i : TunnelOnly(i).mode = "TunnelOnly"
  BY DEF Disabled, BlockNonTunnel, TunnelOnly
<1>3. BlockNonTunnel # Disabled /\ \A i : TunnelOnly(i) # Disabled
  BY <1>2
<1>4. \A p \in TrafficPolicy : p.mode = "Disabled" => p = Disabled
  BY <1>2 DEF TrafficPolicy
<1> QED BY <1>1, <1>2, <1>3, <1>4

(* enable, disable and tunnel_lost keep always_on and set the policy.      *)
LEMMA Methods ==
  ASSUME NEW ks \in KillSwitchRecord
  PROVE  /\ ks.policy \in TrafficPolicy
         /\ ks.alwaysOn \in BOOLEAN
         /\ Enable(ks) \in KillSwitchRecord
         /\ Enable(ks).alwaysOn = ks.alwaysOn
         /\ Enable(ks).policy = BlockNonTunnel
         /\ Disable(ks) \in KillSwitchRecord
         /\ Disable(ks).alwaysOn = ks.alwaysOn
         /\ Disable(ks).policy = Disabled
         /\ TunnelLost(ks) \in KillSwitchRecord
         /\ TunnelLost(ks).alwaysOn = ks.alwaysOn
         /\ ks.policy = Disabled => TunnelLost(ks).policy = Disabled
         /\ ks.policy # Disabled => TunnelLost(ks).policy = BlockNonTunnel
BY Policies DEF KillSwitchRecord, Enable, Disable, TunnelLost

(* tunnel_established keeps always_on and admits the interface.            *)
LEMMA Establishing ==
  ASSUME NEW ks \in KillSwitchRecord, NEW i \in ValidInterfaces
  PROVE  /\ TunnelEstablished(ks, i) \in KillSwitchRecord
         /\ TunnelEstablished(ks, i).alwaysOn = ks.alwaysOn
         /\ TunnelEstablished(ks, i).policy = TunnelOnly(i)
BY Policies DEF KillSwitchRecord, TunnelEstablished

(* The two kill switches KillSwitch::new builds.                           *)
LEMMA NewKillSwitch ==
  ASSUME NEW alwaysOn \in BOOLEAN
  PROVE  /\ New(alwaysOn) \in KillSwitchRecord
         /\ New(alwaysOn).alwaysOn = alwaysOn
         /\ alwaysOn => New(alwaysOn).policy = BlockNonTunnel
         /\ ~alwaysOn => New(alwaysOn).policy = Disabled
BY Policies DEF New, KillSwitchRecord

=============================================================================

------------------------- MODULE HostNetworkProofs -------------------------
(***************************************************************************)
(* What the kernel lets out, forwards and shows for the processes of the   *)
(* system: the output filter for any interfaces and endpoints, the table   *)
(* that two clients share for any interfaces, the node's gateway for any   *)
(* plans, hosts and number of connections, and the health of a tunnel for  *)
(* any limits.                                                             *)
(***************************************************************************)
EXTENDS OutputFilter, TwoClients, NodeGateway, TunnelHealth, KillSwitchProofs, TLAPS

-----------------------------------------------------------------------------
(***************************************************************************)
(* The table is a function of the latest transaction alone: nothing of an  *)
(* earlier one is in it.                                                   *)
(***************************************************************************)
TableIsApplied ==
  /\ applied.policy \in TrafficPolicy
  /\ applied.policy = Disabled => table = NoTable
  /\ applied.policy # Disabled =>
       table = [exists |-> TRUE, chain |-> TRUE,
                rules |-> Rules(applied.endpoint, applied.policy)]

(* A transaction replaces whatever table it meets.                         *)
LEMMA RenderReplaces ==
  ASSUME NEW e, NEW policy \in TrafficPolicy, policy # Disabled, TableIsApplied
  PROVE  Render(table, e, policy) =
           [exists |-> TRUE, chain |-> TRUE, rules |-> Rules(e, policy)]
<1>1. CASE table = NoTable
  BY <1>1, Zenon DEF Render, Flush, AddTable, AddChain, NoTable
<1>2. CASE table = [exists |-> TRUE, chain |-> TRUE,
                    rules |-> Rules(applied.endpoint, applied.policy)]
  BY <1>2, Zenon DEF Render, Flush, AddTable, AddChain
<1> QED BY <1>1, <1>2 DEF TableIsApplied

(* A packet leaves exactly if the policy that was applied last admits it.  *)
LEMMA AppliedDecides == TableIsApplied => PolicyDecidesAlone
<1> SUFFICES ASSUME TableIsApplied, NEW p \in Packets
             PROVE  Accepted(p) <=> Admitted(p)
  BY DEF PolicyDecidesAlone
<1>1. CASE applied.policy = Disabled
  BY <1>1 DEF TableIsApplied, Accepted, Admitted, NoTable
<1>2. CASE applied.policy = BlockNonTunnel
  <2>1. Rules(applied.endpoint, applied.policy) = {OifName(Loopback), UdpTo(applied.endpoint)}
    BY <1>2, Policies DEF Rules
  <2>2. table.chain /\ table.rules = {OifName(Loopback), UdpTo(applied.endpoint)}
    BY <1>2, <2>1, Policies DEF TableIsApplied
  <2>3. Accepted(p) <=> p.oif = Loopback \/ p.to = applied.endpoint
    BY <2>2 DEF Accepted, Matches, OifName, UdpTo
  <2>4. applied.policy # Disabled /\ applied.policy # TunnelOnly(p.oif)
    BY <1>2, Policies DEF BlockNonTunnel, TunnelOnly
  <2> QED BY <2>3, <2>4 DEF Admitted
<1>3. ASSUME NEW i \in ValidInterfaces, applied.policy = TunnelOnly(i)
      PROVE  Accepted(p) <=> Admitted(p)
  <2>1. applied.policy.mode = "TunnelOnly" /\ applied.policy.interface = i
    BY <1>3 DEF TunnelOnly
  <2>2. Rules(applied.endpoint, applied.policy)
          = {OifName(Loopback), UdpTo(applied.endpoint), OifName(i)}
    BY <2>1 DEF Rules
  <2>3. table.chain /\ table.rules = {OifName(Loopback), UdpTo(applied.endpoint), OifName(i)}
    BY <1>3, <2>2, Policies DEF TableIsApplied
  <2>4. Accepted(p) <=> p.oif = Loopback \/ p.to = applied.endpoint \/ p.oif = i
    BY <2>3 DEF Accepted, Matches, OifName, UdpTo
  <2>5. applied.policy = TunnelOnly(p.oif) <=> p.oif = i
    BY <1>3 DEF TunnelOnly
  <2> QED BY <1>3, <2>4, <2>5, Policies DEF Admitted
<1> QED BY <1>1, <1>2, <1>3 DEF TableIsApplied, TrafficPolicy

(***************************************************************************)
(* NftablesBackend: over any sequence of policies and endpoints, and       *)
(* whatever connections are tracked, the latest policy alone decides what  *)
(* leaves the host.                                                        *)
(***************************************************************************)
THEOREM FilterFollowsPolicy == FilterSpec => []PolicyDecidesAlone
<1>1. FilterInit => TableIsApplied
  BY Policies DEF FilterInit, TableIsApplied
<1>2. TableIsApplied /\ [FilterNext]_filterVars => TableIsApplied'
  <2> SUFFICES ASSUME TableIsApplied, [FilterNext]_filterVars PROVE TableIsApplied'
    OBVIOUS
  <2>1. ASSUME NEW e \in Endpoints, NEW policy \in TrafficPolicy \cup {TunnelOnly(BadInterface)},
               Apply(e, policy)
        PROVE  TableIsApplied'
    <3>1. policy \in TrafficPolicy
      BY <2>1, Policies DEF Apply, MayRender, TunnelOnly
    <3>2. applied' = [policy |-> policy, endpoint |-> e] /\ table' = Render(table, e, policy)
      BY <2>1 DEF Apply
    <3>3. CASE policy = Disabled
      BY <3>1, <3>2, <3>3 DEF TableIsApplied, Render
    <3>4. CASE policy # Disabled
      BY <3>1, <3>2, <3>4, RenderReplaces DEF TableIsApplied
    <3> QED BY <3>3, <3>4
  <2>2. ASSUME NEW p \in Packets, Send(p) PROVE TableIsApplied'
    BY <2>2 DEF Send, TableIsApplied
  <2>3. CASE UNCHANGED filterVars
    BY <2>3 DEF filterVars, TableIsApplied
  <2> QED BY <2>1, <2>2, <2>3 DEF FilterNext
<1> QED BY <1>1, <1>2, AppliedDecides, PTL DEF FilterSpec

-----------------------------------------------------------------------------
(***************************************************************************)
(* What keeps the table of two clients right: a running client has locked  *)
(* its interface, believes in a tunnel while its transport connects, and   *)
(* has its interface closed during every call of its transport.            *)
(***************************************************************************)
Managed(killSwitch, transport, pc, stage, lease) ==
  /\ killSwitch \in KillSwitchRecord
  /\ stage # "off" =>
       /\ lease \in Leases
       /\ pc = "connect" => transport
       /\ pc \in {"connect", "undo", "disconnect"} => nft # TunnelOnly(lease.interface)
       /\ nft = TunnelOnly(lease.interface) => transport

ManagedA == Managed(killSwitchA, transportA, pcA, stageA, leaseA)
ManagedB == Managed(killSwitchB, transportB, pcB, stageB, leaseB)
LeasedApart == stageA # "off" /\ stageB # "off" => leaseA # leaseB
ClientsInv == ManagedA /\ ManagedB /\ LeasedApart

(* A step of client A keeps its part, and sets the table to nothing but    *)
(* its own interface, blocking, or no filtering at all.                    *)
LEMMA StepsOfA ==
  ASSUME ~LateFailure, ManagedA, A!Step
  PROVE  /\ ManagedA' /\ UNCHANGED leaseA /\ stageA # "off"
         /\ nft' \in {nft, Disabled, BlockNonTunnel, TunnelOnly(leaseA.interface)}
<1>0. /\ A!BlockNonTunnel = BlockNonTunnel
      /\ A!Disabled = Disabled
      /\ A!TunnelOnly(leaseA.interface) = TunnelOnly(leaseA.interface)
      /\ A!Enable(killSwitchA) = Enable(killSwitchA)
      /\ A!Disable(killSwitchA) = Disable(killSwitchA)
      /\ A!TunnelLost(killSwitchA) = TunnelLost(killSwitchA)
      /\ A!TunnelEstablished(killSwitchA, leaseA.interface)
           = TunnelEstablished(killSwitchA, leaseA.interface)
  BY DEF A!BlockNonTunnel, BlockNonTunnel, A!Disabled, Disabled, A!TunnelOnly, TunnelOnly,
         A!Enable, Enable, A!Disable, Disable, A!TunnelLost, TunnelLost,
         A!TunnelEstablished, TunnelEstablished
<1> USE <1>0, Policies DEF ManagedA, Managed
<1>1. CASE A!Connect
  BY <1>1, Methods DEF A!Connect, A!ControllerConnect, A!Apply, A!Command
<1>2. CASE A!Connected \/ A!ConnectFailed \/ A!Released
  BY <1>2 DEF A!Connected, A!ConnectFailed, A!Released, A!ControllerReturn, A!Failed
<1>3. CASE A!Disconnect
  BY <1>3, Methods DEF A!Disconnect, A!ControllerDisconnect, A!Apply, A!Command
<1>4. CASE A!Disconnected
  BY <1>4 DEF A!Disconnected, A!ControllerReturn
<1>5. CASE A!Release
  BY <1>5, Methods DEF A!Release, A!ControllerDisable, A!Apply, A!Command
<1>6. CASE A!Die
  BY <1>6 DEF A!Die
<1>7. CASE A!TransportStep
  <2>1. stageA # "off" /\ UNCHANGED <<stageA, leaseA>>
    BY <1>7 DEF A!TransportStep
  <2>2. CASE A!TransportWorks \/ A!ControllerConnectFailed
    BY <2>1, <2>2, Zenon DEF A!TransportWorks, A!controllerVars, A!ControllerConnectFailed
  <2>3. CASE A!ControllerConnected(leaseA.interface)
    BY <2>1, <2>3, Establishing DEF A!ControllerConnected, A!Apply, A!Command,
       A!MayEstablish, Leases
  <2>4. CASE A!TransportDisconnectReturns
    BY <2>1, <2>4 DEF A!TransportDisconnectReturns, A!ControllerUndone, A!ControllerDisconnected
  <2> QED BY <1>7, <2>2, <2>3, <2>4 DEF A!TransportStep
<1> QED BY <1>1, <1>2, <1>3, <1>4, <1>5, <1>6, <1>7, Zenon DEF A!Step

(* A step of client B keeps its part, and sets the table to nothing but    *)
(* its own interface, blocking, or no filtering at all.                    *)
LEMMA StepsOfB ==
  ASSUME ~LateFailure, ManagedB, B!Step
  PROVE  /\ ManagedB' /\ UNCHANGED leaseB /\ stageB # "off"
         /\ nft' \in {nft, Disabled, BlockNonTunnel, TunnelOnly(leaseB.interface)}
<1>0. /\ B!BlockNonTunnel = BlockNonTunnel
      /\ B!Disabled = Disabled
      /\ B!TunnelOnly(leaseB.interface) = TunnelOnly(leaseB.interface)
      /\ B!Enable(killSwitchB) = Enable(killSwitchB)
      /\ B!Disable(killSwitchB) = Disable(killSwitchB)
      /\ B!TunnelLost(killSwitchB) = TunnelLost(killSwitchB)
      /\ B!TunnelEstablished(killSwitchB, leaseB.interface)
           = TunnelEstablished(killSwitchB, leaseB.interface)
  BY DEF B!BlockNonTunnel, BlockNonTunnel, B!Disabled, Disabled, B!TunnelOnly, TunnelOnly,
         B!Enable, Enable, B!Disable, Disable, B!TunnelLost, TunnelLost,
         B!TunnelEstablished, TunnelEstablished
<1> USE <1>0, Policies DEF ManagedB, Managed
<1>1. CASE B!Connect
  BY <1>1, Methods DEF B!Connect, B!ControllerConnect, B!Apply, B!Command
<1>2. CASE B!Connected \/ B!ConnectFailed \/ B!Released
  BY <1>2 DEF B!Connected, B!ConnectFailed, B!Released, B!ControllerReturn, B!Failed
<1>3. CASE B!Disconnect
  BY <1>3, Methods DEF B!Disconnect, B!ControllerDisconnect, B!Apply, B!Command
<1>4. CASE B!Disconnected
  BY <1>4 DEF B!Disconnected, B!ControllerReturn
<1>5. CASE B!Release
  BY <1>5, Methods DEF B!Release, B!ControllerDisable, B!Apply, B!Command
<1>6. CASE B!Die
  BY <1>6 DEF B!Die
<1>7. CASE B!TransportStep
  <2>1. stageB # "off" /\ UNCHANGED <<stageB, leaseB>>
    BY <1>7 DEF B!TransportStep
  <2>2. CASE B!TransportWorks \/ B!ControllerConnectFailed
    BY <2>1, <2>2, Zenon DEF B!TransportWorks, B!controllerVars, B!ControllerConnectFailed
  <2>3. CASE B!ControllerConnected(leaseB.interface)
    BY <2>1, <2>3, Establishing DEF B!ControllerConnected, B!Apply, B!Command,
       B!MayEstablish, Leases
  <2>4. CASE B!TransportDisconnectReturns
    BY <2>1, <2>4 DEF B!TransportDisconnectReturns, B!ControllerUndone, B!ControllerDisconnected
  <2> QED BY <1>7, <2>2, <2>3, <2>4 DEF B!TransportStep
<1> QED BY <1>1, <1>2, <1>3, <1>4, <1>5, <1>6, <1>7, Zenon DEF B!Step

(* A start locks an interface the other client has not locked, and blocks. *)
LEMMA StartOfA ==
  ASSUME ~LateFailure, ClientsInv, StartA
  PROVE  /\ ManagedA' /\ nft' \in {nft, BlockNonTunnel}
         /\ stageA' # "off" /\ stageB # "off" => leaseA' # leaseB
<1>1. PICK l \in Leases : MayLease(l, stageB, leaseB) /\ A!Start(l)
  BY DEF StartA
<1>2. PICK alwaysOn \in BOOLEAN, ok \in BOOLEAN :
        /\ A!ControllerNew(A!Enable(A!New(alwaysOn)), ok)
        /\ stageA' = IF ok THEN "ready" ELSE "off"
  BY <1>1 DEF A!Start
<1>3. A!Enable(A!New(alwaysOn)) = Enable(New(alwaysOn))
  BY DEF A!Enable, Enable, A!New, New, A!BlockNonTunnel, BlockNonTunnel, A!Disabled, Disabled
<1>4. /\ Enable(New(alwaysOn)) \in KillSwitchRecord
      /\ Enable(New(alwaysOn)).policy = BlockNonTunnel
  BY NewKillSwitch, Methods
<1> QED BY <1>1, <1>2, <1>3, <1>4, Policies
       DEF A!Start, A!ControllerNew, A!Apply, A!Command, MayLease, ManagedA, Managed

(* The same for the other client.                                          *)
LEMMA StartOfB ==
  ASSUME ~LateFailure, ClientsInv, StartB
  PROVE  /\ ManagedB' /\ nft' \in {nft, BlockNonTunnel}
         /\ stageB' # "off" /\ stageA # "off" => leaseB' # leaseA
<1>1. PICK l \in Leases : MayLease(l, stageA, leaseA) /\ B!Start(l)
  BY DEF StartB
<1>2. PICK alwaysOn \in BOOLEAN, ok \in BOOLEAN :
        /\ B!ControllerNew(B!Enable(B!New(alwaysOn)), ok)
        /\ stageB' = IF ok THEN "ready" ELSE "off"
  BY <1>1 DEF B!Start
<1>3. B!Enable(B!New(alwaysOn)) = Enable(New(alwaysOn))
  BY DEF B!Enable, Enable, B!New, New, B!BlockNonTunnel, BlockNonTunnel, B!Disabled, Disabled
<1>4. /\ Enable(New(alwaysOn)) \in KillSwitchRecord
      /\ Enable(New(alwaysOn)).policy = BlockNonTunnel
  BY NewKillSwitch, Methods
<1> QED BY <1>1, <1>2, <1>3, <1>4, Policies
       DEF B!Start, B!ControllerNew, B!Apply, B!Command, MayLease, ManagedB, Managed

(* A transaction that admits an interface the mover does not own left the  *)
(* table as it was: render_rules names the mover's interface alone.        *)
LEMMA OtherInterface ==
  ASSUME NEW own, NEW other, own # other,
         nft' \in {nft, Disabled, BlockNonTunnel, TunnelOnly(own)},
         nft' = TunnelOnly(other)
  PROVE  nft' = nft
BY Policies DEF TunnelOnly, Disabled, BlockNonTunnel

(***************************************************************************)
(* acquire_interface_lease and ConnectionController: as long as clients    *)
(* share one runtime directory and no transaction commits and then reports *)
(* an error, two clients of any interfaces that overwrite each other's     *)
(* table never admit an interface whose client has no tunnel on it.        *)
(***************************************************************************)
THEOREM ClientsShareTable ==
  ASSUME ~LateFailure, \A d, e \in Directories : d = e
  PROVE  ClientsSpec => []AdmittedIsManaged
<1>1. ClientsInit => ClientsInv
  BY NewKillSwitch, Zenon
  DEF ClientsInit, A!ClientInit, B!ClientInit, A!New, B!New, New, A!Disabled, B!Disabled,
      Disabled, A!BlockNonTunnel, B!BlockNonTunnel, BlockNonTunnel,
      ClientsInv, ManagedA, ManagedB, Managed, LeasedApart
<1>2. ClientsInv /\ [ClientsNext]_clientsVars => ClientsInv'
  <2> SUFFICES ASSUME ClientsInv, [ClientsNext]_clientsVars PROVE ClientsInv'
    OBVIOUS
  <2>0. \A l, m \in Leases : l # m => l.interface # m.interface
    BY DEF Leases
  <2>1. ASSUME StartA, UNCHANGED varsB PROVE ClientsInv'
    <3>1. ManagedB'
      BY <2>1, StartOfA, Policies DEF ClientsInv, ManagedB, Managed, varsB, TunnelOnly
    <3> QED BY <2>1, <3>1, StartOfA DEF ClientsInv, LeasedApart, varsB
  <2>2. ASSUME A!Step, UNCHANGED varsB PROVE ClientsInv'
    <3>1. /\ ManagedA' /\ UNCHANGED leaseA /\ stageA # "off"
          /\ nft' \in {nft, Disabled, BlockNonTunnel, TunnelOnly(leaseA.interface)}
      BY <2>2, StepsOfA DEF ClientsInv
    <3>2. stageB # "off" => leaseA.interface # leaseB.interface
      BY <2>0, <3>1 DEF ClientsInv, ManagedA, ManagedB, Managed, LeasedApart
    <3>3. ManagedB'
      <4>1. UNCHANGED <<killSwitchB, transportB, pcB, stageB, leaseB>>
        BY <2>2 DEF varsB
      <4>2. Managed(killSwitchB, transportB, pcB, stageB, leaseB)
        BY DEF ClientsInv, ManagedB
      <4>3. stageB # "off" /\ nft' = TunnelOnly(leaseB.interface) => nft' = nft
        BY <3>1, <3>2, OtherInterface
      <4> QED BY <4>1, <4>2, <4>3 DEF ManagedB, Managed
    <3> QED BY <2>2, <3>1, <3>3 DEF ClientsInv, LeasedApart, varsB
  <2>3. ASSUME StartB, UNCHANGED varsA PROVE ClientsInv'
    <3>1. ManagedA'
      BY <2>3, StartOfB, Policies DEF ClientsInv, ManagedA, Managed, varsA, TunnelOnly
    <3> QED BY <2>3, <3>1, StartOfB DEF ClientsInv, LeasedApart, varsA
  <2>4. ASSUME B!Step, UNCHANGED varsA PROVE ClientsInv'
    <3>1. /\ ManagedB' /\ UNCHANGED leaseB /\ stageB # "off"
          /\ nft' \in {nft, Disabled, BlockNonTunnel, TunnelOnly(leaseB.interface)}
      BY <2>4, StepsOfB DEF ClientsInv
    <3>2. stageA # "off" => leaseB.interface # leaseA.interface
      BY <2>0, <3>1 DEF ClientsInv, ManagedA, ManagedB, Managed, LeasedApart
    <3>3. ManagedA'
      <4>1. UNCHANGED <<killSwitchA, transportA, pcA, stageA, leaseA>>
        BY <2>4 DEF varsA
      <4>2. Managed(killSwitchA, transportA, pcA, stageA, leaseA)
        BY DEF ClientsInv, ManagedA
      <4>3. stageA # "off" /\ nft' = TunnelOnly(leaseA.interface) => nft' = nft
        BY <3>1, <3>2, OtherInterface
      <4> QED BY <4>1, <4>2, <4>3 DEF ManagedA, Managed
    <3> QED BY <2>4, <3>1, <3>3 DEF ClientsInv, LeasedApart, varsA
  <2>5. CASE UNCHANGED clientsVars
    BY <2>5 DEF clientsVars, varsA, varsB, ClientsInv, ManagedA, ManagedB, Managed, LeasedApart
  <2> QED BY <2>1, <2>2, <2>3, <2>4, <2>5 DEF ClientsNext
<1>3. ClientsInv => AdmittedIsManaged
  BY DEF ClientsInv, ManagedA, ManagedB, Managed, AdmittedIsManaged
<1> QED BY <1>1, <1>2, <1>3, PTL DEF ClientsSpec

-----------------------------------------------------------------------------
(***************************************************************************)
(* A table admits connections only from the tunnel to the uplink, so a     *)
(* tracked one that was opened under a table cannot let in what no rule    *)
(* does; and a gateway's table has the rules of its own policy unless it   *)
(* was added to one left behind.                                           *)
(***************************************************************************)
Connections == [first : ForwardPackets, answered : BOOLEAN, unfiltered : BOOLEAN]

OpenedByClients ==
  /\ connections \subseteq Connections
  /\ \A c \in connections : c.unfiltered \/ ToUplink(c.first)

TableIsPlanned ==
  forwarding # NoForwarding =>
    leftover \/ (gatewayActive /\ forwarding = Range(plan.networks))

GatewayInv == OpenedByClients /\ TableIsPlanned

(* A forwarded packet keeps what is known of the connections.              *)
LEMMA ForwardKeeps ==
  ASSUME OpenedByClients, NEW p \in ForwardPackets, Forward(p)
  PROVE  OpenedByClients'
<1>1. forwarding # NoForwarding /\ ~Tracked(p) /\ Track(p) => ToUplink(p)
  BY DEF Forward, Forwards, Established, Tracked, Belongs, ToUplink
<1>2. CASE UNCHANGED connections
  BY <1>2 DEF OpenedByClients
<1>3. CASE /\ ~Tracked(p) /\ Track(p)
  <2> DEFINE new == [first |-> p, answered |-> FALSE, unfiltered |-> forwarding = NoForwarding]
  <2>1. connections' = connections \cup {new}
    BY <1>3 DEF Track
  <2>2. new \in Connections /\ new.first = p /\ new.unfiltered = (forwarding = NoForwarding)
    BY DEF Connections
  <2>3. new.unfiltered \/ ToUplink(new.first)
    BY <1>1, <1>3, <2>2, Zenon
  <2> HIDE DEF new
  <2> QED BY <2>1, <2>2, <2>3 DEF OpenedByClients
<1>4. CASE Tracked(p) /\ Track(p)
  <2> DEFINE seen(c) == [c EXCEPT !.answered = @ \/ p = Reply(c.first)]
  <2>1. connections' = {seen(c) : c \in connections}
    BY <1>4 DEF Track
  <2>2. ASSUME NEW c \in Connections
        PROVE  /\ seen(c) \in Connections
               /\ seen(c).first = c.first /\ seen(c).unfiltered = c.unfiltered
    BY Zenon DEF Connections
  <2> HIDE DEF seen
  <2> QED BY <2>1, <2>2 DEF OpenedByClients
<1> QED BY <1>2, <1>3, <1>4, Zenon DEF Forward

(***************************************************************************)
(* LinuxWireGuardNodeGateway: whatever plans the node is started with,     *)
(* whatever the kernel forwards and tracks while no table is in place, and *)
(* however many connections are tracked, its table lets through only what  *)
(* configured networks send to the uplink and what belongs to a connection *)
(* opened to the uplink under a table or opened without one.               *)
(***************************************************************************)
THEOREM GatewayFollowsPolicy == GatewaySpec => []ForwardedAsConfigured
<1>1. GatewayInit => GatewayInv
  BY DEF GatewayInit, GatewayInv, OpenedByClients, TableIsPlanned
<1>2. GatewayInv /\ [GatewayNext]_gatewayVars => GatewayInv'
  <2> SUFFICES ASSUME GatewayInv, [GatewayNext]_gatewayVars PROVE GatewayInv'
    OBVIOUS
  <2> USE DEF GatewayInv, OpenedByClients, TableIsPlanned
  <2>1. ASSUME NEW p \in Plans, EnableGateway(p) PROVE GatewayInv'
    BY <2>1 DEF EnableGateway, NodeGatewayRules
  <2>2. ASSUME NEW p \in Plans, EnableGatewayFailsLate(p) PROVE GatewayInv'
    BY <2>2 DEF EnableGatewayFailsLate
  <2>3. CASE DisableGateway
    BY <2>3 DEF DisableGateway
  <2>4. CASE DeleteInterface
    BY <2>4 DEF DeleteInterface
  <2>5. CASE GatewayCrash
    BY <2>5, Zenon DEF GatewayCrash
  <2>6. CASE Expire
    BY <2>6 DEF Expire
  <2>7. ASSUME NEW p \in ForwardPackets, Forward(p) PROVE GatewayInv'
    <3>1. OpenedByClients'
      BY <2>7, ForwardKeeps
    <3>2. UNCHANGED <<gatewayActive, plan, forwarding, leftover>>
      BY <2>7 DEF Forward
    <3> QED BY <3>1, <3>2
  <2>8. CASE UNCHANGED gatewayVars
    BY <2>8 DEF gatewayVars
  <2> QED BY <2>1, <2>2, <2>3, <2>4, <2>5, <2>6, <2>7, <2>8 DEF GatewayNext
<1>3. GatewayInv => ForwardedAsConfigured
  <2> SUFFICES ASSUME GatewayInv, forwarding # NoForwarding,
                      NEW p \in ForwardPackets, Forwards(p)
               PROVE  \/ ToUplink(p) /\ (leftover \/ FromConfigured(p))
                      \/ \E c \in connections :
                           Belongs(p, c) /\ (c.unfiltered \/ ToUplink(c.first))
    BY DEF ForwardedAsConfigured
  <2>1. CASE Established(p)
    BY <2>1 DEF Established, Belongs, GatewayInv, OpenedByClients
  <2>2. CASE ToUplink(p) /\ \E n \in forwarding : InNetwork(p.src, n)
    BY <2>2 DEF GatewayInv, TableIsPlanned, FromConfigured, Range
  <2> QED BY <2>1, <2>2 DEF Forwards, ToUplink
<1> QED BY <1>1, <1>2, <1>3, PTL DEF GatewaySpec

-----------------------------------------------------------------------------
(***************************************************************************)
(* What the clock shows as the age of the handshake falls short of the     *)
(* true age by no more than the clock was set back.                        *)
(***************************************************************************)
HealthInv ==
  /\ now \in Nat /\ handshake \in Nat /\ elapsed \in Nat /\ setBack \in Nat
  /\ handshake # 0 => handshake + elapsed <= now + setBack
  /\ HealthyIsRecent

(***************************************************************************)
(* LinuxWireGuardBackend::health: whatever the limit and however the clock *)
(* is adjusted, a healthy tunnel answered recently.                        *)
(***************************************************************************)
THEOREM HealthIsRecent == HealthSpec => []HealthyIsRecent
<1>1. HealthInit => HealthInv
  BY DEF HealthInit, HealthInv, HealthyIsRecent, NoReport
<1>2. HealthInv /\ [HealthNext]_healthVars => HealthInv'
  <2> SUFFICES ASSUME HealthInv, [HealthNext]_healthVars PROVE HealthInv'
    OBVIOUS
  <2> USE HealthAssumption DEF HealthInv, HealthyIsRecent, NoReport, kernel, ghosts
  <2>1. CASE Connect
    BY <2>1 DEF Connect
  <2>2. CASE Disconnect
    BY <2>2 DEF Disconnect
  <2>3. CASE Handshake
    BY <2>3 DEF Handshake
  <2>4. CASE LinkLost
    BY <2>4 DEF LinkLost
  <2>5. CASE Tick
    BY <2>5 DEF Tick
  <2>6. CASE SetClock
    BY <2>6 DEF SetClock
  <2>7. CASE HealthNotConnected
    BY <2>7 DEF HealthNotConnected
  <2>8. CASE HealthQueryFails
    BY <2>8 DEF HealthQueryFails
  <2>9. CASE HealthQueried
    BY <2>9 DEF HealthQueried, Fresh
  <2>10. CASE UNCHANGED healthVars
    BY <2>10 DEF healthVars
  <2> QED BY <2>1, <2>2, <2>3, <2>4, <2>5, <2>6, <2>7, <2>8, <2>9, <2>10, Zenon DEF HealthNext
<1> QED BY <1>1, <1>2, PTL DEF HealthSpec, HealthInv

=============================================================================

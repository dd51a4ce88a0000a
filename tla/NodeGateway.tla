---------------------------- MODULE NodeGateway ----------------------------
(***************************************************************************)
(* LinuxWireGuardNodeGateway (core/transport/src/linux.rs): what its       *)
(* nftables table lets the node forward between the WireGuard interface    *)
(* and the uplink, packet by packet, with the kernel's connection tracking,*)
(* over starts, stops and crashes of the managed node.  ManagedNode has    *)
(* the same start and stop command by command; here a start is one step,   *)
(* since an interface without peers forwards nothing.  The table is kept   *)
(* as the networks its rules accept; the kernel (interfaceUp, forwarding,  *)
(* connections) is external.  Translated addresses are written as the      *)
(* client's own, and related packets are left out.                         *)
(***************************************************************************)
EXTENDS AddressPlan, FiniteSets, Functions

CONSTANTS
  Plans,          \* what start may be called with: [networks, addresses]
  Hosts,          \* the hosts that send packets: [family, address]
  NoForwarding,   \* the table cyberia_vpn_node does not exist
  NoPlan,         \* no start succeeded yet
  MaxTracked      \* bound: connections tracked at a time

VARIABLES
  gatewayActive,  \* LinuxWireGuardNodeGateway::active
  plan,           \* what the latest successful start was given
  interfaceUp,    \* the node's interface, with its peers, exists
  forwarding,     \* the networks accepted by the rules of cyberia_vpn_node
  connections,    \* what conntrack knows: [first, answered, unfiltered]
  leftover        \* ghost: a table was left by a process that no longer owns it

gatewayVars == <<gatewayActive, plan, interfaceUp, forwarding, connections, leftover>>

(* The packets that come from a peer or go to one.                         *)
ForwardPackets ==
  {p \in [in : {"wg", "uplink"}, out : {"wg", "uplink"}, src : Hosts, dst : Hosts] :
     p.src # p.dst /\ "wg" \in {p.in, p.out}}

GatewayInit ==
  /\ gatewayActive = FALSE
  /\ plan = NoPlan
  /\ interfaceUp = FALSE
  /\ forwarding = NoForwarding
  /\ connections = {}
  /\ leftover = FALSE

InNetwork(host, n) == host.family = n.family /\ host.address \in Members(n)

-----------------------------------------------------------------------------
(* node_gateway_rules: the transaction adds to a table that is there.      *)
NodeGatewayRules(networks) ==
  IF forwarding = NoForwarding THEN Range(networks) ELSE forwarding \cup Range(networks)

(* start: the interface, which must not exist, and Gateway::enable.  A     *)
(* context that stopped, disabled kernel forwarding or a failed            *)
(* transaction changes nothing once the interface is deleted again; if it  *)
(* cannot be deleted it has no peers.                                      *)
EnableGateway(p) ==
  /\ ~gatewayActive /\ ~interfaceUp
  /\ ValidForNode(p.networks, p.addresses)
  /\ gatewayActive' = TRUE
  /\ plan' = p
  /\ interfaceUp' = TRUE
  /\ forwarding' = NodeGatewayRules(p.networks)
  /\ UNCHANGED <<connections, leftover>>

(* The transaction is committed and nft is reported to have failed.        *)
EnableGatewayFailsLate(p) ==
  /\ ~gatewayActive /\ ~interfaceUp
  /\ ValidForNode(p.networks, p.addresses)
  /\ forwarding' = NodeGatewayRules(p.networks)
  /\ leftover' = TRUE
  /\ UNCHANGED <<gatewayActive, plan, interfaceUp, connections>>

(* stop, first step: Gateway::disable, which fails when the table is gone. *)
(* With a failure that is reported late the gateway stays active.          *)
DisableGateway ==
  /\ gatewayActive /\ forwarding # NoForwarding
  /\ gatewayActive' \in BOOLEAN
  /\ forwarding' = NoForwarding
  /\ leftover' = FALSE
  /\ UNCHANGED <<plan, interfaceUp, connections>>

(* stop, second step: node.stop(); it may fail, and then only the operator *)
(* deletes the interface, as after a crash.                                *)
DeleteInterface ==
  /\ interfaceUp /\ ~gatewayActive
  /\ interfaceUp' = FALSE
  /\ UNCHANGED <<gatewayActive, plan, forwarding, connections, leftover>>

(* The process is killed; interface and table stay.                        *)
GatewayCrash ==
  /\ gatewayActive
  /\ gatewayActive' = FALSE
  /\ leftover' = (forwarding # NoForwarding)
  /\ UNCHANGED <<plan, interfaceUp, forwarding, connections>>

-----------------------------------------------------------------------------
Reply(p) == [in |-> p.out, out |-> p.in, src |-> p.dst, dst |-> p.src]
Belongs(p, c) == p = c.first \/ p = Reply(c.first)
Tracked(p) == \E c \in connections : Belongs(p, c)

(* ct state established: packets were seen in the other direction.         *)
Established(p) ==
  \E c \in connections : p = Reply(c.first) \/ (p = c.first /\ c.answered)

(* Mutant: the rule names no source.                                       *)
ForwardsAnySource(p) == Established(p) \/ (p.in = "wg" /\ p.out = "uplink")

(* The forward chain: policy drop, and the rules of the networks.          *)
Forwards(p) ==
  \/ Established(p)
  \/ p.in = "wg" /\ p.out = "uplink" /\ \E n \in forwarding : InNetwork(p.src, n)

(* The kernel has seen p: the first packet of a new connection, or one     *)
(* more of a known one.                                                    *)
Track(p) ==
  \/ /\ ~Tracked(p)
     /\ Cardinality(connections) < MaxTracked
     /\ connections' = connections \cup
          {[first |-> p, answered |-> FALSE, unfiltered |-> forwarding = NoForwarding]}
  \/ /\ Tracked(p)
     /\ connections' =
          {[c EXCEPT !.answered = @ \/ p = Reply(c.first)] : c \in connections}

(* A packet the table lets through is tracked, its chain asks for that.    *)
(* Without the table everything is forwarded, and tracked or not: that     *)
(* depends on what else the host has the kernel track connections for.     *)
Forward(p) ==
  /\ interfaceUp
  /\ \/ forwarding # NoForwarding /\ Forwards(p) /\ Track(p)
     \/ forwarding = NoForwarding /\ (Track(p) \/ UNCHANGED connections)
  /\ UNCHANGED <<gatewayActive, plan, interfaceUp, forwarding, leftover>>

Expire ==
  /\ \E c \in connections : connections' = connections \ {c}
  /\ UNCHANGED <<gatewayActive, plan, interfaceUp, forwarding, leftover>>

GatewayNext ==
  \/ \E p \in Plans : EnableGateway(p) \/ EnableGatewayFailsLate(p)
  \/ DisableGateway \/ DeleteInterface \/ GatewayCrash \/ Expire
  \/ \E p \in ForwardPackets : Forward(p)

GatewaySpec == GatewayInit /\ [][GatewayNext]_gatewayVars

-----------------------------------------------------------------------------
(* The packet comes from one of the networks the running node was          *)
(* configured with.                                                        *)
FromConfigured(p) ==
  \E i \in DOMAIN plan.networks : InNetwork(p.src, plan.networks[i])

ToUplink(p) == p.in = "wg" /\ p.out = "uplink"

(***************************************************************************)
(* "Only configured client subnets may leave through the configured        *)
(* uplink" (docs/architecture/component-contracts.md).  Over any sequence  *)
(* of starts with different policies, stops and crashes, whatever is still *)
(* tracked, a packet that the table of node_gateway_rules lets through     *)
(* comes from a network of the present policy and leaves by the uplink, or *)
(* it belongs to a connection that was opened to the uplink under a table, *)
(* or to one that was opened while no table was in place.  The source is   *)
(* claimed unless a table was left behind since the last complete stop:    *)
(* enable adds its rules to such a table and never flushes it.             *)
(***************************************************************************)
ForwardedAsConfigured ==
  forwarding # NoForwarding =>
    \A p \in ForwardPackets : Forwards(p) =>
      \/ ToUplink(p) /\ (leftover \/ FromConfigured(p))
      \/ \E c \in connections : Belongs(p, c) /\ (c.unfiltered \/ ToUplink(c.first))

(***************************************************************************)
(* "Unsolicited uplink traffic and lateral client traffic remain blocked"  *)
(* (docs/architecture/component-contracts.md): while a gateway is active   *)
(* over its table, a packet goes from a client to the uplink or answers a  *)
(* connection opened that way.  Not so: stop removes the table before the  *)
(* interface, what is opened in between may stay tracked, and the          *)
(* established rule of the next start lets it through.                     *)
(***************************************************************************)
UnsolicitedStaysBlocked ==
  gatewayActive /\ forwarding # NoForwarding =>
    \A p \in ForwardPackets : Forwards(p) =>
      \/ ToUplink(p)
      \/ \E c \in connections : p = Reply(c.first) /\ ToUplink(c.first)
=============================================================================

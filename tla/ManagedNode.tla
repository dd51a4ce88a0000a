----------------------------- MODULE ManagedNode -----------------------------
(***************************************************************************)
(* LinuxManagedWireGuardNode (core/transport/src/linux.rs): a server       *)
(* interface with its peers (LinuxWireGuardNode) and the nftables table    *)
(* that lets their traffic out (LinuxWireGuardNodeGateway), one external   *)
(* command per step.  The kernel's state is external: link, table,         *)
(* kernelPeers and kernelRoutes.  A peer is its public key; the hosts it   *)
(* is given are its routes.                                                *)
(***************************************************************************)
EXTENDS Naturals, FiniteSets

CONSTANTS
  Keys,                \* the public keys of peers
  Routes,              \* the host routes peers may ask for
  NoKey,               \* the owner of an unassigned route
  ConfigureCommands,   \* the number of commands configure_node issues
  MaximumNodePeers,    \* MAXIMUM_NODE_PEERS
  MaximumFailures      \* where health_failures saturates (u32::MAX)

ASSUME NodeAssumption ==
  /\ NoKey \notin Keys
  /\ ConfigureCommands \in Nat
  /\ MaximumNodePeers \in Nat
  /\ MaximumFailures \in Nat

VARIABLES
  active,          \* LinuxManagedWireGuardNode::active
  nodeActive,      \* LinuxWireGuardNode::active_interface is Some
  gatewayActive,   \* LinuxWireGuardNodeGateway::active
  peers,           \* LinuxWireGuardNode::peers
  assignedRoutes,  \* LinuxWireGuardNode::assigned_routes, NoKey if absent
  healthFailures,  \* LinuxWireGuardNode::health_failures
  report,          \* the status health() returned last, "none" before
  pc,              \* "idle" or the command of the operation to issue next
  commandsLeft,    \* commands configure_node has still to issue
  link,            \* the interface: "absent", "own" or "foreign"
  table,           \* the table cyberia_vpn_node is installed
  kernelPeers,     \* the peers wg has on the interface
  kernelRoutes,    \* the peer wg has for each route, or NoKey
  lateFailure      \* in this behaviour a failed command may have taken
                   \* effect (it is killed, or waiting for it fails)

memoryVars == <<active, nodeActive, gatewayActive, peers, assignedRoutes>>
kernelVars == <<link, table, kernelPeers, kernelRoutes>>
healthVars == <<healthFailures, report>>
vars == <<memoryVars, healthVars, pc, commandsLeft, kernelVars, lateFailure>>

NodePcs == {"idle", "link_add", "configure", "rollback", "gateway", "cleanup",
            "stop_gateway", "stop_node"}
NoRoutes == [r \in Routes |-> NoKey]

TypeOK ==
  /\ active \in BOOLEAN /\ nodeActive \in BOOLEAN /\ gatewayActive \in BOOLEAN
  /\ peers \subseteq Keys
  /\ assignedRoutes \in [Routes -> Keys \cup {NoKey}]
  /\ healthFailures \in 0 .. MaximumFailures
  /\ report \in {"none", "healthy", "degraded", "unavailable"}
  /\ pc \in NodePcs
  /\ commandsLeft \in 0 .. ConfigureCommands
  /\ link \in {"absent", "own", "foreign"}
  /\ table \in BOOLEAN
  /\ kernelPeers \subseteq Keys
  /\ kernelRoutes \in [Routes -> Keys \cup {NoKey}]
  /\ lateFailure \in BOOLEAN

Init ==
  /\ active = FALSE /\ nodeActive = FALSE /\ gatewayActive = FALSE
  /\ peers = {}
  /\ assignedRoutes = NoRoutes
  /\ healthFailures = 0
  /\ report = "none"
  /\ pc = "idle"
  /\ commandsLeft = 0
  /\ link \in {"absent", "foreign"}
  /\ table = FALSE
  /\ kernelPeers = {}
  /\ kernelRoutes = NoRoutes
  /\ lateFailure \in BOOLEAN

-----------------------------------------------------------------------------
(* An external command; see ConnectionController.                          *)
Command(ok, possible, Effect, NoEffect) ==
  \/ ok /\ possible /\ Effect
  \/ ~ok /\ NoEffect
  \/ ~ok /\ lateFailure /\ possible /\ Effect

(* `ip link delete` takes the peers with it.                               *)
DeleteInterface(ok) ==
  Command(ok, link # "absent",
          /\ link' = "absent"
          /\ kernelPeers' = {}
          /\ kernelRoutes' = NoRoutes
          /\ UNCHANGED table,
          UNCHANGED kernelVars)

(* The nftables transactions: add rules to the table, or delete it.        *)
SetTable(installed, ok) ==
  /\ Command(ok, installed \/ table, table' = installed, UNCHANGED table)
  /\ UNCHANGED <<link, kernelPeers, kernelRoutes>>

(* LinuxWireGuardNode::stop once the interface is deleted.                 *)
ForgetNode ==
  /\ nodeActive' = FALSE
  /\ peers' = {}
  /\ assignedRoutes' = NoRoutes

-----------------------------------------------------------------------------
(***************************************************************************)
(* start: the interface, then the gateway.  A context that is already      *)
(* stopped, an active node or an invalid policy refuses without effect.    *)
(***************************************************************************)
Start ==
  /\ pc = "idle"
  /\ ~active /\ ~nodeActive
  /\ pc' = "link_add"
  /\ UNCHANGED <<memoryVars, commandsLeft, kernelVars>>

LinkAdd ==
  /\ pc = "link_add"
  /\ \E ok \in BOOLEAN :
       /\ Command(ok, link = "absent", link' = "own", UNCHANGED link)
       /\ pc' = IF ok THEN "configure" ELSE "idle"
  /\ commandsLeft' = ConfigureCommands
  /\ UNCHANGED <<memoryVars, table, kernelPeers, kernelRoutes>>

(* wg set, address add and link up change nothing the model keeps.  A      *)
(* command fails, or its context.check() does.                             *)
ConfigureNode ==
  /\ pc = "configure"
  /\ commandsLeft > 0
  /\ \/ commandsLeft' = commandsLeft - 1 /\ UNCHANGED pc
     \/ pc' = "rollback" /\ UNCHANGED commandsLeft
  /\ UNCHANGED <<memoryVars, kernelVars>>

NodeStarted ==
  /\ pc = "configure"
  /\ commandsLeft = 0
  /\ nodeActive' = TRUE
  /\ pc' = "gateway"
  /\ UNCHANGED <<active, gatewayActive, peers, assignedRoutes, commandsLeft,
                 kernelVars>>

(* configure_node failed: delete the interface, and forget it either way.  *)
Rollback ==
  /\ pc = "rollback"
  /\ \E ok \in BOOLEAN : DeleteInterface(ok)
  /\ pc' = "idle"
  /\ UNCHANGED <<memoryVars, commandsLeft>>

(* Gateway::enable refuses if it is active, the context stopped or         *)
(* forwarding is off; otherwise one transaction installs the table.        *)
EnableGateway ==
  /\ pc = "gateway"
  /\ UNCHANGED <<nodeActive, peers, assignedRoutes, commandsLeft>>
  /\ \/ /\ ~gatewayActive
        /\ SetTable(TRUE, TRUE)
        /\ gatewayActive' = TRUE
        /\ active' = TRUE
        /\ pc' = "idle"
     \/ /\ \/ ~gatewayActive /\ SetTable(TRUE, FALSE)
           \/ UNCHANGED kernelVars
        /\ pc' = "cleanup"
        /\ UNCHANGED <<active, gatewayActive>>

(* The gateway failed: node.stop(), whose own failure is only reported.    *)
Cleanup ==
  /\ pc = "cleanup"
  /\ \/ DeleteInterface(TRUE) /\ ForgetNode
     \/ DeleteInterface(FALSE) /\ UNCHANGED <<nodeActive, peers, assignedRoutes>>
  /\ pc' = "idle"
  /\ UNCHANGED <<active, gatewayActive, commandsLeft>>

-----------------------------------------------------------------------------
(***************************************************************************)
(* stop: the gateway, then the interface; an error ends it where it is.    *)
(***************************************************************************)
Stop ==
  /\ pc = "idle"
  /\ active
  /\ gatewayActive
  /\ pc' = "stop_gateway"
  /\ UNCHANGED <<memoryVars, commandsLeft, kernelVars>>

(* Mutant: stop goes on to the interface when the gateway fails.           *)
DisableGatewayUnchecked ==
  /\ pc = "stop_gateway"
  /\ \E ok \in BOOLEAN : SetTable(FALSE, ok) /\ gatewayActive' = ~ok
  /\ pc' = "stop_node"
  /\ UNCHANGED <<active, nodeActive, peers, assignedRoutes, commandsLeft>>

DisableGateway ==
  /\ pc = "stop_gateway"
  /\ \/ SetTable(FALSE, TRUE) /\ gatewayActive' = FALSE /\ pc' = "stop_node"
     \/ SetTable(FALSE, FALSE) /\ UNCHANGED gatewayActive /\ pc' = "idle"
  /\ UNCHANGED <<active, nodeActive, peers, assignedRoutes, commandsLeft>>

StopNode ==
  /\ pc = "stop_node"
  /\ \/ DeleteInterface(TRUE) /\ ForgetNode /\ active' = FALSE
     \/ /\ DeleteInterface(FALSE)
        /\ UNCHANGED <<active, nodeActive, peers, assignedRoutes>>
  /\ pc' = "idle"
  /\ UNCHANGED <<gatewayActive, commandsLeft>>

-----------------------------------------------------------------------------
(***************************************************************************)
(* add_peer and remove_peer: one wg command each, recorded if it succeeds. *)
(* wg gives a route to the peer that asked last.                           *)
(***************************************************************************)
Assign(owner, routes, key) == [r \in Routes |-> IF r \in routes THEN key ELSE owner[r]]
Unassign(owner, key) == [r \in Routes |-> IF owner[r] = key THEN NoKey ELSE owner[r]]

WgSetPeer(key, routes, ok) ==
  /\ Command(ok, link # "absent",
             /\ kernelPeers' = kernelPeers \cup {key}
             /\ kernelRoutes' = Assign(Unassign(kernelRoutes, key), routes, key),
             UNCHANGED <<kernelPeers, kernelRoutes>>)
  /\ UNCHANGED <<link, table>>

WgRemovePeer(key, ok) ==
  /\ Command(ok, link # "absent",
             /\ kernelPeers' = kernelPeers \ {key}
             /\ kernelRoutes' = Unassign(kernelRoutes, key),
             UNCHANGED <<kernelPeers, kernelRoutes>>)
  /\ UNCHANGED <<link, table>>

(* Mutant: routes that are assigned are not refused.                       *)
AddPeerAnyRoute(key, routes) ==
  /\ pc = "idle"
  /\ active /\ nodeActive
  /\ Cardinality(peers) < MaximumNodePeers
  /\ key \notin peers
  /\ \/ /\ WgSetPeer(key, routes, TRUE)
        /\ peers' = peers \cup {key}
        /\ assignedRoutes' = Assign(assignedRoutes, routes \ {r \in Routes : assignedRoutes[r] # NoKey}, key)
     \/ WgSetPeer(key, routes, FALSE) /\ UNCHANGED <<peers, assignedRoutes>>
  /\ UNCHANGED <<active, nodeActive, gatewayActive, pc, commandsLeft>>

AddPeer(key, routes) ==
  /\ pc = "idle"
  /\ active /\ nodeActive
  /\ Cardinality(peers) < MaximumNodePeers
  /\ key \notin peers
  /\ \A r \in routes : assignedRoutes[r] = NoKey
  /\ \/ /\ WgSetPeer(key, routes, TRUE)
        /\ peers' = peers \cup {key}
        /\ assignedRoutes' = Assign(assignedRoutes, routes, key)
     \/ WgSetPeer(key, routes, FALSE) /\ UNCHANGED <<peers, assignedRoutes>>
  /\ UNCHANGED <<active, nodeActive, gatewayActive, pc, commandsLeft>>

(* Mutant: the peer is forgotten whether or not wg removed it.             *)
RemovePeerForgets(key) ==
  /\ pc = "idle"
  /\ active /\ nodeActive
  /\ key \in peers
  /\ \E ok \in BOOLEAN : WgRemovePeer(key, ok)
  /\ peers' = peers \ {key}
  /\ assignedRoutes' = Unassign(assignedRoutes, key)
  /\ UNCHANGED <<active, nodeActive, gatewayActive, pc, commandsLeft>>

RemovePeer(key) ==
  /\ pc = "idle"
  /\ active /\ nodeActive
  /\ key \in peers
  /\ \/ /\ WgRemovePeer(key, TRUE)
        /\ peers' = peers \ {key}
        /\ assignedRoutes' = Unassign(assignedRoutes, key)
     \/ WgRemovePeer(key, FALSE) /\ UNCHANGED <<peers, assignedRoutes>>
  /\ UNCHANGED <<active, nodeActive, gatewayActive, pc, commandsLeft>>

-----------------------------------------------------------------------------
(***************************************************************************)
(* health: a node that is not active is unavailable; a query that fails or *)
(* cannot be parsed counts; otherwise the numbers of peers are compared.   *)
(***************************************************************************)
Health ==
  /\ pc = "idle"
  /\ \/ /\ ~nodeActive
        /\ report' = "unavailable"
        /\ UNCHANGED healthFailures
     \/ /\ nodeActive
        /\ report' = "unavailable"
        /\ healthFailures' = IF healthFailures < MaximumFailures
                             THEN healthFailures + 1 ELSE MaximumFailures
     \/ /\ nodeActive /\ link # "absent"
        /\ report' = IF Cardinality(kernelPeers) = Cardinality(peers)
                     THEN "healthy" ELSE "degraded"
        /\ healthFailures' = 0
  /\ UNCHANGED <<memoryVars, pc, commandsLeft, kernelVars>>

-----------------------------------------------------------------------------
LifecycleStep ==
  \/ Start \/ LinkAdd \/ ConfigureNode \/ NodeStarted \/ Rollback
  \/ EnableGateway \/ Cleanup
  \/ Stop \/ DisableGateway \/ StopNode

PeerStep ==
  \/ \E key \in Keys : RemovePeer(key)
  \/ \E key \in Keys, routes \in (SUBSET Routes) \ {{}} : AddPeer(key, routes)

Next ==
  /\ UNCHANGED lateFailure
  /\ \/ LifecycleStep /\ UNCHANGED healthVars
     \/ PeerStep /\ UNCHANGED healthVars
     \/ Health

Spec == Init /\ [][Next]_vars

-----------------------------------------------------------------------------
(***************************************************************************)
(* What the node believes about its peers is what wg has, across failed    *)
(* adds, removals and stops: "Peer keys and host routes become managed     *)
(* only after `wg set` succeeds and remain owned when removal fails"       *)
(* (docs/architecture/component-contracts.md), where failed commands have  *)
(* no effect.                                                              *)
(***************************************************************************)
PeersMatchKernel ==
  ~lateFailure /\ nodeActive => kernelPeers = peers /\ kernelRoutes = assignedRoutes

(***************************************************************************)
(* Even when commands fail late, no managed peer loses a route to another: *)
(* wg moves a route to the last peer that asked, and add_peer refuses a    *)
(* route that is assigned.                                                 *)
(***************************************************************************)
RoutesNotStolen ==
  \A r \in Routes :
    nodeActive /\ assignedRoutes[r] # NoKey
      => kernelRoutes[r] \in {assignedRoutes[r], NoKey}

(***************************************************************************)
(* "creates the interface before the gateway and removes the gateway       *)
(* before the interface" (docs/architecture/component-contracts.md): the   *)
(* forwarding table is never in place without the node's own interface,    *)
(* through every failed start and stop, where failed commands have no      *)
(* effect.                                                                 *)
(***************************************************************************)
GatewayOnlyOverNode == ~lateFailure /\ table => link = "own"

(***************************************************************************)
(* A route belongs to a managed peer, every managed peer has one, and the  *)
(* number of peers stays within MAXIMUM_NODE_PEERS, also after a restart.  *)
(***************************************************************************)
RoutesBelongToPeers ==
  /\ {assignedRoutes[r] : r \in Routes} \ {NoKey} = peers
  /\ Cardinality(peers) =< MaximumNodePeers

(***************************************************************************)
(* A failed `link add` or start never removes an interface that was there. *)
(***************************************************************************)
ForeignLinkUntouched == [][link = "foreign" => link' = "foreign"]_vars

(***************************************************************************)
(* LinuxWireGuardNode::stop keeps "ownership state for a later retry" and  *)
(* LinuxManagedWireGuardNode::stop preserves "ownership for a safe retry"  *)
(* (core/transport/src/linux.rs): a node that is still active can be       *)
(* stopped by another call, whose first step needs the gateway active.     *)
(* It cannot: once the gateway is disabled and deleting the interface has  *)
(* failed, every further stop ends at the gateway's NotConnected.          *)
(***************************************************************************)
StopCanBeRetried == active /\ pc = "idle" => gatewayActive

=============================================================================

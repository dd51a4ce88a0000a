------------------------- MODULE ManagedNodeProofs -------------------------
(***************************************************************************)
(* LinuxManagedWireGuardNode for any keys, routes, numbers of peers and of *)
(* commands.  Peers and routes are an invariant of their own, PeersInv;    *)
(* the order of interface and gateway is PhaseInv.                         *)
(***************************************************************************)
EXTENDS ManagedNode, FiniteSetTheorems, TLAPS

(* The peers that have a route.                                            *)
Owners(owner) == {owner[r] : r \in Routes} \ {NoKey}

(* A node that is not active has no peers, neither in memory nor in wg.    *)
NothingManaged ==
  /\ peers = {} /\ kernelPeers = {}
  /\ assignedRoutes = NoRoutes /\ kernelRoutes = NoRoutes

PeersInv ==
  /\ peers \subseteq Keys /\ IsFiniteSet(peers)
  /\ assignedRoutes \in [Routes -> Keys \cup {NoKey}]
  /\ kernelRoutes \in [Routes -> Keys \cup {NoKey}]
  /\ ~nodeActive => NothingManaged
  /\ pc \in {"link_add", "configure", "rollback"} => ~nodeActive
  /\ RoutesBelongToPeers
  /\ RoutesNotStolen
  /\ PeersMatchKernel

(* The gateway belongs to an active node, and only late failures leave a   *)
(* table without it.                                                       *)
PhaseInv ==
  /\ pc \in {"link_add", "configure", "rollback", "gateway", "cleanup"} => ~active
  /\ gatewayActive => active /\ pc # "stop_node"
  /\ pc \in {"configure", "gateway"} => link = "own"
  /\ nodeActive \/ pc \in {"rollback", "cleanup", "stop_gateway", "stop_node"}
       => link # "foreign"
  /\ active \/ pc = "gateway" => nodeActive
  /\ ~lateFailure /\ table => gatewayActive /\ link = "own"

-----------------------------------------------------------------------------
(* A peer that is recorded with routes nobody has.                         *)
LEMMA AssignAddsPeer ==
  ASSUME NEW owner \in [Routes -> Keys \cup {NoKey}], NEW key \in Keys,
         NEW routes \in SUBSET Routes, routes # {},
         \A r \in routes : owner[r] = NoKey
  PROVE  /\ Assign(owner, routes, key) \in [Routes -> Keys \cup {NoKey}]
         /\ Owners(Assign(owner, routes, key)) = Owners(owner) \cup {key}
<1> DEFINE new == Assign(owner, routes, key)
<1>1. new = [r \in Routes |-> IF r \in routes THEN key ELSE owner[r]]
  BY DEF Assign
<1>2. \A r \in Routes : new[r] = IF r \in routes THEN key ELSE owner[r]
  BY <1>1
<1>3. PICK s \in routes : TRUE
  OBVIOUS
<1>4. key # NoKey
  BY NodeAssumption
<1> HIDE DEF new
<1>5. Owners(new) = Owners(owner) \cup {key}
  BY <1>2, <1>3, <1>4 DEF Owners
<1>6. new \in [Routes -> Keys \cup {NoKey}]
  BY <1>1
<1> QED BY <1>5, <1>6 DEF new

(* Removing a peer takes its routes, and only its routes.                  *)
LEMMA UnassignRemovesPeer ==
  ASSUME NEW owner \in [Routes -> Keys \cup {NoKey}], NEW key \in Keys
  PROVE  /\ Unassign(owner, key) \in [Routes -> Keys \cup {NoKey}]
         /\ Owners(Unassign(owner, key)) = Owners(owner) \ {key}
<1>1. Unassign(owner, key) = [r \in Routes |-> IF owner[r] = key THEN NoKey ELSE owner[r]]
  BY DEF Unassign
<1>2. \A r \in Routes : Unassign(owner, key)[r] = IF owner[r] = key THEN NoKey ELSE owner[r]
  BY <1>1
<1> QED BY <1>1, <1>2 DEF Owners

(* The peers are the owners of the assigned routes.                        *)
LEMMA OwnersArePeers == PeersInv => Owners(assignedRoutes) = peers
BY DEF PeersInv, RoutesBelongToPeers, Owners

(* A table without routes has no owner.                                    *)
LEMMA NoRoutesFacts ==
  /\ NoRoutes \in [Routes -> Keys \cup {NoKey}]
  /\ {NoRoutes[r] : r \in Routes} \ {NoKey} = {}
  /\ IsFiniteSet({}) /\ Cardinality({}) =< MaximumNodePeers
BY FS_EmptySet, NodeAssumption DEF NoRoutes

(* A deleted interface, whether or not the node forgets its peers.         *)
LEMMA DeletionKeepsPeers ==
  ASSUME PeersInv, NEW ok \in BOOLEAN, DeleteInterface(ok),
         \/ ok /\ ForgetNode
         \/ ~ok /\ UNCHANGED <<nodeActive, peers, assignedRoutes>>,
         pc' = "idle", UNCHANGED lateFailure
  PROVE  PeersInv'
<1>1. CASE ok /\ ForgetNode
  <2>1. NothingManaged'
    BY <1>1 DEF DeleteInterface, Command, ForgetNode, NothingManaged
  <2>2. nodeActive' = FALSE
    BY <1>1 DEF ForgetNode
  <2>3. (RoutesBelongToPeers /\ RoutesNotStolen /\ PeersMatchKernel)'
    BY <2>1, <2>2, NoRoutesFacts
       DEF NothingManaged, RoutesBelongToPeers, RoutesNotStolen, PeersMatchKernel
  <2> QED BY <2>1, <2>2, <2>3, NoRoutesFacts DEF PeersInv, NothingManaged
<1>2. CASE ~ok /\ UNCHANGED <<nodeActive, peers, assignedRoutes>>
  <2>1. \/ UNCHANGED <<kernelPeers, kernelRoutes>>
        \/ lateFailure /\ kernelPeers' = {} /\ kernelRoutes' = NoRoutes
    BY <1>2 DEF DeleteInterface, Command, kernelVars
  <2>2. CASE UNCHANGED <<kernelPeers, kernelRoutes>>
    BY <1>2, <2>2 DEF PeersInv, NothingManaged, RoutesBelongToPeers, RoutesNotStolen,
                      PeersMatchKernel
  <2>3. CASE lateFailure /\ kernelPeers' = {} /\ kernelRoutes' = NoRoutes
    <3>1. RoutesNotStolen'
      BY <2>3 DEF RoutesNotStolen, NoRoutes
    <3> QED BY <1>2, <2>3, <3>1, NoRoutesFacts
            DEF PeersInv, NothingManaged, RoutesBelongToPeers, PeersMatchKernel
  <2> QED BY <2>1, <2>2, <2>3
<1> QED BY <1>1, <1>2

-----------------------------------------------------------------------------
(* add_peer keeps the invariant.                                           *)
LEMMA AddPeerKeepsPeers ==
  ASSUME PeersInv, NEW key \in Keys, NEW routes \in (SUBSET Routes) \ {{}},
         AddPeer(key, routes), UNCHANGED lateFailure
  PROVE  PeersInv'
<1>1. /\ pc' = "idle" /\ nodeActive /\ nodeActive' = nodeActive
      /\ Cardinality(peers) < MaximumNodePeers /\ key \notin peers
      /\ \A r \in routes : assignedRoutes[r] = NoKey
  BY DEF AddPeer
<1> DEFINE kernel == Assign(Unassign(kernelRoutes, key), routes, key)
<1>2. /\ kernel \in [Routes -> Keys \cup {NoKey}]
      /\ \A r \in Routes : kernel[r] = IF r \in routes THEN key
                                      ELSE IF kernelRoutes[r] = key THEN NoKey ELSE kernelRoutes[r]
  BY DEF Assign, Unassign, PeersInv
<1>3. \A r \in Routes : assignedRoutes[r] # key
  BY <1>1, NodeAssumption DEF PeersInv, RoutesBelongToPeers
<1>4. CASE /\ WgSetPeer(key, routes, TRUE)
           /\ peers' = peers \cup {key}
           /\ assignedRoutes' = Assign(assignedRoutes, routes, key)
  <2>1. kernelPeers' = kernelPeers \cup {key} /\ kernelRoutes' = kernel
    BY <1>4 DEF WgSetPeer, Command
  <2>2. IsFiniteSet(peers') /\ Cardinality(peers') = Cardinality(peers) + 1
    BY <1>1, <1>4, FS_AddElement DEF PeersInv
  <2>3. Cardinality(peers) \in Nat
    BY FS_CardinalityType DEF PeersInv
  <2>4. /\ assignedRoutes' \in [Routes -> Keys \cup {NoKey}]
        /\ Owners(assignedRoutes') = peers'
    <3>1. routes \in SUBSET Routes /\ routes # {}
      OBVIOUS
    <3>2. assignedRoutes \in [Routes -> Keys \cup {NoKey}] /\ Owners(assignedRoutes) = peers
      BY OwnersArePeers DEF PeersInv
    <3>3. /\ Assign(assignedRoutes, routes, key) \in [Routes -> Keys \cup {NoKey}]
          /\ Owners(Assign(assignedRoutes, routes, key)) = Owners(assignedRoutes) \cup {key}
      BY <1>1, <3>1, <3>2, AssignAddsPeer
    <3> QED BY <1>4, <3>2, <3>3
  <2>5. RoutesBelongToPeers'
    BY <1>1, <2>2, <2>3, <2>4, NodeAssumption DEF RoutesBelongToPeers, Owners
  <2>6. \A r \in Routes : assignedRoutes'[r] = IF r \in routes THEN key ELSE assignedRoutes[r]
    BY <1>4 DEF Assign
  <2> HIDE DEF kernel
  <2>7. RoutesNotStolen'
    BY <1>1, <1>2, <2>1, <2>6 DEF RoutesNotStolen, PeersInv
  <2>8. PeersMatchKernel'
    <3> SUFFICES ASSUME ~lateFailure PROVE PeersMatchKernel'
      BY DEF PeersMatchKernel
    <3>1. kernelPeers = peers /\ kernelRoutes = assignedRoutes
      BY <1>1 DEF PeersInv, PeersMatchKernel
    <3>2. \A r \in Routes : kernel[r] = assignedRoutes'[r]
      BY <1>2, <1>3, <2>6, <3>1
    <3>3. kernel = assignedRoutes'
      BY <1>2, <2>4, <3>2
    <3> QED BY <1>4, <2>1, <3>1, <3>3 DEF PeersMatchKernel
  <2> QED BY <1>1, <1>2, <1>4, <2>1, <2>2, <2>4, <2>5, <2>7, <2>8 DEF PeersInv
<1>5. CASE WgSetPeer(key, routes, FALSE) /\ UNCHANGED <<peers, assignedRoutes>>
  <2>1. \/ UNCHANGED <<kernelPeers, kernelRoutes>>
        \/ lateFailure /\ kernelRoutes' = kernel
    BY <1>5 DEF WgSetPeer, Command
  <2>2. CASE UNCHANGED <<kernelPeers, kernelRoutes>>
    BY <1>1, <1>5, <2>2 DEF PeersInv, RoutesBelongToPeers, RoutesNotStolen, PeersMatchKernel
  <2> HIDE DEF kernel
  <2>3. CASE lateFailure /\ kernelRoutes' = kernel
    <3>1. RoutesNotStolen'
      BY <1>1, <1>2, <1>5, <2>3 DEF PeersInv, RoutesNotStolen
    <3> QED BY <1>1, <1>2, <1>5, <2>3, <3>1
            DEF PeersInv, RoutesBelongToPeers, PeersMatchKernel
  <2> QED BY <2>1, <2>2, <2>3
<1> QED BY <1>4, <1>5, Zenon DEF AddPeer

(* remove_peer keeps the invariant.                                        *)
LEMMA RemovePeerKeepsPeers ==
  ASSUME PeersInv, NEW key \in Keys, RemovePeer(key), UNCHANGED lateFailure
  PROVE  PeersInv'
<1>1. pc' = "idle" /\ nodeActive /\ nodeActive' = nodeActive /\ key \in peers
  BY DEF RemovePeer
<1>2. /\ Unassign(kernelRoutes, key) \in [Routes -> Keys \cup {NoKey}]
      /\ \A r \in Routes : Unassign(kernelRoutes, key)[r]
                             = IF kernelRoutes[r] = key THEN NoKey ELSE kernelRoutes[r]
  BY DEF Unassign, PeersInv
<1>3. CASE /\ WgRemovePeer(key, TRUE)
           /\ peers' = peers \ {key}
           /\ assignedRoutes' = Unassign(assignedRoutes, key)
  <2>1. kernelPeers' = kernelPeers \ {key} /\ kernelRoutes' = Unassign(kernelRoutes, key)
    BY <1>3 DEF WgRemovePeer, Command
  <2>2. IsFiniteSet(peers') /\ Cardinality(peers') = Cardinality(peers) - 1
    BY <1>1, <1>3, FS_RemoveElement DEF PeersInv
  <2>3. Cardinality(peers) \in Nat
    BY FS_CardinalityType DEF PeersInv
  <2>4. /\ assignedRoutes' \in [Routes -> Keys \cup {NoKey}]
        /\ Owners(assignedRoutes') = peers'
    BY <1>3, UnassignRemovesPeer, OwnersArePeers DEF PeersInv
  <2>5. RoutesBelongToPeers'
    BY <2>2, <2>3, <2>4, NodeAssumption DEF PeersInv, RoutesBelongToPeers, Owners
  <2>6. \A r \in Routes : assignedRoutes'[r]
                            = IF assignedRoutes[r] = key THEN NoKey ELSE assignedRoutes[r]
    BY <1>3 DEF Unassign
  <2>7. RoutesNotStolen'
    BY <1>1, <1>2, <2>1, <2>6, NodeAssumption DEF RoutesNotStolen, PeersInv
  <2>8. PeersMatchKernel'
    BY <1>1, <1>3, <2>1 DEF PeersInv, PeersMatchKernel
  <2> QED BY <1>1, <1>2, <1>3, <2>1, <2>2, <2>4, <2>5, <2>7, <2>8 DEF PeersInv
<1>4. CASE WgRemovePeer(key, FALSE) /\ UNCHANGED <<peers, assignedRoutes>>
  <2>1. \/ UNCHANGED <<kernelPeers, kernelRoutes>>
        \/ lateFailure /\ kernelRoutes' = Unassign(kernelRoutes, key)
    BY <1>4 DEF WgRemovePeer, Command
  <2>2. CASE UNCHANGED <<kernelPeers, kernelRoutes>>
    BY <1>1, <1>4, <2>2 DEF PeersInv, RoutesBelongToPeers, RoutesNotStolen, PeersMatchKernel
  <2>3. CASE lateFailure /\ kernelRoutes' = Unassign(kernelRoutes, key)
    <3>1. RoutesNotStolen'
      BY <1>1, <1>2, <1>4, <2>3 DEF PeersInv, RoutesNotStolen
    <3> QED BY <1>1, <1>2, <1>4, <2>3, <3>1
            DEF PeersInv, RoutesBelongToPeers, PeersMatchKernel
  <2> QED BY <2>1, <2>2, <2>3
<1> QED BY <1>3, <1>4, Zenon DEF RemovePeer

-----------------------------------------------------------------------------
(* The invariant of the peers holds on every behaviour of the node.        *)
LEMMA PeersInvHolds == Spec => []PeersInv
<1>1. Init => PeersInv
  BY NoRoutesFacts DEF Init, PeersInv, NothingManaged, RoutesBelongToPeers, RoutesNotStolen,
                       PeersMatchKernel
<1>2. PeersInv /\ [Next]_vars => PeersInv'
  <2> SUFFICES ASSUME PeersInv, [Next]_vars PROVE PeersInv'
    OBVIOUS
  <2>0. UNCHANGED lateFailure
    BY DEF Next, vars
  <2> DEFINE same == UNCHANGED <<peers, assignedRoutes, kernelPeers, kernelRoutes>>
  <2>1. ASSUME same, nodeActive' => nodeActive \/ pc = "configure",
               nodeActive => nodeActive',
               pc' \in {"link_add", "configure", "rollback"} => ~nodeActive'
        PROVE  PeersInv'
    BY <2>0, <2>1 DEF PeersInv, NothingManaged, RoutesBelongToPeers, RoutesNotStolen,
                      PeersMatchKernel, NoRoutes
  <2>2. CASE LifecycleStep
    <3>1. CASE Start
      BY <2>1, <3>1 DEF Start, memoryVars, kernelVars
    <3>2. CASE LinkAdd
      BY <2>1, <3>2 DEF LinkAdd, memoryVars, PeersInv
    <3>3. CASE ConfigureNode
      BY <2>1, <3>3 DEF ConfigureNode, memoryVars, kernelVars, PeersInv
    <3>4. CASE NodeStarted
      BY <2>1, <3>4 DEF NodeStarted, kernelVars
    <3>5. CASE Rollback
      <4>1. PICK ok \in BOOLEAN : DeleteInterface(ok)
        BY <3>5 DEF Rollback
      <4>2. ~nodeActive /\ ~nodeActive' /\ UNCHANGED <<peers, assignedRoutes>> /\ pc' = "idle"
        BY <3>5 DEF Rollback, memoryVars, PeersInv
      <4>3. same
        BY <4>1, <4>2 DEF DeleteInterface, Command, kernelVars, PeersInv, NothingManaged
      <4> QED BY <2>1, <4>2, <4>3
    <3>6. CASE EnableGateway
      BY <2>1, <3>6, Zenon DEF EnableGateway, SetTable, kernelVars
    <3>7. CASE Cleanup
      BY <2>0, <3>7, DeletionKeepsPeers, Zenon DEF Cleanup
    <3>8. CASE Stop
      BY <2>1, <3>8 DEF Stop, memoryVars, kernelVars
    <3>9. CASE DisableGateway
      BY <2>1, <3>9, Zenon DEF DisableGateway, SetTable
    <3>10. CASE StopNode
      BY <2>0, <3>10, DeletionKeepsPeers, Zenon DEF StopNode
    <3> QED BY <2>2, <3>1, <3>2, <3>3, <3>4, <3>5, <3>6, <3>7, <3>8, <3>9, <3>10
            DEF LifecycleStep
  <2>3. CASE PeerStep
    BY <2>0, <2>3, AddPeerKeepsPeers, RemovePeerKeepsPeers DEF PeerStep
  <2>4. CASE Health
    BY <2>1, <2>4 DEF Health, memoryVars, kernelVars
  <2>5. CASE UNCHANGED vars
    BY <2>1, <2>5 DEF vars, memoryVars, kernelVars, PeersInv
  <2> QED BY <2>2, <2>3, <2>4, <2>5 DEF Next
<1> QED BY <1>1, <1>2, PTL DEF Spec

(* The invariant of the phases holds on every behaviour of the node.       *)
LEMMA PhaseInvHolds == Spec => []PhaseInv
<1>1. Init => PhaseInv
  BY DEF Init, PhaseInv
<1>2. PeersInv /\ PhaseInv /\ [Next]_vars => PhaseInv'
  <2> SUFFICES ASSUME PeersInv, PhaseInv, [Next]_vars PROVE PhaseInv'
    OBVIOUS
  <2>0. UNCHANGED lateFailure
    BY DEF Next, vars
  <2> USE <2>0 DEF PhaseInv
  <2>1. CASE LifecycleStep
    <3> USE DEF memoryVars, kernelVars, Command
    <3>1. CASE Start
      BY <3>1 DEF Start
    <3>2. CASE LinkAdd
      BY <3>2 DEF LinkAdd, PeersInv
    <3>3. CASE ConfigureNode
      BY <3>3 DEF ConfigureNode
    <3>4. CASE NodeStarted
      BY <3>4 DEF NodeStarted
    <3>5. CASE Rollback
      BY <3>5 DEF Rollback, DeleteInterface, PeersInv
    <3>6. CASE EnableGateway
      BY <3>6 DEF EnableGateway, SetTable
    <3>7. CASE Cleanup
      BY <3>7 DEF Cleanup, DeleteInterface, ForgetNode
    <3>8. CASE Stop
      BY <3>8 DEF Stop
    <3>9. CASE DisableGateway
      BY <3>9 DEF DisableGateway, SetTable
    <3>10. CASE StopNode
      BY <3>10 DEF StopNode, DeleteInterface, ForgetNode
    <3> QED BY <2>1, <3>1, <3>2, <3>3, <3>4, <3>5, <3>6, <3>7, <3>8, <3>9, <3>10
            DEF LifecycleStep
  <2>2. CASE PeerStep
    <3>1. UNCHANGED <<active, nodeActive, gatewayActive, pc, link, table>>
      BY <2>2, Zenon DEF PeerStep, AddPeer, RemovePeer, WgSetPeer, WgRemovePeer
    <3> QED BY <3>1
  <2>3. CASE Health
    BY <2>3 DEF Health, memoryVars, kernelVars
  <2>4. CASE UNCHANGED vars
    BY <2>4 DEF vars, memoryVars, kernelVars
  <2> QED BY <2>1, <2>2, <2>3, <2>4 DEF Next
<1> QED BY <1>1, <1>2, PeersInvHolds, PTL DEF Spec

-----------------------------------------------------------------------------
(***************************************************************************)
(* LinuxWireGuardNode records a peer or forgets it only together with wg:  *)
(* where failed commands have no effect, memory and kernel agree on peers  *)
(* and routes, for any sequence of starts, stops, adds and removals.       *)
(***************************************************************************)
THEOREM PeersAgree == Spec => []PeersMatchKernel
<1>1. PeersInv => PeersMatchKernel
  BY DEF PeersInv
<1> QED BY <1>1, PeersInvHolds, PTL

(***************************************************************************)
(* add_peer never takes a route from a managed peer, even when commands    *)
(* fail after they took effect.                                            *)
(***************************************************************************)
THEOREM RoutesStay == Spec => []RoutesNotStolen
<1>1. PeersInv => RoutesNotStolen
  BY DEF PeersInv
<1> QED BY <1>1, PeersInvHolds, PTL

(***************************************************************************)
(* peers and assigned_routes of LinuxWireGuardNode describe the same peers *)
(* and never more than MAXIMUM_NODE_PEERS of them.                         *)
(***************************************************************************)
THEOREM RoutesAreOwned == Spec => []RoutesBelongToPeers
<1>1. PeersInv => RoutesBelongToPeers
  BY DEF PeersInv
<1> QED BY <1>1, PeersInvHolds, PTL

(***************************************************************************)
(* LinuxManagedWireGuardNode: when failed commands have no effect, the     *)
(* forwarding table is in place only over the node's own interface.        *)
(***************************************************************************)
THEOREM GatewayOverNode == Spec => []GatewayOnlyOverNode
<1>1. PhaseInv => GatewayOnlyOverNode
  BY DEF PhaseInv, GatewayOnlyOverNode
<1> QED BY <1>1, PhaseInvHolds, PTL

(***************************************************************************)
(* LinuxWireGuardNode never deletes or takes over an interface that was    *)
(* there before it, whatever fails and however late.                       *)
(***************************************************************************)
THEOREM ForeignLinkSafe == Spec => ForeignLinkUntouched
<1>1. PhaseInv /\ [Next]_vars => (link = "foreign" => link' = "foreign")
  <2> SUFFICES ASSUME PhaseInv, [Next]_vars, link = "foreign" PROVE link' = "foreign"
    OBVIOUS
  <2>1. CASE LifecycleStep
    BY <2>1, Zenon
    DEF LifecycleStep, PhaseInv, Start, LinkAdd, ConfigureNode, NodeStarted, Rollback,
        EnableGateway, Cleanup, Stop, DisableGateway, StopNode, SetTable, Command,
        memoryVars, kernelVars
  <2>2. CASE PeerStep
    BY <2>2, Zenon DEF PeerStep, AddPeer, RemovePeer, WgSetPeer, WgRemovePeer
  <2>3. CASE Health
    BY <2>3 DEF Health, kernelVars
  <2>4. CASE UNCHANGED vars
    BY <2>4 DEF vars, kernelVars
  <2> QED BY <2>1, <2>2, <2>3, <2>4 DEF Next
<1> QED BY <1>1, PhaseInvHolds, PTL DEF Spec, ForeignLinkUntouched

=============================================================================

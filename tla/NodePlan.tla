------------------------------ MODULE NodePlan ------------------------------
(***************************************************************************)
(* What start and add_peer of a node may be given, one item at a time:     *)
(* the client networks of its gateway (or the routes of a peer), and the   *)
(* addresses of its interface (core/transport/src/wireguard.rs).           *)
(***************************************************************************)
EXTENDS AddressPlan, FiniteSets

VARIABLES networks, addresses

planVars == <<networks, addresses>>

PlanInit == networks = <<>> /\ addresses = <<>>

PlanNext ==
  \/ /\ addresses = <<>> /\ Len(networks) < MaximumCount
     /\ \E n \in Prefixed : networks' = Append(networks, n)
     /\ UNCHANGED addresses
  \/ /\ ValidGatewayPolicy(networks) /\ Len(addresses) < MaximumCount
     /\ \E a \in Prefixed : addresses' = Append(addresses, a)
     /\ UNCHANGED networks

PlanSpec == PlanInit /\ [][PlanNext]_planVars

-----------------------------------------------------------------------------
(* The addresses of a network with their family, as a set.                 *)
HostsOf(n) == {n.family} \X Members(n)

(***************************************************************************)
(* Validation never accepts an address that belongs to two parties.  The   *)
(* client networks of a gateway are disjoint and none is a whole family    *)
(* (WireGuardNodeGatewayPolicy::validate); every interface address lies in *)
(* exactly one of them, although validate_for_node only looks for an       *)
(* address of every network and compares the numbers; and a peer gets as   *)
(* many addresses as it lists routes: "M1 peer profiles accept only unique *)
(* host routes, preventing a client from claiming a default route or       *)
(* another subnet" (docs/architecture/component-contracts.md).             *)
(***************************************************************************)
AddressesAssignedOnce ==
  /\ ValidGatewayPolicy(networks) =>
       \A i, j \in DOMAIN networks :
         /\ Members(networks[i]) # Addresses(networks[i].family)
         /\ i # j => HostsOf(networks[i]) \cap HostsOf(networks[j]) = {}
  /\ ValidForNode(networks, addresses) =>
       \A a \in DOMAIN addresses :
         Cardinality({i \in DOMAIN networks :
           <<addresses[a].family, addresses[a].address>> \in HostsOf(networks[i])}) = 1
  /\ ValidPeerRoutes(networks) =>
       Cardinality(UNION {HostsOf(networks[i]) : i \in DOMAIN networks}) = Len(networks)
=============================================================================

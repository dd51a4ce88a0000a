----------------------------- MODULE AddressPlan -----------------------------
(***************************************************************************)
(* The validation of networks and addresses (core/transport/src/           *)
(* wireguard.rs).  An address is a number of its family's width, and a     *)
(* network or an interface address is the record [family, address, prefix];*)
(* two small widths stand for 32 and 128.  A shift by the full width, that *)
(* a release build takes as a shift by nothing, is modelled as such.       *)
(***************************************************************************)
EXTENDS Naturals, Sequences, Powers

CONSTANTS
  Families,      \* IpAddr::V4 and IpAddr::V6
  Width,         \* the number of bits of a family's addresses
  Multicast,     \* the multicast addresses of a family
  MaximumCount   \* the longest list of networks or addresses

ASSUME AddressAssumption ==
  /\ Width \in [Families -> Nat \ {0}]
  /\ \A f \in Families : Multicast[f] \subseteq 0 .. Pow2[Width[f]] - 1
  /\ MaximumCount \in Nat \ {0}

Addresses(family) == 0 .. Pow2[Width[family]] - 1

(* What a u8 prefix may be: up to one more than the width is enough.       *)
PrefixLengths(family) == 0 .. Width[family] + 1

Prefixed ==
  UNION {[family : {f}, address : Addresses(f), prefix : PrefixLengths(f)] : f \in Families}

Unspecified(n) == n.address = 0
IsMulticast(n) == n.address \in Multicast[n.family]

(* address & (MAX << (width - prefix)), as the number of the block.        *)
Block(family, address, prefix) ==
  address \div Pow2[(Width[family] - prefix) % Width[family]]

ValidNetwork(n) ==
  /\ n.prefix =< Width[n.family]
  /\ ~IsMulticast(n)
  /\ IF n.prefix = 0 THEN n.address = 0
     ELSE n.address % Pow2[Width[n.family] - n.prefix] = 0

NetworksOverlap(m, n) ==
  LET prefix == IF m.prefix < n.prefix THEN m.prefix ELSE n.prefix
  IN /\ m.family = n.family
     /\ Block(m.family, m.address, prefix) = Block(n.family, n.address, prefix)

NetworkMatchesAddress(n, a) ==
  /\ n.prefix = a.prefix
  /\ n.family = a.family
  /\ Block(n.family, n.address, n.prefix) = Block(n.family, a.address, n.prefix)

ValidClientNetwork(n) ==
  /\ n.prefix # 0 /\ n.prefix # Width[n.family]
  /\ ~Unspecified(n)
  /\ ValidNetwork(n)

(* WireGuardNodeGatewayPolicy::validate                                    *)
ValidGatewayPolicy(networks) ==
  /\ Len(networks) \in 1 .. MaximumCount
  /\ \A i \in DOMAIN networks :
       /\ ValidClientNetwork(networks[i])
       /\ \A j \in 1 .. i - 1 : ~NetworksOverlap(networks[j], networks[i])

(* validate_interface_addresses                                            *)
ValidInterfaceAddresses(addresses) ==
  /\ Len(addresses) \in 1 .. MaximumCount
  /\ \A i \in DOMAIN addresses :
       /\ addresses[i].prefix =< Width[addresses[i].family]
       /\ ~Unspecified(addresses[i]) /\ ~IsMulticast(addresses[i])
       /\ \A j \in 1 .. i - 1 :
            <<addresses[j].family, addresses[j].address>>
              # <<addresses[i].family, addresses[i].address>>

(* Mutant: the lengths of the lists are not compared.                      *)
ValidForNodeAnyCount(networks, addresses) ==
  /\ ValidGatewayPolicy(networks)
  /\ ValidInterfaceAddresses(addresses)
  /\ \A i \in DOMAIN networks : \E j \in DOMAIN addresses :
       NetworkMatchesAddress(networks[i], addresses[j])

(* WireGuardNodeGatewayPolicy::validate_for_node                           *)
ValidForNode(networks, addresses) ==
  /\ ValidGatewayPolicy(networks)
  /\ ValidInterfaceAddresses(addresses)
  /\ Len(networks) = Len(addresses)
  /\ \A i \in DOMAIN networks : \E j \in DOMAIN addresses :
       NetworkMatchesAddress(networks[i], addresses[j])

HostPrefix(family) == Width[family]

(* WireGuardNodePeer::validate, for the routes.                            *)
ValidPeerRoutes(routes) ==
  /\ Len(routes) \in 1 .. MaximumCount
  /\ \A i \in DOMAIN routes :
       /\ routes[i].prefix = HostPrefix(routes[i].family)
       /\ ~Unspecified(routes[i]) /\ ~IsMulticast(routes[i])
       /\ \A j \in 1 .. i - 1 : routes[j] # routes[i]

(* The addresses of a network, by definition.                              *)
Members(n) ==
  LET size == Pow2[Width[n.family] - n.prefix]
  IN {a \in Addresses(n.family) : a \div size = n.address \div size}

=============================================================================

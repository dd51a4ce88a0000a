--------------------------- MODULE MCHostNetwork ---------------------------
(***************************************************************************)
(* What the host's kernel does for the processes of the system, in one     *)
(* run: the client's output filter, two clients over its table, the node's *)
(* forwarding and the health of a tunnel.  These share no state, so each   *)
(* behaviour moves one of them and leaves the others at their start.       *)
(***************************************************************************)
EXTENDS OutputFilter, TwoClients, NodeGateway, TunnelHealth

VARIABLE part   \* the machine this behaviour is about

vars == <<part, filterVars, clientsVars, gatewayVars, healthVars>>

(* Two client networks of one family that a node is started with in turn,  *)
(* a plan that is refused, and hosts inside and outside of them.           *)
V4(address, prefix) == [family |-> "V4", address |-> address, prefix |-> prefix]
MCWidth == [f \in Families |-> 3]
MCMulticast == [f \in Families |-> {}]
MCPlans ==
  {[networks |-> <<V4(2, 2)>>, addresses |-> <<V4(3, 2)>>],
   [networks |-> <<V4(2, 2), V4(4, 2)>>, addresses |-> <<V4(5, 2), V4(3, 2)>>],
   [networks |-> <<V4(4, 2)>>, addresses |-> <<V4(3, 2)>>]}
MCHosts == {[family |-> "V4", address |-> a] : a \in {1, 2, 3, 4}}

Init ==
  /\ part \in {"filter", "clients", "gateway", "health"}
  /\ FilterInit /\ ClientsInit /\ GatewayInit /\ HealthInit

Next ==
  /\ UNCHANGED part
  /\ \/ /\ part = "filter" /\ FilterNext
        /\ UNCHANGED <<clientsVars, gatewayVars, healthVars>>
     \/ /\ part = "clients" /\ ClientsNext
        /\ UNCHANGED <<filterVars, gatewayVars, healthVars>>
     \/ /\ part = "gateway" /\ GatewayNext
        /\ UNCHANGED <<filterVars, clientsVars, healthVars>>
     \/ /\ part = "health" /\ HealthNext
        /\ UNCHANGED <<filterVars, clientsVars, gatewayVars>>

Spec == Init /\ [][Next]_vars
=============================================================================

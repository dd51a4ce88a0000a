----------------------------- MODULE TwoClients -----------------------------
(***************************************************************************)
(* Two cyberia-linux-client processes on one host.  The leases of          *)
(* acquire_interface_lease keep two clients of one interface apart; all    *)
(* clients replace the one nftables table cyberia_vpn.                     *)
(***************************************************************************)
EXTENDS KillSwitch

CONSTANTS
  SessionIds, LateFailure,
  Directories   \* the runtime_directory values of the configurations

VARIABLES
  nft,
  killSwitchA, transportA, pcA, ownedA, stageA, leaseA,
  killSwitchB, transportB, pcB, ownedB, stageB, leaseB

A == INSTANCE TableClient WITH
       killSwitch <- killSwitchA, transportMayBeActive <- transportA,
       controllerPc <- pcA, owned <- ownedA, stage <- stageA, lease <- leaseA
B == INSTANCE TableClient WITH
       killSwitch <- killSwitchB, transportMayBeActive <- transportB,
       controllerPc <- pcB, owned <- ownedB, stage <- stageB, lease <- leaseB

varsA == <<killSwitchA, transportA, pcA, ownedA, stageA, leaseA>>
varsB == <<killSwitchB, transportB, pcB, ownedB, stageB, leaseB>>
clientsVars == <<nft, varsA, varsB>>

Leases == [directory : Directories, interface : ValidInterfaces]

ClientsInit ==
  /\ nft = Disabled
  /\ A!ClientInit(CHOOSE l \in Leases : TRUE)
  /\ B!ClientInit(CHOOSE l \in Leases : TRUE)

(* Mutant: no lease is taken.                                              *)
MayLeaseAlways(l, stage, lease) == TRUE

(* try_lock_exclusive on interface-<name>.lock in the runtime directory,   *)
(* while another process in this stage locked lease; the lock of a process *)
(* ends with it.                                                           *)
MayLease(l, stage, lease) == stage # "off" => lease # l

StartA == \E l \in Leases : MayLease(l, stageB, leaseB) /\ A!Start(l)
StartB == \E l \in Leases : MayLease(l, stageA, leaseA) /\ B!Start(l)

ClientsNext ==
  \/ (StartA \/ A!Step) /\ UNCHANGED varsB
  \/ (StartB \/ B!Step) /\ UNCHANGED varsA

ClientsSpec == ClientsInit /\ [][ClientsNext]_clientsVars

-----------------------------------------------------------------------------
(***************************************************************************)
(* The table admits an interface only for a client that believes its       *)
(* tunnel may be up: a running client that has not connected yet, or has   *)
(* taken its tunnel down, never sees its interface admitted, whatever the  *)
(* other client does to the table in between.                              *)
(***************************************************************************)
AdmittedIsManaged ==
  /\ stageA # "off" /\ nft = TunnelOnly(leaseA.interface) => transportA
  /\ stageB # "off" /\ nft = TunnelOnly(leaseB.interface) => transportB
=============================================================================

---------------------------- MODULE AnyTransport ----------------------------
(***************************************************************************)
(* ConnectionController over an arbitrary implementation of the Transport  *)
(* trait (core/transport/src/lib.rs), driven by an arbitrary caller.  The  *)
(* trait is modelled by its contract: a call may create and remove         *)
(* platform state as it likes while it runs; connect returns some session  *)
(* id or an error that may leave state behind; disconnect returns "ok"     *)
(* only when nothing is left.                                              *)
(***************************************************************************)
EXTENDS ConnectionController

CONSTANT SessionIds   \* the session ids transports return, valid or not

VARIABLE owned        \* the transport holds platform state

vars == <<killSwitch, transportMayBeActive, controllerPc, nft, owned>>

TypeOK == ControllerTypeOK /\ owned \in BOOLEAN

Init ==
  /\ \E alwaysOn \in BOOLEAN :
       /\ killSwitch = New(alwaysOn)
       /\ nft = New(alwaysOn).policy
  /\ transportMayBeActive = FALSE
  /\ controllerPc = "idle"
  /\ owned = FALSE

TransportWorks ==
  /\ controllerPc \in TransportCalled
  /\ owned' \in (IF controllerPc = "connect" THEN BOOLEAN ELSE {FALSE, owned})
  /\ UNCHANGED controllerVars

TransportConnectReturns ==
  /\ \/ ControllerConnectFailed
     \/ owned /\ \E id \in SessionIds : ControllerConnected(id)
  /\ UNCHANGED owned

TransportDisconnectReturns ==
  \E result \in {"ok", "err"} :
    /\ result = "ok" => ~owned
    /\ ControllerUndone(result) \/ ControllerDisconnected(result)
    /\ UNCHANGED owned

CallerCalls ==
  /\ \/ ControllerConnect
     \/ ControllerDisconnect
     \/ ControllerDisable
     \/ \E result \in {"ok", "err"} : ControllerReturn(result)
  /\ UNCHANGED owned

Next ==
  \/ TransportWorks
  \/ TransportConnectReturns
  \/ TransportDisconnectReturns
  \/ CallerCalls

Spec == Init /\ [][Next]_vars

-----------------------------------------------------------------------------
(***************************************************************************)
(* ConnectionController implements the fail-secure promise: "A firewall    *)
(* error prevents tunnel setup or teardown from creating an unfiltered     *)
(* interval" (docs/architecture/component-contracts.md).                   *)
(***************************************************************************)
Promise == INSTANCE FailSecure WITH policy <- nft.mode, owned <- owned
ImplementsFailSecure == Promise!FailSecureSpec

(***************************************************************************)
(* An always-on controller never lifts filtering, not even between the     *)
(* firewall calls of an operation (KillSwitch::disable refuses, and        *)
(* tunnel_lost never turns blocking off).                                  *)
(***************************************************************************)
AlwaysOnNeverReleased == killSwitch.alwaysOn => nft # Disabled

=============================================================================

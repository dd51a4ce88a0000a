------------------------ MODULE ConnectionController ------------------------
(***************************************************************************)
(* ConnectionController (core/killswitch/src/lib.rs): the object that      *)
(* orders firewall updates around the calls of a transport.                *)
(*                                                                         *)
(* An operation is a sequence of calls on the firewall and the transport.  *)
(* controllerPc says where it is: "idle"; "connect", "undo", "disconnect"  *)
(* while a transport call is outstanding; "ok" or "err" when the result is *)
(* there for the caller to take.  What the transport does meanwhile is the *)
(* business of the module that composes the two (AnyTransport or           *)
(* LinuxConnection).                                                       *)
(***************************************************************************)
EXTENDS KillSwitch

CONSTANT
  LateFailure   \* TRUE: a command may take effect and still report an error
                \* (it is killed, or waiting for it fails, after its commit)

ASSUME LateFailureAssumption == LateFailure \in BOOLEAN

VARIABLES
  killSwitch,            \* ConnectionController::kill_switch
  transportMayBeActive,  \* ConnectionController::transport_may_be_active
  controllerPc,
  nft                    \* the policy in force in the kernel's own table

controllerVars == <<killSwitch, transportMayBeActive, controllerPc, nft>>

ControllerPcs == {"idle", "connect", "undo", "disconnect", "ok", "err"}
TransportCalled == {"connect", "undo", "disconnect"}

ControllerTypeOK ==
  /\ killSwitch \in KillSwitchRecord
  /\ transportMayBeActive \in BOOLEAN
  /\ controllerPc \in ControllerPcs
  /\ nft \in TrafficPolicy

-----------------------------------------------------------------------------
(***************************************************************************)
(* An external command.  It succeeds only if it is possible, and it may    *)
(* always fail; a failed one has no effect unless LateFailure.             *)
(***************************************************************************)
Command(ok, possible, Effect, NoEffect) ==
  \/ ok /\ possible /\ Effect
  \/ ~ok /\ NoEffect
  \/ ~ok /\ LateFailure /\ possible /\ Effect

(* Firewall::apply: one nftables transaction replaces the whole table.     *)
Apply(policy, ok) == Command(ok, TRUE, nft' = policy, UNCHANGED nft)

-----------------------------------------------------------------------------
(***************************************************************************)
(* ConnectionController::new applied to the kill switch ks.                *)
(***************************************************************************)
ControllerNew(ks, ok) ==
  /\ Apply(ks.policy, ok)
  /\ killSwitch' = ks
  /\ transportMayBeActive' = FALSE
  /\ controllerPc' = "idle"

(***************************************************************************)
(* connect: arm blocking, then call the transport.                         *)
(***************************************************************************)
ControllerConnect ==
  /\ controllerPc = "idle"
  /\ \/ /\ Apply(BlockNonTunnel, TRUE)
        /\ killSwitch' = Enable(killSwitch)
        /\ transportMayBeActive' = TRUE
        /\ controllerPc' = "connect"
     \/ /\ Apply(BlockNonTunnel, FALSE)
        /\ controllerPc' = "err"
        /\ UNCHANGED <<killSwitch, transportMayBeActive>>

(* The transport refused or failed: blocking stays, and so does the flag.  *)
ControllerConnectFailed ==
  /\ controllerPc = "connect"
  /\ controllerPc' = "err"
  /\ UNCHANGED <<killSwitch, transportMayBeActive, nft>>

(* The transport returned session id: admit its interface or undo.         *)
ControllerConnected(id) ==
  /\ controllerPc = "connect"
  /\ UNCHANGED transportMayBeActive
  /\ \/ /\ MayEstablish(killSwitch, id)
        /\ Apply(TunnelOnly(id), TRUE)
        /\ killSwitch' = TunnelEstablished(killSwitch, id)
        /\ controllerPc' = "ok"
     \/ /\ MayEstablish(killSwitch, id)
        /\ Apply(TunnelOnly(id), FALSE)
        /\ controllerPc' = "undo"
        /\ UNCHANGED killSwitch
     \/ /\ ~MayEstablish(killSwitch, id)
        /\ controllerPc' = "undo"
        /\ UNCHANGED <<killSwitch, nft>>

(* Mutant: the flag is cleared whatever the teardown returned.             *)
UndoneClearsFlag(result) ==
  /\ controllerPc = "undo"
  /\ controllerPc' = "err"
  /\ transportMayBeActive' = FALSE
  /\ UNCHANGED <<killSwitch, nft>>

(* The teardown that follows a refused session returned result.            *)
ControllerUndone(result) ==
  /\ controllerPc = "undo"
  /\ controllerPc' = "err"
  /\ transportMayBeActive' = (transportMayBeActive /\ result # "ok")
  /\ UNCHANGED <<killSwitch, nft>>

(***************************************************************************)
(* disconnect: restore blocking, then call the transport.                  *)
(***************************************************************************)
ControllerDisconnect ==
  /\ controllerPc = "idle"
  /\ UNCHANGED transportMayBeActive
  /\ \/ /\ Apply(TunnelLost(killSwitch).policy, TRUE)
        /\ killSwitch' = TunnelLost(killSwitch)
        /\ controllerPc' = "disconnect"
     \/ /\ Apply(TunnelLost(killSwitch).policy, FALSE)
        /\ controllerPc' = "err"
        /\ UNCHANGED killSwitch

ControllerDisconnected(result) ==
  /\ controllerPc = "disconnect"
  /\ controllerPc' = result
  /\ transportMayBeActive' = (transportMayBeActive /\ result # "ok")
  /\ UNCHANGED <<killSwitch, nft>>

(* Mutant: the check of transport_may_be_active is missing.                *)
DisableRefusedByPolicyOnly ==
  killSwitch.policy.mode = "TunnelOnly" \/ ~MayDisable(killSwitch)

(***************************************************************************)
(* disable: only once teardown is known to be complete.                    *)
(***************************************************************************)
DisableRefused ==
  \/ transportMayBeActive
  \/ killSwitch.policy.mode = "TunnelOnly"
  \/ ~MayDisable(killSwitch)

ControllerDisable ==
  /\ controllerPc = "idle"
  /\ UNCHANGED transportMayBeActive
  /\ \/ /\ DisableRefused
        /\ controllerPc' = "err"
        /\ UNCHANGED <<killSwitch, nft>>
     \/ /\ ~DisableRefused
        /\ Apply(Disabled, TRUE)
        /\ killSwitch' = Disable(killSwitch)
        /\ controllerPc' = "ok"
     \/ /\ ~DisableRefused
        /\ Apply(Disabled, FALSE)
        /\ controllerPc' = "err"
        /\ UNCHANGED killSwitch

(* The caller takes the result of the operation.                           *)
ControllerReturn(result) ==
  /\ result \in {"ok", "err"}
  /\ controllerPc = result
  /\ controllerPc' = "idle"
  /\ UNCHANGED <<killSwitch, transportMayBeActive, nft>>

=============================================================================

----------------------------- MODULE TableClient -----------------------------
(***************************************************************************)
(* One of several client processes on a host                               *)
(* (apps/linux-client/src/lib.rs): run_until_shutdown over the controller  *)
(* and an arbitrary transport, with DNS reduced to its failures.  The      *)
(* table nft is shared with the other clients.                             *)
(***************************************************************************)
EXTENDS AnyTransport

VARIABLES
  stage,     \* "off", or where run_until_shutdown is
  lease      \* [directory, interface] of the lock file this process locked

ClientInit(initial) ==
  /\ killSwitch = New(FALSE)
  /\ transportMayBeActive = FALSE
  /\ controllerPc = "idle"
  /\ owned = FALSE
  /\ stage = "off"
  /\ lease = initial

(* The lease is taken, the connection built and filtering armed.           *)
Start(l) ==
  /\ stage = "off"
  /\ \E alwaysOn, ok \in BOOLEAN :
       /\ ControllerNew(Enable(New(alwaysOn)), ok)
       /\ stage' = IF ok THEN "ready" ELSE "off"
  /\ lease' = l
  /\ owned' = FALSE

Connect ==
  /\ stage = "ready"
  /\ ControllerConnect
  /\ stage' = "connecting"
  /\ UNCHANGED <<owned, lease>>

(* connect returned, or its DNS setup failed; if the clean-up of DNS       *)
(* failed as well, the tunnel stays up and connect fails.                  *)
Failed == IF killSwitch.alwaysOn THEN "off" ELSE "failed"

Connected ==
  /\ stage = "connecting"
  /\ ControllerReturn("ok")
  /\ stage' \in {"waiting", "dns_failed", Failed}
  /\ UNCHANGED <<owned, lease>>

ConnectFailed ==
  /\ \/ stage = "connecting" /\ ControllerReturn("err")
     \/ stage = "undoing" /\ \E result \in {"ok", "err"} : ControllerReturn(result)
  /\ stage' = Failed
  /\ UNCHANGED <<owned, lease>>

(* After failed DNS, or a signal and the DNS revert.                       *)
Disconnect ==
  /\ stage \in {"dns_failed", "waiting"}
  /\ ControllerDisconnect
  /\ stage' = IF stage = "waiting" THEN "disconnecting" ELSE "undoing"
  /\ UNCHANGED <<owned, lease>>

Disconnected ==
  /\ stage = "disconnecting"
  /\ \/ ControllerReturn("err") /\ stage' = "off"
     \/ ControllerReturn("ok") /\ stage' = IF killSwitch.alwaysOn THEN "off" ELSE "releasing"
  /\ UNCHANGED <<owned, lease>>

Release ==
  /\ stage \in {"failed", "releasing"}
  /\ ControllerDisable
  /\ stage' = "released"
  /\ UNCHANGED <<owned, lease>>

Released ==
  /\ stage = "released"
  /\ \E result \in {"ok", "err"} : ControllerReturn(result)
  /\ stage' = "off"
  /\ UNCHANGED <<owned, lease>>

(* A failed DNS revert ends a waiting run; SIGKILL any run.                *)
Die ==
  /\ stage # "off"
  /\ stage' = "off"
  /\ controllerPc' = "idle"
  /\ UNCHANGED <<killSwitch, transportMayBeActive, nft, owned, lease>>

(* The transport's session id is the configured interface.                 *)
TransportStep ==
  /\ stage # "off"
  /\ \/ TransportWorks
     \/ ControllerConnectFailed /\ UNCHANGED owned
     \/ owned /\ ControllerConnected(lease.interface) /\ UNCHANGED owned
     \/ TransportDisconnectReturns
  /\ UNCHANGED <<stage, lease>>

Step ==
  \/ Connect \/ Connected \/ ConnectFailed \/ Disconnect \/ Disconnected
  \/ Release \/ Released \/ Die \/ TransportStep

=============================================================================

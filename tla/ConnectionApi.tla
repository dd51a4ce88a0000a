---------------------------- MODULE ConnectionApi ----------------------------
(***************************************************************************)
(* LinuxWireGuardConnection under a caller that issues connect, disconnect *)
(* and disable in any order, again after an error included: what the       *)
(* public type promises whoever uses it.                                   *)
(***************************************************************************)
EXTENDS LinuxConnection

(* The constructor returned: blocking is in force and nothing is up, but   *)
(* an interface or rules of an earlier process may be there.               *)
ApiInit ==
  /\ \E alwaysOn \in BOOLEAN : killSwitch = Enable(New(alwaysOn))
  /\ transportMayBeActive = FALSE
  /\ controllerPc = "idle"
  /\ nft = killSwitch.policy
  /\ ConnectionFresh
  /\ stopped = FALSE
  /\ link \in {"absent", "stale"}
  /\ configured = {}
  /\ kernelRules \in [Rules -> {"absent", "stale"}]
  /\ resolved = {}

ApiCall ==
  \/ \E cancelled \in BOOLEAN : Connect(cancelled)
  \/ Disconnect
  \/ DisableFiltering
  \/ \E result \in {"ok", "err"} : ConnectionReturn(result)

ApiNext == ApiCall \/ ConnectionStep \/ ContextStops \/ LinkLost

(* Every external command ends, so an operation in progress goes on.       *)
ApiSpec ==
  /\ ApiInit
  /\ [][ApiNext]_connectionVars
  /\ WF_connectionVars(ConnectionStep)

-----------------------------------------------------------------------------
(* Every operation of the connection returns to its caller.                *)
OperationsReturn == [](call # "idle" => <>(call \in {"idle", "ok", "err"}))

(***************************************************************************)
(* An always-on connection never lifts filtering, whatever its caller      *)
(* does: KillSwitch::disable refuses and tunnel_lost keeps blocking.       *)
(***************************************************************************)
AlwaysOnNeverReleased == killSwitch.alwaysOn => nft # Disabled

=============================================================================

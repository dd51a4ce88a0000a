--------------------------- MODULE LinuxConnection ---------------------------
(***************************************************************************)
(* LinuxWireGuardConnection (core/killswitch/src/linux_connection.rs): the *)
(* controller, the WireGuard transport and the DNS backend composed into   *)
(* the three operations a client calls.                                    *)
(*                                                                         *)
(* The components are single-threaded objects that call each other, so one *)
(* of them runs at a time; a caller's step is taken together with the call *)
(* or the return of its callee.  `call' is the operation in progress.      *)
(***************************************************************************)
EXTENDS LinuxDns

CONSTANT Interface    \* the configured interface name, also the session id

(* The adapter's valid_interface admits fewer names than the kill switch's.*)
ASSUME InterfaceAssumption == Interface \in ValidInterfaces

VARIABLE call         \* "idle", a point of the operation, or "ok"/"err"

connectionVars ==
  <<controllerVars, tunnelVars, stopped, dnsVars, call>>

Calls == {"idle", "connect", "configure", "retry", "undo", "revert",
          "disconnect", "disable", "ok", "err"}

ConnectionTypeOK ==
  /\ ControllerTypeOK
  /\ TunnelTypeOK
  /\ DnsTypeOK
  /\ call \in Calls

ConnectionFresh == AdapterFresh /\ DnsFresh /\ call = "idle"

(* LinuxWireGuardConnection::with_runners: the kill switch is enabled, and *)
(* its policy applied last.                                                *)
ConnectionNew(alwaysOn, ok) ==
  /\ AdapterNew
  /\ dnsActive' = FALSE
  /\ dnsPc' = "idle"
  /\ call' = "idle"
  /\ ControllerNew(Enable(New(alwaysOn)), ok)

-----------------------------------------------------------------------------
(***************************************************************************)
(* connect(cancellation): the token may be cancelled before the call.      *)
(***************************************************************************)
Connect(cancelled) ==
  /\ call = "idle"
  /\ ControllerConnect
  /\ call' = "connect"
  /\ stopped' = cancelled
  /\ UNCHANGED <<tunnelVars, dnsVars>>

ConnectFailed ==
  /\ call = "connect"
  /\ ControllerReturn("err")
  /\ call' = "err"
  /\ UNCHANGED <<tunnelVars, stopped, dnsVars>>

ConnectConfiguresDns ==
  /\ call = "connect"
  /\ ControllerReturn("ok")
  /\ DnsConfigure
  /\ call' = "configure"
  /\ UNCHANGED <<tunnelVars, stopped>>

ConfigureDone ==
  /\ call = "configure"
  /\ DnsReturn("ok")
  /\ call' = "ok"
  /\ UNCHANGED <<controllerVars, tunnelVars, stopped>>

ConfigureNeedsRevert ==
  /\ call = "configure"
  /\ DnsReturn("err")
  /\ dnsActive
  /\ call' = "retry"
  /\ UNCHANGED <<controllerVars, tunnelVars, stopped>>

ConfigureFailed ==
  /\ call = "configure"
  /\ DnsReturn("err")
  /\ ~dnsActive
  /\ ControllerDisconnect
  /\ call' = "undo"
  /\ UNCHANGED <<tunnelVars, stopped>>

RetryRevert ==
  /\ call = "retry"
  /\ DnsRevert
  /\ UNCHANGED <<controllerVars, adapterVars, stopped, call>>

(* Mutant: the revert is retried until it succeeds.                        *)
RetryForever ==
  /\ call = "retry"
  /\ DnsReturn("err")
  /\ UNCHANGED <<controllerVars, tunnelVars, stopped, call>>

(* The retry failed: the tunnel and its policy are kept.                   *)
RetryFailed ==
  /\ call = "retry"
  /\ DnsReturn("err")
  /\ call' = "err"
  /\ UNCHANGED <<controllerVars, tunnelVars, stopped>>

RetryDone ==
  /\ call = "retry"
  /\ DnsReturn("ok")
  /\ ControllerDisconnect
  /\ call' = "undo"
  /\ UNCHANGED <<tunnelVars, stopped>>

UndoReturned ==
  /\ call = "undo"
  /\ \E result \in {"ok", "err"} : ControllerReturn(result)
  /\ call' = "err"
  /\ UNCHANGED <<tunnelVars, stopped, dnsVars>>

(***************************************************************************)
(* disconnect: revert DNS, then tear down.                                 *)
(***************************************************************************)
Disconnect ==
  /\ call = "idle"
  /\ DnsRevert
  /\ call' = "revert"
  /\ UNCHANGED <<controllerVars, adapterVars, stopped>>

(* Mutant: a failed revert does not stop the teardown.                     *)
RevertFailureIgnored ==
  /\ call = "revert"
  /\ DnsReturn("err")
  /\ ControllerDisconnect
  /\ call' = "disconnect"
  /\ UNCHANGED <<tunnelVars, stopped>>

RevertFailed ==
  /\ call = "revert"
  /\ DnsReturn("err")
  /\ call' = "err"
  /\ UNCHANGED <<controllerVars, tunnelVars, stopped>>

RevertDone ==
  /\ call = "revert"
  /\ DnsReturn("ok")
  /\ ControllerDisconnect
  /\ call' = "disconnect"
  /\ UNCHANGED <<tunnelVars, stopped>>

(***************************************************************************)
(* disable, and the results of disconnect and disable.                     *)
(***************************************************************************)
DisableFiltering ==
  /\ call = "idle"
  /\ ControllerDisable
  /\ call' = "disable"
  /\ UNCHANGED <<tunnelVars, stopped, dnsVars>>

OperationReturned ==
  /\ call \in {"disconnect", "disable"}
  /\ \E result \in {"ok", "err"} :
       /\ ControllerReturn(result)
       /\ call' = result
  /\ UNCHANGED <<tunnelVars, stopped, dnsVars>>

(* The caller takes the result and may call again.                         *)
ConnectionReturn(result) ==
  /\ result \in {"ok", "err"}
  /\ call = result
  /\ call' = "idle"
  /\ UNCHANGED <<controllerVars, tunnelVars, stopped, dnsVars>>

-----------------------------------------------------------------------------
(***************************************************************************)
(* The controller calls the transport and takes its result.                *)
(***************************************************************************)
TransportConnect ==
  /\ controllerPc = "connect"
  /\ TunnelConnect
  /\ UNCHANGED <<controllerVars, stopped, dnsVars, call>>

TransportConnectFailed ==
  /\ ControllerConnectFailed
  /\ TunnelReturn("err")
  /\ UNCHANGED <<stopped, dnsVars, call>>

TransportConnected ==
  /\ ControllerConnected(Interface)
  /\ TunnelReturn("ok")
  /\ UNCHANGED <<stopped, dnsVars, call>>

TransportDisconnect ==
  /\ controllerPc \in {"undo", "disconnect"}
  /\ TunnelDisconnect
  /\ UNCHANGED <<controllerVars, stopped, dnsVars, call>>

TransportDisconnected ==
  /\ \E result \in {"ok", "err"} :
       /\ TunnelReturn(result)
       /\ ControllerUndone(result) \/ ControllerDisconnected(result)
  /\ UNCHANGED <<stopped, dnsVars, call>>

TransportStep ==
  /\ TunnelStep
  /\ UNCHANGED <<controllerVars, stopped, dnsVars, call>>

ResolverStep ==
  /\ DnsStep \/ DnsStopped \/ DnsCleanup
  /\ UNCHANGED <<controllerVars, adapterVars, stopped, call>>

(* Everything the object does inside an operation, up to its result.       *)
ConnectionStep ==
  \/ ConnectFailed \/ ConnectConfiguresDns
  \/ ConfigureDone \/ ConfigureNeedsRevert \/ ConfigureFailed
  \/ RetryRevert \/ RetryFailed \/ RetryDone \/ UndoReturned
  \/ RevertFailed \/ RevertDone \/ OperationReturned
  \/ TransportConnect \/ TransportConnectFailed \/ TransportConnected
  \/ TransportDisconnect \/ TransportDisconnected
  \/ TransportStep \/ ResolverStep

-----------------------------------------------------------------------------
(***************************************************************************)
(* The environment of a connect call: its deadline passes or its token is  *)
(* cancelled; and, at any time, the interface is removed underneath.       *)
(***************************************************************************)
ContextStops ==
  /\ call \in {"connect", "configure"}
  /\ ~stopped
  /\ stopped' = TRUE
  /\ UNCHANGED <<controllerVars, tunnelVars, dnsVars, call>>

LinkLost ==
  /\ link # "absent"
  /\ RemoveLink
  /\ UNCHANGED <<controllerVars, adapterVars, stopped, dnsVars, call>>

-----------------------------------------------------------------------------
(***************************************************************************)
(* Filtering is off only when no interface and no policy rule of this      *)
(* process is left: ConnectionController::disable refuses while            *)
(* transport_may_be_active, which every partial setup and teardown must    *)
(* keep set, however rollback_setup and bring_down fail.                   *)
(***************************************************************************)
ReleasedOnlyWhenClean == nft = Disabled => OwnsNothing

(***************************************************************************)
(* transport_may_be_active covers every resource: it is cleared only when  *)
(* bring_down removed the rules and the interface, so an idle controller   *)
(* with the flag down has nothing left to tear down.                       *)
(***************************************************************************)
FlagCoversResources == ~transportMayBeActive => OwnsNothing

(***************************************************************************)
(* Every policy rule of this process that bring_down could still remove is *)
(* known to the backend: after an operation that left the adapter          *)
(* connected, each such rule in the kernel is in active_rules, also after  *)
(* teardowns that stopped half-way.                                        *)
(***************************************************************************)
RulesTracked ==
  connected /\ tunnelPc \in {"idle", "ok", "err"}
    => OwnRules \subseteq RulesOf(activeRules)

(***************************************************************************)
(* DNS is never left owned without a tunnel: connect configures DNS after  *)
(* the transport and every path reverts it before the transport goes.      *)
(***************************************************************************)
DnsOnlyOverTunnel == dnsActive => connected

(***************************************************************************)
(* The in-memory policy is the one in force, at every point of every       *)
(* operation, when a failed command has no effect: kill_switch is assigned *)
(* only after Firewall::apply accepted the same policy.                    *)
(***************************************************************************)
PolicyInForce == nft = killSwitch.policy

(***************************************************************************)
(* "It arms blocking before connect and restores it before every           *)
(* disconnect attempt" (core/killswitch/src/lib.rs): while the transport   *)
(* builds up or tears down, traffic is blocked, not only tunnelled.        *)
(***************************************************************************)
BlockedWhileChanging ==
  tunnelPc \notin {"idle", "ok", "err"} => nft = BlockNonTunnel

(***************************************************************************)
(* The firewall admits the interface only when every setup command took    *)
(* effect: all policy rules are in place and the link, unless it was lost  *)
(* meanwhile, is fully configured.                                         *)
(***************************************************************************)
AdmitsOnlyCompleteTunnel ==
  [][nft'.mode = "TunnelOnly" /\ nft.mode # "TunnelOnly"
       => /\ connected
          /\ \A n \in Steps : AddsRule(n) => kernelRules[Setup[n].rule] = "own"
          /\ link = "own" => \A n \in Steps : AddsRule(n) \/ n \in configured
    ]_connectionVars

(***************************************************************************)
(* A successful connect means a protected session: the policy admits only  *)
(* the tunnel, the adapter owns it, and DNS goes through the link if it    *)
(* still exists.                                                           *)
(***************************************************************************)
ConnectOkMeansProtected ==
  [][call = "configure" /\ call' = "ok"
       => /\ nft = TunnelOnly(Interface)
          /\ connected /\ dnsActive
          /\ link = "own" => resolved = DnsSettings
    ]_connectionVars

(***************************************************************************)
(* "A failure to create the link does not delete an existing interface     *)
(* with the requested name. Teardown deletes only resources owned by the   *)
(* active backend instance" (docs/architecture/component-contracts.md): no *)
(* step of the process removes a link or a rule it did not create.         *)
(***************************************************************************)
ForeignUntouched ==
  [][/\ link = "stale" /\ link' # "stale" => UNCHANGED <<tunnelPc, dnsPc, call>>
     /\ \A r \in Rules : kernelRules[r] = "stale" => kernelRules'[r] = "stale"
    ]_connectionVars

(***************************************************************************)
(* The Linux connection implements the fail-secure promise: interface and  *)
(* rules appear only under filtering, the tunnel is admitted only from a   *)
(* filtering policy, and filtering is released only when nothing of this   *)
(* process is left.                                                        *)
(***************************************************************************)
Promise == INSTANCE FailSecure WITH policy <- nft.mode, owned <- ~OwnsNothing
ImplementsFailSecure == Promise!FailSecureSpec

(***************************************************************************)
(* "Implementations [...] must leave no interface behind when bring_up     *)
(* returns an error" (WireGuardBackend, core/transport/src/wireguard.rs).  *)
(* Not so: rollback_setup ignores whether its commands succeed.            *)
(***************************************************************************)
FailedBringUpLeavesNothing ==
  controllerPc = "connect" /\ tunnelPc = "err" /\ ~connected => OwnsNothing

(***************************************************************************)
(* disconnect "blocks non-tunnel traffic before removing routes and the    *)
(* interface" (core/killswitch/src/linux_connection.rs), so an answer      *)
(* "transport is not connected" (TransportError::NotConnected) means that  *)
(* no tunnel is up.  Not so: any teardown that fails while DNS is not      *)
(* configured leaves the adapter connected, in a failed connect as well as *)
(* after the revert of a disconnect; from then on every disconnect is      *)
(* answered by LinuxDnsBackend::revert, before anything is blocked, and    *)
(* the teardown is not tried again.                                        *)
(***************************************************************************)
NotConnectedIsTrue ==
  call = "revert" /\ dnsPc = "err" /\ ~dnsActive => ~connected

=============================================================================

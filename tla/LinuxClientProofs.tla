------------------------- MODULE LinuxClientProofs -------------------------
(***************************************************************************)
(* The Linux connection is fail-secure for every profile: every list of    *)
(* setup commands, every set of policy rules, with or without late command *)
(* failures, under a caller that calls as it likes.  The last part shows   *)
(* that successive runs of the client, killed and signalled at any step,   *)
(* keep the invariant of the connection.                                   *)
(***************************************************************************)
EXTENDS LinuxClient, ConnectionApi, KillSwitchProofs, TLAPS

(* The rules bring_up adds.                                                *)
PlannedRules == {Setup[n].rule : n \in {k \in Steps : AddsRule(k)}}

(***************************************************************************)
(* The inductive invariant.  FlagCovers: whatever the process has in the   *)
(* kernel or in the adapter is covered by transport_may_be_active, and     *)
(* that keeps the firewall's and the controller's policy from Disabled.    *)
(***************************************************************************)
FlagCovers ==
  /\ ~transportMayBeActive => OwnsNothing /\ ~connected
  /\ transportMayBeActive => nft # Disabled /\ killSwitch.policy # Disabled
  /\ controllerPc \in {"connect", "undo"} => transportMayBeActive

(* Calling: the transport runs only inside a controller operation, setup   *)
(* only while not connected, teardown only while connected.                *)
Calling ==
  /\ tunnelPc # "idle" => controllerPc \in TransportCalled
  /\ tunnelPc \in {"link_add", "setup", "rollback_rules", "rollback_link"}
       => controllerPc = "connect" /\ ~connected
  /\ tunnelPc \in {"down_rules", "down_link"}
       => controllerPc \in {"undo", "disconnect"} /\ connected

(* Tracked: the rules in the kernel are planned ones, setup records those  *)
(* it added, and a connected adapter knows every rule there is to remove.  *)
Tracked ==
  /\ OwnRules \subseteq PlannedRules
  /\ tunnelPc = "setup"
       => \A n \in Steps : n < nextStep /\ AddsRule(n) => n \in pendingRules
  /\ RulesTracked
  /\ tunnelPc = "down_rules" => OwnRules \subseteq RulesOf(pendingRules)
  /\ tunnelPc = "down_link" => OwnRules = {}
  /\ tunnelPc = "ok" /\ controllerPc \in {"undo", "disconnect"}
       => OwnsNothing /\ ~connected

Core == FlagCovers /\ Calling /\ Tracked
Inv == ConnectionTypeOK /\ Core

-----------------------------------------------------------------------------
(* What the assumption on Setup says of its commands.                      *)
LEMMA SetupFacts ==
  /\ Len(Setup) \in Nat
  /\ \A n \in Steps : AddsRule(n) => Setup[n].rule \in Rules
<1> DEFINE Commands == [rule : Rules \cup {NoRule}, checked : BOOLEAN]
<1>1. Setup \in Seq(Commands)
  BY SetupAssumption
<1>2. Len(Setup) \in Nat /\ \A n \in 1 .. Len(Setup) : Setup[n] \in Commands
  <2> HIDE DEF Commands
  <2> QED BY <1>1
<1> QED BY <1>2 DEF Steps, AddsRule

(***************************************************************************)
(* Types.  One lemma per component.                                        *)
(***************************************************************************)
LEMMA ControllerTypesStep ==
  ASSUME ControllerTypeOK,
         \/ ControllerConnect
         \/ ControllerConnectFailed
         \/ ControllerConnected(Interface)
         \/ \E result \in {"ok", "err"} :
              \/ ControllerUndone(result)
              \/ ControllerDisconnected(result)
              \/ ControllerReturn(result)
         \/ ControllerDisconnect
         \/ ControllerDisable
         \/ UNCHANGED controllerVars
  PROVE  ControllerTypeOK'
<1> USE DEF ControllerTypeOK, ControllerPcs
<1>1. CASE ControllerConnect
  BY <1>1, Policies, Methods, Zenon DEF ControllerConnect, Apply, Command
<1>2. CASE ControllerConnectFailed
  BY <1>2 DEF ControllerConnectFailed
<1>3. CASE ControllerConnected(Interface)
  BY <1>3, Policies, Establishing, InterfaceAssumption
  DEF ControllerConnected, Apply, Command
<1>4. CASE \E result \in {"ok", "err"} :
              \/ ControllerUndone(result)
              \/ ControllerDisconnected(result)
              \/ ControllerReturn(result)
  BY <1>4, Zenon DEF ControllerUndone, ControllerDisconnected, ControllerReturn
<1>5. CASE ControllerDisconnect
  BY <1>5, Policies, Methods DEF ControllerDisconnect, Apply, Command
<1>6. CASE ControllerDisable
  BY <1>6, Policies, Methods DEF ControllerDisable, Apply, Command
<1>7. CASE UNCHANGED controllerVars
  BY <1>7 DEF controllerVars
<1> QED BY <1>1, <1>2, <1>3, <1>4, <1>5, <1>6, <1>7

(* Every step of adapter and backend keeps the types of their state.       *)
LEMMA TunnelTypesStep ==
  ASSUME TunnelTypeOK, stopped' \in BOOLEAN,
         \/ TunnelConnect
         \/ TunnelDisconnect
         \/ TunnelStep
         \/ \E result \in {"ok", "err"} : TunnelReturn(result)
  PROVE  TunnelTypeOK'
<1> USE SetupFacts DEF TunnelTypeOK, TunnelPcs, Steps, kernelVars, Presence
<1>1. CASE TunnelConnect
  BY <1>1 DEF TunnelConnect
<1>2. CASE TunnelDisconnect
  BY <1>2, Zenon DEF TunnelDisconnect
<1>3. CASE \E result \in {"ok", "err"} : TunnelReturn(result)
  BY <1>3 DEF TunnelReturn
<1>4. CASE LinkAdd
  BY <1>4 DEF LinkAdd, Command
<1>5. CASE SetupStep
  <2>1. PICK ok \in BOOLEAN : SetupCommand(nextStep, ok)
    BY <1>5, Zenon DEF SetupStep
  <2>2. kernelRules' \in [Rules -> Presence] /\ configured' \subseteq Steps
    BY <1>5, <2>1, Zenon DEF SetupStep, SetupCommand, Command
  <2>3. nextStep' \in {nextStep, nextStep + 1} /\ nextStep \in Steps
    BY <1>5, Zenon DEF SetupStep
  <2>4. pendingRules' \subseteq Steps
    BY <1>5, <2>3, Zenon DEF SetupStep
  <2>5. UNCHANGED <<connected, activeInterface, activeRules, link, resolved>>
    BY <1>5, <2>1 DEF SetupStep, SetupCommand
  <2>6. tunnelPc' \in {tunnelPc, "rollback_rules"}
    BY <1>5, Zenon DEF SetupStep
  <2> QED BY <2>2, <2>3, <2>4, <2>5, <2>6
<1>6. CASE SetupStopped
  BY <1>6 DEF SetupStopped
<1>7. CASE SetupDone
  BY <1>7 DEF SetupDone
<1>8. CASE RemoveRules
  <2>1. PICK n \in Steps, ok \in BOOLEAN : RemovePolicyRule(n, ok)
    BY <1>8, Zenon DEF RemoveRules
  <2>2. kernelRules' \in [Rules -> Presence]
    BY <2>1 DEF RemovePolicyRule, Command
  <2> QED BY <1>8, <2>1, <2>2, Zenon DEF RemoveRules, RemovePolicyRule
<1>9. CASE RulesRemoved
  BY <1>9 DEF RulesRemoved
<1>10. CASE RollbackLink
  BY <1>10, Zenon DEF RollbackLink, DeleteInterface, Command, RemoveLink
<1>11. CASE DownLink
  BY <1>11, Zenon DEF DownLink, DeleteInterface, Command, RemoveLink
<1> QED BY <1>1, <1>2, <1>3, <1>4, <1>5, <1>6, <1>7, <1>8, <1>9, <1>10, <1>11
        DEF TunnelStep

(* A resolvectl command touches nothing but the settings of the link.      *)
LEMMA ResolverTypesStep ==
  ASSUME TunnelTypeOK, DnsTypeOK,
         DnsStep \/ DnsStopped \/ DnsCleanup \/ DnsRevert
  PROVE  /\ DnsTypeOK'
         /\ UNCHANGED <<link, configured, kernelRules>>
         /\ resolved' \subseteq DnsSettings
<1> USE DEF TunnelTypeOK, DnsTypeOK, DnsPcs, kernelVars, Resolvectl, Command
<1>1. CASE DnsStep
  <2>1. DnsTypeOK'
    BY <1>1, Zenon DEF DnsStep, Following, DnsSettings
  <2>2. PICK ok \in BOOLEAN : Resolvectl(resolved \cup {dnsPc}, ok)
    BY <1>1, Zenon DEF DnsStep
  <2>3. dnsPc \in DnsSettings
    BY <1>1 DEF DnsStep
  <2> QED BY <2>1, <2>2, <2>3, Zenon
<1>2. CASE DnsStopped
  BY <1>2 DEF DnsStopped
<1>3. CASE DnsCleanup
  BY <1>3 DEF DnsCleanup
<1>4. CASE DnsRevert
  BY <1>4, Zenon DEF DnsRevert
<1> QED BY <1>1, <1>2, <1>3, <1>4

(* The same for the DNS backend and the operation in progress.             *)
LEMMA DnsCallTypes ==
  ASSUME DnsTypeOK,
         DnsConfigure \/ \E result \in {"ok", "err"} : DnsReturn(result)
  PROVE  DnsTypeOK'
BY DEF DnsTypeOK, DnsPcs, DnsConfigure, DnsReturn

(* Types are kept by every step under any caller.                          *)
LEMMA TypesStep ==
  ASSUME ConnectionTypeOK, [ApiNext]_connectionVars
  PROVE  ConnectionTypeOK'
<1> USE DEF ConnectionTypeOK, Calls
<1>1. ASSUME UNCHANGED <<adapterVars, link, configured, kernelRules>>,
             resolved' \subseteq DnsSettings, stopped' \in BOOLEAN
      PROVE  TunnelTypeOK'
  BY <1>1 DEF TunnelTypeOK, adapterVars
<1>2. ASSUME UNCHANGED tunnelVars, stopped' \in BOOLEAN
      PROVE  TunnelTypeOK'
  BY <1>2 DEF TunnelTypeOK, tunnelVars, adapterVars, kernelVars
<1>3. ASSUME UNCHANGED dnsVars
      PROVE  DnsTypeOK'
  BY <1>3 DEF DnsTypeOK, dnsVars
<1>4. stopped \in BOOLEAN
  BY DEF TunnelTypeOK
<1>5. CASE ApiCall
  BY <1>1, <1>2, <1>3, <1>4, <1>5,
     ControllerTypesStep, ResolverTypesStep
  DEF ApiCall, Connect, Disconnect, DisableFiltering, ConnectionReturn
<1>6. CASE ConnectFailed \/ ConnectConfiguresDns \/ ConfigureDone
           \/ ConfigureNeedsRevert \/ ConfigureFailed
  BY <1>2, <1>3, <1>4, <1>6, ControllerTypesStep, DnsCallTypes
  DEF ConnectFailed, ConnectConfiguresDns, ConfigureDone, ConfigureNeedsRevert,
      ConfigureFailed
<1>7. CASE RetryRevert \/ RetryFailed \/ RetryDone \/ UndoReturned
  BY <1>1, <1>2, <1>3, <1>4, <1>7, ControllerTypesStep, DnsCallTypes,
     ResolverTypesStep
  DEF RetryRevert, RetryFailed, RetryDone, UndoReturned
<1>8. CASE RevertFailed \/ RevertDone \/ OperationReturned
  BY <1>2, <1>3, <1>4, <1>8, ControllerTypesStep, DnsCallTypes
  DEF RevertFailed, RevertDone, OperationReturned
<1>9. CASE TransportConnect \/ TransportConnectFailed \/ TransportConnected
           \/ TransportDisconnect \/ TransportDisconnected \/ TransportStep
  BY <1>3, <1>4, <1>9, ControllerTypesStep, TunnelTypesStep
  DEF TransportConnect, TransportConnectFailed, TransportConnected,
      TransportDisconnect, TransportDisconnected, TransportStep
<1>10. CASE ResolverStep
  BY <1>1, <1>4, <1>10, ControllerTypesStep, ResolverTypesStep DEF ResolverStep
<1>11. CASE ContextStops
  BY <1>2, <1>3, <1>11, ControllerTypesStep DEF ContextStops
<1>12. CASE LinkLost
  BY <1>3, <1>4, <1>12, ControllerTypesStep
  DEF LinkLost, RemoveLink, TunnelTypeOK, adapterVars, Presence
<1>13. CASE UNCHANGED connectionVars
  BY <1>2, <1>3, <1>4, <1>13, ControllerTypesStep DEF connectionVars
<1> QED BY <1>5, <1>6, <1>7, <1>8, <1>9, <1>10, <1>11, <1>12, <1>13
        DEF ApiNext, ConnectionStep

-----------------------------------------------------------------------------
(***************************************************************************)
(* Core.  Steps that leave the controller and the adapter alone and at     *)
(* most take the link away.                                                *)
(***************************************************************************)
LEMMA KernelAlone ==
  ASSUME Core, UNCHANGED <<controllerVars, adapterVars, kernelRules>>,
         link' \in {link, "absent"}
  PROVE  Core'
<1>1. OwnRules' = OwnRules
  BY DEF OwnRules
<1>2. OwnsNothing => OwnsNothing'
  BY <1>1 DEF OwnsNothing
<1> QED
  BY <1>1, <1>2
  DEF Core, FlagCovers, Calling, Tracked, RulesTracked, controllerVars, adapterVars

(* A call or a return of the controller: the transport is idle.            *)
LEMMA ControllerAlone ==
  ASSUME Inv, UNCHANGED <<adapterVars, link, kernelRules>>,
         \/ ControllerConnect
         \/ ControllerDisconnect
         \/ ControllerDisable
         \/ \E result \in {"ok", "err"} : ControllerReturn(result)
  PROVE  Core'
<1> USE DEF Inv, Core
<1>1. OwnRules' = OwnRules /\ OwnsNothing' = OwnsNothing
  BY DEF OwnRules, OwnsNothing
<1>2. UNCHANGED <<connected, activeRules, pendingRules, tunnelPc, nextStep>>
  BY DEF adapterVars
<1>3. controllerPc \in {"idle", "ok", "err"}
  BY Zenon DEF ControllerConnect, ControllerDisconnect, ControllerDisable, ControllerReturn
<1>4. tunnelPc = "idle"
  BY <1>3 DEF Calling, TransportCalled
<1>5. Calling' /\ Tracked'
  BY <1>1, <1>2, <1>4 DEF Calling, Tracked, RulesTracked
<1>6. FlagCovers'
  <2> USE <1>1, <1>2 DEF FlagCovers
  <2>0. killSwitch \in KillSwitchRecord /\ transportMayBeActive \in BOOLEAN
    BY DEF ConnectionTypeOK, ControllerTypeOK
  <2>1. CASE ControllerConnect
    <3>1. CASE /\ nft' = BlockNonTunnel
               /\ killSwitch' = Enable(killSwitch)
               /\ transportMayBeActive' = TRUE
      BY <2>0, <3>1, Policies, Methods, Zenon
    <3>2. CASE /\ nft' \in {nft, BlockNonTunnel}
               /\ controllerPc' = "err"
               /\ UNCHANGED <<killSwitch, transportMayBeActive>>
      BY <3>2, Policies
    <3> QED BY <2>1, <3>1, <3>2, Zenon DEF ControllerConnect, Apply, Command
  <2>2. CASE ControllerDisconnect
    <3>1. /\ nft' \in {nft, TunnelLost(killSwitch).policy}
          /\ killSwitch' \in {killSwitch, TunnelLost(killSwitch)}
          /\ controllerPc' \in {"disconnect", "err"}
          /\ UNCHANGED transportMayBeActive
      BY <2>2, Zenon DEF ControllerDisconnect, Apply, Command
    <3> QED BY <2>0, <3>1, Policies, Methods
  <2>3. CASE ControllerDisable
    <3>1. \/ UNCHANGED <<killSwitch, nft>>
          \/ ~transportMayBeActive
      BY <2>3, Zenon DEF ControllerDisable, DisableRefused
    <3>2. controllerPc' \in {"ok", "err"} /\ UNCHANGED transportMayBeActive
      BY <2>3, Zenon DEF ControllerDisable
    <3> QED BY <3>1, <3>2
  <2>4. CASE \E result \in {"ok", "err"} : ControllerReturn(result)
    BY <2>4 DEF ControllerReturn
  <2> QED BY <2>1, <2>2, <2>3, <2>4
<1> QED BY <1>5, <1>6

(* The controller takes the result of the transport.                       *)
LEMMA TransportReturns ==
  ASSUME Inv, NEW result \in {"ok", "err"}, TunnelReturn(result),
         \/ ControllerConnectFailed
         \/ ControllerConnected(Interface)
         \/ ControllerUndone(result)
         \/ ControllerDisconnected(result)
  PROVE  Core'
<1> USE DEF Inv, Core
<1>1. /\ UNCHANGED <<connected, activeRules, pendingRules, nextStep, link, kernelRules>>
      /\ tunnelPc = result
      /\ tunnelPc' = "idle"
  BY DEF TunnelReturn, kernelVars
<1>2. OwnRules' = OwnRules /\ OwnsNothing' = OwnsNothing
  BY <1>1 DEF OwnRules, OwnsNothing
<1>3. Calling' /\ Tracked'
  BY <1>1, <1>2 DEF Calling, Tracked, RulesTracked
<1>4. FlagCovers'
  <2> USE <1>1, <1>2 DEF FlagCovers
  <2>0. killSwitch \in KillSwitchRecord /\ transportMayBeActive \in BOOLEAN
    BY DEF ConnectionTypeOK, ControllerTypeOK
  <2>1. CASE ControllerConnectFailed
    BY <2>1 DEF ControllerConnectFailed
  <2>2. CASE ControllerConnected(Interface)
    <3>1. /\ nft' \in {nft, TunnelOnly(Interface)}
          /\ killSwitch' \in {killSwitch, TunnelEstablished(killSwitch, Interface)}
          /\ controllerPc = "connect"
          /\ UNCHANGED transportMayBeActive
      BY <2>2, Zenon DEF ControllerConnected, Apply, Command
    <3> QED BY <2>0, <3>1, Policies, Establishing, InterfaceAssumption
  <2>3. CASE ControllerUndone(result) \/ ControllerDisconnected(result)
    <3>1. /\ controllerPc \in {"undo", "disconnect"}
          /\ controllerPc' \in {"ok", "err"}
          /\ UNCHANGED <<killSwitch, nft>>
          /\ transportMayBeActive' = (transportMayBeActive /\ result # "ok")
      BY <2>3 DEF ControllerUndone, ControllerDisconnected
    <3>2. CASE result = "ok"
      BY <3>1, <3>2, Zenon DEF Tracked
    <3>3. CASE result # "ok"
      BY <2>0, <3>1, <3>3
    <3> QED BY <3>2, <3>3, Zenon
  <2> QED BY <2>1, <2>2, <2>3, Zenon
<1> QED BY <1>3, <1>4

(* What the commands of bring_up and bring_down do to the rules.           *)
LEMMA RuleCommands ==
  ASSUME TunnelTypeOK, NEW n \in Steps, NEW ok \in BOOLEAN
  PROVE  /\ SetupCommand(n, ok) /\ AddsRule(n)
              => OwnRules' \subseteq OwnRules \cup {Setup[n].rule}
         /\ SetupCommand(n, ok) /\ ~AddsRule(n) => OwnRules' = OwnRules
         /\ RemovePolicyRule(n, ok) => OwnRules' \subseteq OwnRules
         /\ RemovePolicyRule(n, TRUE) => OwnRules' \subseteq OwnRules \ {Setup[n].rule}
BY Zenon DEF TunnelTypeOK, SetupCommand, RemovePolicyRule, Command, OwnRules

(* The transport runs: its flag is up, so only Calling and Tracked matter. *)
LEMMA TransportAlone ==
  ASSUME Inv, UNCHANGED controllerVars,
         \/ TunnelConnect /\ controllerPc = "connect"
         \/ TunnelDisconnect /\ controllerPc \in {"undo", "disconnect"}
         \/ TunnelStep
  PROVE  Core'
<1> USE DEF Inv, Core
<1>0. /\ UNCHANGED <<killSwitch, transportMayBeActive, controllerPc, nft>>
      /\ TunnelTypeOK
  BY DEF controllerVars, ConnectionTypeOK
<1>1. CASE TunnelConnect /\ controllerPc = "connect"
  <2>1. /\ UNCHANGED <<connected, activeRules, link, kernelRules>>
        /\ tunnelPc = "idle"
        /\ tunnelPc' \in {"err", "link_add"}
        /\ tunnelPc' = "link_add" => ~connected
    BY <1>1 DEF TunnelConnect, kernelVars
  <2>2. OwnRules' = OwnRules /\ OwnsNothing' = OwnsNothing
    BY <2>1 DEF OwnRules, OwnsNothing
  <2> QED BY <1>0, <1>1, <2>1, <2>2
          DEF FlagCovers, Calling, Tracked, RulesTracked, TransportCalled
<1>2. CASE TunnelDisconnect /\ controllerPc \in {"undo", "disconnect"}
  <2>1. /\ UNCHANGED <<connected, link, kernelRules>>
        /\ tunnelPc = "idle"
        /\ \/ tunnelPc' = "err" /\ UNCHANGED activeRules
           \/ tunnelPc' = "down_rules" /\ connected /\ pendingRules' = activeRules
    BY <1>2 DEF TunnelDisconnect, kernelVars
  <2>2. OwnRules' = OwnRules /\ OwnsNothing' = OwnsNothing
    BY <2>1 DEF OwnRules, OwnsNothing
  <2> QED BY <1>0, <1>2, <2>1, <2>2
          DEF FlagCovers, Calling, Tracked, RulesTracked, TransportCalled
<1>3. CASE LinkAdd
  <2>1. /\ UNCHANGED <<connected, kernelRules>>
        /\ tunnelPc = "link_add"
        /\ tunnelPc' \in {"setup", "err"}
        /\ nextStep' = 1
    BY <1>3 DEF LinkAdd
  <2>2. OwnRules' = OwnRules
    BY <2>1 DEF OwnRules
  <2>3. controllerPc = "connect" /\ ~connected /\ transportMayBeActive
    BY <2>1 DEF Calling, FlagCovers
  <2> QED BY <1>0, <2>1, <2>2, <2>3
          DEF FlagCovers, Calling, Tracked, RulesTracked, TransportCalled, Steps
<1>4. CASE SetupStep
  <2>1. /\ tunnelPc = "setup"
        /\ tunnelPc' \in {"setup", "rollback_rules"}
        /\ UNCHANGED connected
        /\ nextStep \in Steps
    BY <1>4, Zenon DEF SetupStep
  <2>2. controllerPc = "connect" /\ ~connected /\ transportMayBeActive
    BY <2>1 DEF Calling, FlagCovers
  <2>3. OwnRules' \subseteq PlannedRules
    <3>1. PICK ok \in BOOLEAN : SetupCommand(nextStep, ok)
      BY <1>4, Zenon DEF SetupStep
    <3> QED BY <1>0, <2>1, <3>1, RuleCommands, Zenon DEF Tracked, PlannedRules
  <2>4. ASSUME tunnelPc' = "setup", NEW n \in Steps, n < nextStep', AddsRule(n)
        PROVE  n \in pendingRules'
    <3>1. nextStep' = nextStep + 1
          /\ pendingRules' = IF AddsRule(nextStep)
                             THEN pendingRules \cup {nextStep} ELSE pendingRules
      BY <1>4, <2>1, <2>4 DEF SetupStep
    <3>2. n < nextStep \/ n = nextStep
      BY <2>1, <2>4, <3>1, SetupFacts DEF Steps
    <3> QED BY <2>1, <2>4, <3>1, <3>2 DEF Tracked
  <2> QED BY <1>0, <2>1, <2>2, <2>3, <2>4, Zenon
          DEF FlagCovers, Calling, Tracked, RulesTracked, TransportCalled
<1>5. CASE SetupStopped
  <2>1. /\ UNCHANGED <<connected, link, kernelRules>>
        /\ tunnelPc = "setup"
        /\ tunnelPc' = "rollback_rules"
    BY <1>5 DEF SetupStopped, kernelVars
  <2>2. OwnRules' = OwnRules /\ OwnsNothing' = OwnsNothing
    BY <2>1 DEF OwnRules, OwnsNothing
  <2> QED BY <1>0, <2>1, <2>2
          DEF FlagCovers, Calling, Tracked, RulesTracked, TransportCalled
<1>6. CASE SetupDone
  <2>1. /\ UNCHANGED <<link, kernelRules>>
        /\ tunnelPc = "setup"
        /\ tunnelPc' = "ok"
        /\ activeRules' = pendingRules
        /\ nextStep \notin Steps
    BY <1>6 DEF SetupDone, kernelVars
  <2>2. OwnRules' = OwnRules
    BY <2>1 DEF OwnRules
  <2>3. controllerPc = "connect" /\ transportMayBeActive
    BY <2>1 DEF Calling, FlagCovers
  <2>4. \A n \in Steps : AddsRule(n) => n \in pendingRules
    <3>1. nextStep = Len(Setup) + 1
      BY <1>0, <2>1, SetupFacts DEF Steps, TunnelTypeOK
    <3>2. \A n \in Steps : n < nextStep
      BY <3>1, SetupFacts DEF Steps
    <3> QED BY <2>1, <3>2 DEF Tracked
  <2>5. OwnRules' \subseteq RulesOf(activeRules')
    BY <2>1, <2>2, <2>4, Zenon DEF Tracked, PlannedRules, RulesOf
  <2> QED BY <1>0, <2>1, <2>2, <2>3, <2>5, Zenon
          DEF FlagCovers, Calling, Tracked, RulesTracked, RulesOf, TransportCalled
<1>7. CASE RemoveRules
  <2>1. /\ UNCHANGED connected
        /\ tunnelPc \in {"rollback_rules", "down_rules"}
    BY <1>7 DEF RemoveRules
  <2>2. PICK n \in Steps :
          /\ n \in pendingRules
          /\ \/ /\ RemovePolicyRule(n, TRUE)
                /\ pendingRules' = pendingRules \ {n}
                /\ UNCHANGED tunnelPc
             \/ /\ RemovePolicyRule(n, FALSE)
                /\ tunnelPc = "rollback_rules"
                /\ tunnelPc' = "rollback_link"
             \/ /\ RemovePolicyRule(n, FALSE)
                /\ tunnelPc = "down_rules"
                /\ tunnelPc' = "err"
                /\ activeRules' = pendingRules
    BY <1>7, Zenon DEF RemoveRules, Newest
  <2>3. OwnRules' \subseteq OwnRules
    BY <1>0, <2>2, RuleCommands, Zenon
  <2>4. transportMayBeActive
    BY <2>1 DEF Calling, FlagCovers
  <2>5. tunnelPc = "down_rules" /\ tunnelPc' = "down_rules"
          => OwnRules' \subseteq RulesOf(pendingRules')
    <3> SUFFICES ASSUME tunnelPc = "down_rules", tunnelPc' = "down_rules"
                 PROVE  OwnRules' \subseteq RulesOf(pendingRules')
      OBVIOUS
    <3>1. RemovePolicyRule(n, TRUE) /\ pendingRules' = pendingRules \ {n}
      BY <2>2, Zenon
    <3>2. OwnRules' \subseteq OwnRules \ {Setup[n].rule}
      BY <1>0, <3>1, RuleCommands, Zenon
    <3> QED BY <3>1, <3>2 DEF Tracked, RulesOf
  <2>6. tunnelPc' = "err" => OwnRules' \subseteq RulesOf(activeRules')
    BY <2>1, <2>2, <2>3, Zenon DEF Tracked, RulesOf
  <2> QED BY <1>0, <2>1, <2>2, <2>3, <2>4, <2>5, <2>6, Zenon
          DEF FlagCovers, Calling, Tracked, RulesTracked, RulesOf, TransportCalled
<1>8. CASE RulesRemoved
  <2>1. /\ UNCHANGED <<connected, link, kernelRules>>
        /\ pendingRules = {}
        /\ \/ tunnelPc = "rollback_rules" /\ tunnelPc' = "rollback_link"
           \/ tunnelPc = "down_rules" /\ tunnelPc' = "down_link"
    BY <1>8 DEF RulesRemoved, kernelVars
  <2>2. OwnRules' = OwnRules /\ OwnsNothing' = OwnsNothing
    BY <2>1 DEF OwnRules, OwnsNothing
  <2>3. tunnelPc = "down_rules" => OwnRules = {}
    BY <2>1 DEF Tracked, RulesOf
  <2> QED BY <1>0, <2>1, <2>2, <2>3, Zenon
          DEF FlagCovers, Calling, Tracked, RulesTracked, TransportCalled
<1>9. CASE RollbackLink
  <2>1. /\ UNCHANGED <<connected, kernelRules>>
        /\ tunnelPc = "rollback_link"
        /\ tunnelPc' = "err"
    BY <1>9 DEF RollbackLink, DeleteInterface, RemoveLink, Command, kernelVars
  <2>2. OwnRules' = OwnRules
    BY <2>1 DEF OwnRules
  <2>3. controllerPc = "connect" /\ ~connected /\ transportMayBeActive
    BY <2>1 DEF Calling, FlagCovers
  <2> QED BY <1>0, <2>1, <2>2, <2>3, Zenon
          DEF FlagCovers, Calling, Tracked, RulesTracked, TransportCalled
<1>10. CASE DownLink
  <2>1. /\ UNCHANGED kernelRules
        /\ tunnelPc = "down_link"
        /\ \/ tunnelPc' = "ok" /\ link' = "absent" /\ connected' = FALSE
           \/ tunnelPc' = "err" /\ UNCHANGED connected
    BY <1>10 DEF DownLink, DeleteInterface, RemoveLink, Command, kernelVars
  <2>2. OwnRules' = OwnRules /\ OwnRules = {}
    BY <2>1 DEF OwnRules, Tracked
  <2>3. controllerPc \in {"undo", "disconnect"} /\ transportMayBeActive
    BY <2>1 DEF Calling, FlagCovers
  <2>4. tunnelPc' = "ok" => OwnsNothing' /\ ~connected'
    BY <2>1, <2>2 DEF OwnsNothing
  <2> QED BY <1>0, <2>1, <2>2, <2>3, <2>4, Zenon
          DEF FlagCovers, Calling, Tracked, RulesTracked, TransportCalled
<1> QED BY <1>1, <1>2, <1>3, <1>4, <1>5, <1>6, <1>7, <1>8, <1>9, <1>10
        DEF TunnelStep

-----------------------------------------------------------------------------
(* The invariant is inductive under any caller.                            *)
LEMMA InvStep == Inv /\ [ApiNext]_connectionVars => Inv'
<1> SUFFICES ASSUME Inv, [ApiNext]_connectionVars PROVE Core'
  BY TypesStep DEF Inv
<1>0. Core /\ TunnelTypeOK /\ DnsTypeOK
  BY DEF Inv, ConnectionTypeOK
<1>1. ASSUME UNCHANGED <<controllerVars, tunnelVars>> PROVE Core'
  BY <1>0, <1>1, KernelAlone DEF tunnelVars, kernelVars
<1>2. ASSUME UNCHANGED tunnelVars PROVE UNCHANGED <<adapterVars, link, kernelRules>>
  BY <1>2 DEF tunnelVars, kernelVars
<1>3. ASSUME UNCHANGED <<controllerVars, adapterVars>>,
             DnsStep \/ DnsStopped \/ DnsCleanup \/ DnsRevert
      PROVE  Core'
  BY <1>0, <1>3, KernelAlone, ResolverTypesStep
<1>4. CASE ApiCall
  BY <1>1, <1>2, <1>3, <1>4, ControllerAlone
  DEF ApiCall, Connect, Disconnect, DisableFiltering, ConnectionReturn
<1>5. CASE ConnectFailed \/ ConnectConfiguresDns \/ ConfigureDone
           \/ ConfigureNeedsRevert \/ ConfigureFailed
  BY <1>1, <1>2, <1>5, ControllerAlone
  DEF ConnectFailed, ConnectConfiguresDns, ConfigureDone, ConfigureNeedsRevert,
      ConfigureFailed
<1>6. CASE RetryRevert \/ RetryFailed \/ RetryDone \/ UndoReturned
  BY <1>1, <1>2, <1>3, <1>6, ControllerAlone
  DEF RetryRevert, RetryFailed, RetryDone, UndoReturned
<1>7. CASE RevertFailed \/ RevertDone \/ OperationReturned
  BY <1>1, <1>2, <1>7, ControllerAlone DEF RevertFailed, RevertDone, OperationReturned
<1>8. CASE TransportConnect \/ TransportDisconnect \/ TransportStep
  BY <1>8, TransportAlone DEF TransportConnect, TransportDisconnect, TransportStep
<1>9. CASE TransportConnectFailed \/ TransportConnected \/ TransportDisconnected
  BY <1>9, TransportReturns
  DEF TransportConnectFailed, TransportConnected, TransportDisconnected
<1>10. CASE ResolverStep
  BY <1>3, <1>10 DEF ResolverStep
<1>11. CASE ContextStops
  BY <1>1, <1>11 DEF ContextStops
<1>12. CASE LinkLost
  BY <1>0, <1>12, KernelAlone DEF LinkLost, RemoveLink
<1>13. CASE UNCHANGED connectionVars
  BY <1>1, <1>13 DEF connectionVars
<1> QED BY <1>4, <1>5, <1>6, <1>7, <1>8, <1>9, <1>10, <1>11, <1>12, <1>13
        DEF ApiNext, ConnectionStep

(* A connection that was just built, whatever earlier processes left.      *)
JustBuilt ==
  /\ ControllerTypeOK
  /\ ~transportMayBeActive
  /\ controllerPc = "idle"
  /\ ConnectionFresh
  /\ stopped \in BOOLEAN
  /\ link \in {"absent", "stale"}
  /\ configured \subseteq Steps
  /\ kernelRules \in [Rules -> {"absent", "stale"}]
  /\ resolved \subseteq DnsSettings

(* It satisfies the invariant.                                             *)
LEMMA FreshInv == JustBuilt => Inv
<1> SUFFICES ASSUME JustBuilt PROVE Inv
  OBVIOUS
<1> USE DEF JustBuilt
<1>1. OwnRules = {} /\ OwnsNothing
  BY DEF OwnRules, OwnsNothing
<1>2. TunnelTypeOK
  <2>1. kernelRules \in [Rules -> Presence]
    BY DEF Presence
  <2>2. nextStep \in 1 .. Len(Setup) + 1
    BY SetupFacts DEF ConnectionFresh, AdapterFresh
  <2>3. /\ connected \in BOOLEAN /\ activeInterface \in BOOLEAN
        /\ activeRules \subseteq Steps /\ pendingRules \subseteq Steps
        /\ tunnelPc \in TunnelPcs
    BY Zenon DEF TunnelPcs, ConnectionFresh, AdapterFresh
  <2>4. link \in Presence
    BY DEF Presence
  <2> QED BY <2>1, <2>2, <2>3, <2>4, Zenon DEF TunnelTypeOK
<1>3. ConnectionTypeOK
  BY <1>2, Zenon
  DEF ConnectionTypeOK, DnsTypeOK, DnsPcs, Calls, ConnectionFresh, DnsFresh
<1>4. Core
  BY <1>1
  DEF Core, FlagCovers, Calling, Tracked, RulesTracked, ConnectionFresh, AdapterFresh
<1> QED BY <1>3, <1>4 DEF Inv

(* with_runners builds such a connection.                                  *)
LEMMA InitJustBuilt == ApiInit => JustBuilt
<1> SUFFICES ASSUME ApiInit PROVE JustBuilt
  OBVIOUS
<1>1. ControllerTypeOK
  <2>1. PICK alwaysOn \in BOOLEAN : killSwitch = Enable(New(alwaysOn))
    BY DEF ApiInit
  <2>2. killSwitch \in KillSwitchRecord /\ killSwitch.policy \in TrafficPolicy
    BY <2>1, NewKillSwitch, Methods, Zenon
  <2> QED BY <2>2, Zenon DEF ApiInit, ControllerTypeOK, ControllerPcs
<1>2. /\ ~transportMayBeActive /\ controllerPc = "idle"
      /\ ConnectionFresh /\ stopped \in BOOLEAN
      /\ link \in {"absent", "stale"} /\ configured \subseteq Steps
      /\ kernelRules \in [Rules -> {"absent", "stale"}]
      /\ resolved \subseteq DnsSettings
  BY Zenon DEF ApiInit
<1> QED BY <1>1, <1>2 DEF JustBuilt

(* The invariant holds through every sequence of operations.               *)
LEMMA Invariance == ApiSpec => []Inv
<1>1. ApiInit => Inv
  BY InitJustBuilt, FreshInv
<1>2. Inv /\ [ApiNext]_connectionVars => Inv'
  BY InvStep
<1> QED BY <1>1, <1>2, PTL DEF ApiSpec

-----------------------------------------------------------------------------
(* The state of the connection keeps its type.                             *)
THEOREM ConnectionTypes == ApiSpec => []ConnectionTypeOK
<1>1. Inv => ConnectionTypeOK
  BY DEF Inv
<1> QED BY <1>1, Invariance, PTL

(* ConnectionController::disable never lifts filtering while an interface  *)
(* or a rule of the process is left, for every profile and every failure.  *)
THEOREM ReleaseIsSafe == ApiSpec => []ReleasedOnlyWhenClean
<1>1. Inv => ReleasedOnlyWhenClean
  BY DEF Inv, Core, FlagCovers, ReleasedOnlyWhenClean
<1> QED BY <1>1, Invariance, PTL

(* transport_may_be_active covers whatever setup or teardown left behind.  *)
THEOREM FlagIsSafe == ApiSpec => []FlagCoversResources
<1>1. Inv => FlagCoversResources
  BY DEF Inv, Core, FlagCovers, FlagCoversResources
<1> QED BY <1>1, Invariance, PTL

(* A connected adapter knows every policy rule it has to remove, through   *)
(* any number of failed teardowns.                                         *)
THEOREM NoRuleForgotten == ApiSpec => []RulesTracked
<1>1. Inv => RulesTracked
  BY DEF Inv, Core, Tracked
<1> QED BY <1>1, Invariance, PTL

-----------------------------------------------------------------------------
(* The controller calls of a step, if any, leave the tunnel alone: every   *)
(* step either keeps the policy or keeps what the process owns, and in the *)
(* second case the policy changes only in the three allowed ways.          *)
LEMMA PolicySteps ==
  ASSUME Inv, [ApiNext]_connectionVars
  PROVE  \/ nft' = nft
         \/ /\ OwnsNothing' = OwnsNothing
            /\ \/ nft' = BlockNonTunnel
               \/ nft' = Disabled /\ ~transportMayBeActive
               \/ nft' = TunnelOnly(Interface) /\ transportMayBeActive
<1> DEFINE Changes == \/ nft' = nft
                      \/ nft' = BlockNonTunnel
                      \/ nft' = Disabled /\ ~transportMayBeActive
                      \/ nft' = TunnelOnly(Interface) /\ transportMayBeActive
<1>0. ASSUME UNCHANGED tunnelVars PROVE OwnsNothing' = OwnsNothing
  BY <1>0 DEF tunnelVars, kernelVars, OwnsNothing, OwnRules
<1>1. ASSUME UNCHANGED controllerVars PROVE nft' = nft
  BY <1>1 DEF controllerVars
<1>2. ASSUME ControllerConnect PROVE Changes
  BY <1>2 DEF ControllerConnect, Apply, Command
<1>3. ASSUME ControllerDisconnect PROVE Changes
  <2>1. nft' \in {nft, TunnelLost(killSwitch).policy}
    BY <1>3 DEF ControllerDisconnect, Apply, Command
  <2>2. killSwitch \in KillSwitchRecord
    BY DEF Inv, ConnectionTypeOK, ControllerTypeOK
  <2>4. \/ TunnelLost(killSwitch).policy = BlockNonTunnel
        \/ /\ TunnelLost(killSwitch).policy = Disabled
           /\ killSwitch.policy = Disabled
    BY <2>2, Methods, Zenon
  <2>3. killSwitch.policy = Disabled => ~transportMayBeActive
    BY DEF Inv, Core, FlagCovers
  <2> QED BY <2>1, <2>3, <2>4, Zenon
<1>4. ASSUME ControllerDisable PROVE Changes
  BY <1>4, Zenon DEF ControllerDisable, DisableRefused, Apply, Command
<1>5. ASSUME NEW result \in {"ok", "err"}, ControllerReturn(result) PROVE nft' = nft
  BY <1>5 DEF ControllerReturn
<1>6. ASSUME ControllerConnected(Interface) PROVE Changes
  <2>1. nft' \in {nft, TunnelOnly(Interface)} /\ controllerPc = "connect"
    BY <1>6 DEF ControllerConnected, Apply, Command
  <2> QED BY <2>1 DEF Inv, Core, FlagCovers
<1>7. ASSUME ControllerConnectFailed
             \/ \E result \in {"ok", "err"} :
                  ControllerUndone(result) \/ ControllerDisconnected(result)
      PROVE  nft' = nft
  BY <1>7 DEF ControllerConnectFailed, ControllerUndone, ControllerDisconnected
<1>8. ASSUME NEW result, TunnelReturn(result) PROVE OwnsNothing' = OwnsNothing
  BY <1>8 DEF TunnelReturn, kernelVars, OwnsNothing, OwnRules
<1> HIDE DEF Changes
<1>9. nft' = nft \/ (OwnsNothing' = OwnsNothing /\ Changes)
  <2>1. CASE ApiCall
    BY <1>0, <1>1, <1>2, <1>4, <2>1
    DEF ApiCall, Connect, Disconnect, DisableFiltering, ConnectionReturn
  <2>2. CASE ConnectFailed \/ ConnectConfiguresDns \/ ConfigureDone
             \/ ConfigureNeedsRevert \/ ConfigureFailed
    BY <1>0, <1>1, <1>3, <1>5, <2>2
    DEF ConnectFailed, ConnectConfiguresDns, ConfigureDone, ConfigureNeedsRevert,
        ConfigureFailed
  <2>3. CASE RetryRevert \/ RetryFailed \/ RetryDone \/ UndoReturned
    BY <1>0, <1>1, <1>3, <1>5, <2>3
    DEF RetryRevert, RetryFailed, RetryDone, UndoReturned
  <2>4. CASE RevertFailed \/ RevertDone \/ OperationReturned
    BY <1>0, <1>1, <1>3, <1>5, <2>4 DEF RevertFailed, RevertDone, OperationReturned
  <2>5. CASE TransportConnect \/ TransportDisconnect \/ TransportStep
             \/ ResolverStep \/ ContextStops \/ LinkLost
    BY <1>1, <2>5 DEF TransportConnect, TransportDisconnect, TransportStep,
       ResolverStep, ContextStops, LinkLost
  <2>6. CASE TransportConnectFailed \/ TransportConnected \/ TransportDisconnected
    BY <1>6, <1>7, <1>8, <2>6
    DEF TransportConnectFailed, TransportConnected, TransportDisconnected
  <2>7. CASE UNCHANGED connectionVars
    BY <1>1, <2>7 DEF connectionVars
  <2> QED BY <2>1, <2>2, <2>3, <2>4, <2>5, <2>6, <2>7 DEF ApiNext, ConnectionStep
<1> QED BY <1>9 DEF Changes

(* Every step is a step of the promise or invisible to it.                 *)
LEMMA PromiseStep ==
  ASSUME Inv, Inv', [ApiNext]_connectionVars
  PROVE  [Promise!FailSecureNext]_<<nft.mode, ~OwnsNothing>>
<1> USE DEF Promise!FailSecureNext
<1>0. /\ nft.mode = "Disabled" => nft = Disabled /\ OwnsNothing
      /\ transportMayBeActive => nft.mode # "Disabled"
      /\ ~transportMayBeActive => OwnsNothing
  BY Policies
  DEF Inv, Core, FlagCovers, ConnectionTypeOK, ControllerTypeOK
<1>1. nft' = Disabled => OwnsNothing'
  BY DEF Inv, Core, FlagCovers
<1>2. CASE nft' = nft
  <2>1. CASE nft.mode = "Disabled"
    <3>1. OwnsNothing' = OwnsNothing
      BY <1>0, <1>1, <1>2, <2>1
    <3> QED BY <1>2, <3>1
  <2>2. CASE nft.mode # "Disabled"
    <3>1. Promise!Work
      BY <1>2, <2>2 DEF Promise!Work
    <3> QED BY <3>1
  <2> QED BY <2>1, <2>2
<1>3. CASE OwnsNothing' = OwnsNothing /\ nft' = BlockNonTunnel
  <2>1. Promise!Arm
    BY <1>3, Policies DEF Promise!Arm
  <2> QED BY <2>1
<1>4. CASE OwnsNothing' = OwnsNothing /\ nft' = Disabled /\ ~transportMayBeActive
  <2>1. Promise!Release
    BY <1>0, <1>4, Policies DEF Promise!Release
  <2> QED BY <2>1
<1>5. CASE /\ OwnsNothing' = OwnsNothing
           /\ nft' = TunnelOnly(Interface) /\ transportMayBeActive
  <2>1. Promise!Admit
    BY <1>0, <1>5, Policies DEF Promise!Admit
  <2> QED BY <2>1
<1> QED BY <1>2, <1>3, <1>4, <1>5, PolicySteps, Zenon

(* The Linux connection implements the fail-secure promise for every       *)
(* profile, caller and pattern of command failures.                        *)
THEOREM ConnectionIsFailSecure == ApiSpec => ImplementsFailSecure
<1>1. ApiInit => Promise!FailSecureInit
  <2> SUFFICES ASSUME ApiInit PROVE Promise!FailSecureInit
    OBVIOUS
  <2>1. nft = BlockNonTunnel
    BY NewKillSwitch, Methods DEF ApiInit
  <2>2. OwnsNothing
    BY DEF ApiInit, OwnsNothing, OwnRules
  <2> QED BY <2>1, <2>2, Policies DEF Promise!FailSecureInit
<1>2. Inv /\ Inv' /\ [ApiNext]_connectionVars
        => [Promise!FailSecureNext]_<<nft.mode, ~OwnsNothing>>
  BY PromiseStep
<1> QED BY <1>1, <1>2, Invariance, PTL
       DEF ApiSpec, ImplementsFailSecure, Promise!FailSecureSpec

-----------------------------------------------------------------------------
(***************************************************************************)
(* The order of controller, transport and DNS inside an operation.  DNS    *)
(* runs while the controller is idle; a teardown starts only when DNS is   *)
(* not owned, and a tunnel that came up was not there before.              *)
(***************************************************************************)
CallOrder ==
  /\ controllerPc # "idle" => call \in {"connect", "undo", "disconnect", "disable"}
  /\ controllerPc \in {"connect", "undo"} => call = "connect"
  /\ controllerPc = "disconnect" => call \in {"undo", "disconnect"}
  /\ dnsPc # "idle" => controllerPc = "idle" /\ call \in {"configure", "retry", "revert"}
  /\ dnsPc \in DnsSettings \cup {"cleanup"} => call = "configure"

DnsOrder ==
  /\ dnsActive \/ call \in {"configure", "retry"} => connected
  /\ call = "connect" /\ controllerPc = "ok" => connected
  /\ call = "disconnect" \/ controllerPc \in {"undo", "disconnect"} => ~dnsActive
  /\ call \in {"retry", "revert"} /\ dnsPc = "ok" => ~dnsActive
  /\ controllerPc = "connect" /\ tunnelPc = "ok" => connected /\ ~dnsActive

(* The policy while a call is outstanding, and what its success means.     *)
PolicyOrder ==
  /\ controllerPc = "connect" => nft = BlockNonTunnel
  /\ controllerPc = "undo" /\ ~LateFailure => nft = BlockNonTunnel
  /\ controllerPc = "disconnect" => nft = BlockNonTunnel \/ ~transportMayBeActive
  /\ call = "configure" \/ (call = "connect" /\ controllerPc = "ok")
       => nft = TunnelOnly(Interface)
  /\ call = "disconnect" /\ controllerPc = "ok" => ~transportMayBeActive
  /\ call = "disable" /\ controllerPc = "ok" => nft = Disabled /\ ~transportMayBeActive

Order == CallOrder /\ DnsOrder /\ PolicyOrder

(* The operations of the caller and the calls of the controller.           *)
LEMMA OrderOfCalls ==
  ASSUME Inv, Order,
         \/ ApiCall \/ ConnectFailed \/ ConnectConfiguresDns
         \/ ConfigureDone \/ ConfigureNeedsRevert \/ ConfigureFailed
         \/ RetryRevert \/ RetryFailed \/ RetryDone \/ UndoReturned
         \/ RevertFailed \/ RevertDone \/ OperationReturned
  PROVE  Order'
<1>0. tunnelPc # "idle" => controllerPc \in TransportCalled
  BY DEF Inv, Core, Calling
<1>1. ASSUME ControllerDisconnect
      PROVE  /\ controllerPc = "idle" /\ UNCHANGED transportMayBeActive
             /\ \/ controllerPc' = "err"
                \/ /\ controllerPc' = "disconnect"
                   /\ nft' = BlockNonTunnel \/ ~transportMayBeActive
  <2>1. killSwitch \in KillSwitchRecord
    BY DEF Inv, ConnectionTypeOK, ControllerTypeOK
  <2>2. transportMayBeActive => TunnelLost(killSwitch).policy = BlockNonTunnel
    BY <2>1, Methods DEF Inv, Core, FlagCovers
  <2> QED BY <1>1, <2>2 DEF ControllerDisconnect, Apply, Command, Inv, ConnectionTypeOK,
              ControllerTypeOK
<1> USE DEF Order, CallOrder, DnsOrder, PolicyOrder, TransportCalled, DnsSettings
<1>2. CASE ApiCall
  <2>1. ASSUME NEW given \in BOOLEAN, Connect(given) PROVE Order'
    BY <1>0, <2>1 DEF Connect, ControllerConnect, Apply, Command, tunnelVars, adapterVars,
       dnsVars
  <2>2. CASE Disconnect
    <3>1. /\ call = "idle" /\ call' = "revert" /\ controllerPc = "idle"
          /\ UNCHANGED <<controllerPc, nft, transportMayBeActive, connected, tunnelPc>>
      BY <2>2 DEF Disconnect, controllerVars, adapterVars
    <3>2. \/ dnsPc' = "err" /\ UNCHANGED dnsActive
          \/ dnsPc' = "ok" /\ dnsActive' = FALSE
      BY <2>2, SMT DEF Disconnect, DnsRevert, Resolvectl, Command
    <3> QED BY <1>0, <3>1, <3>2
  <2>3. CASE DisableFiltering
    BY <1>0, <2>3 DEF DisableFiltering, ControllerDisable, DisableRefused, Apply, Command,
       tunnelVars, adapterVars, dnsVars
  <2>4. ASSUME NEW result \in {"ok", "err"}, ConnectionReturn(result) PROVE Order'
    BY <1>0, <2>4 DEF ConnectionReturn, controllerVars, tunnelVars, adapterVars, dnsVars
  <2> QED BY <1>2, <2>1, <2>2, <2>3, <2>4, Zenon DEF ApiCall
<1> USE DEF tunnelVars, adapterVars, dnsVars, ControllerReturn, DnsReturn
<1>3. CASE ConnectFailed
  BY <1>0, <1>3 DEF ConnectFailed
<1>4. CASE ConnectConfiguresDns
  BY <1>0, <1>4 DEF ConnectConfiguresDns, DnsConfigure
<1>5. CASE ConfigureDone \/ ConfigureNeedsRevert
  BY <1>0, <1>5 DEF ConfigureDone, ConfigureNeedsRevert, controllerVars
<1>6. CASE ConfigureFailed
  BY <1>0, <1>1, <1>6 DEF ConfigureFailed
<1>7. CASE RetryRevert
  <2>1. /\ call = "retry" /\ controllerPc = "idle"
        /\ UNCHANGED <<call, controllerPc, nft, transportMayBeActive, connected, tunnelPc>>
    BY <1>7 DEF RetryRevert, controllerVars
  <2>2. \/ dnsPc' = "err" /\ UNCHANGED dnsActive
        \/ dnsPc' = "ok" /\ dnsActive' = FALSE
    BY <1>7 DEF RetryRevert, DnsRevert, Resolvectl, Command
  <2> QED BY <1>0, <2>1, <2>2
<1>8. CASE RetryFailed \/ RevertFailed
  BY <1>0, <1>8 DEF RetryFailed, RevertFailed, controllerVars
<1>9. CASE RetryDone
  BY <1>0, <1>1, <1>9 DEF RetryDone
<1>10. CASE RevertDone
  BY <1>0, <1>1, <1>10 DEF RevertDone
<1>11. CASE UndoReturned \/ OperationReturned
  BY <1>0, <1>11 DEF UndoReturned, OperationReturned
<1> HIDE DEF Order, ControllerReturn, DnsReturn
<1> QED BY <1>2, <1>3, <1>4, <1>5, <1>6, <1>7, <1>8, <1>9, <1>10, <1>11

(* The calls, the steps and the returns of the transport, and DNS at work. *)
LEMMA OrderOfSteps ==
  ASSUME Inv, Order,
         \/ TransportConnect \/ TransportConnectFailed \/ TransportConnected
         \/ TransportDisconnect \/ TransportDisconnected
         \/ TransportStep \/ ResolverStep
  PROVE  Order'
<1>0. Calling
  BY DEF Inv, Core
<1>1. ASSUME UNCHANGED <<controllerVars, stopped, dnsVars, call>>,
             UNCHANGED connected, tunnelPc' # "ok"
      PROVE  Order'
  BY <1>1 DEF Order, CallOrder, DnsOrder, PolicyOrder, controllerVars, dnsVars
<1>2. CASE TransportConnect \/ TransportDisconnect
  <2>1. UNCHANGED connected /\ tunnelPc' # "ok"
    BY <1>2 DEF TransportConnect, TransportDisconnect, TunnelConnect, TunnelDisconnect
  <2> QED BY <1>1, <1>2, <2>1 DEF TransportConnect, TransportDisconnect
<1>3. CASE TransportStep
  <2>0. UNCHANGED <<controllerVars, stopped, dnsVars, call>>
    BY <1>3 DEF TransportStep
  <2>1. CASE LinkAdd \/ SetupStep \/ SetupStopped \/ RemoveRules \/ RulesRemoved
             \/ RollbackLink
    <3>1. UNCHANGED connected
      BY <2>1, Zenon DEF LinkAdd, SetupStep, SetupStopped, RemoveRules, RulesRemoved, RollbackLink
    <3>2. tunnelPc' # "ok"
      BY <2>1, Zenon DEF LinkAdd, SetupStep, SetupStopped, RemoveRules, RulesRemoved, RollbackLink
    <3> QED BY <1>1, <2>0, <3>1, <3>2
  <2>2. CASE SetupDone
    BY <1>0, <2>0, <2>2 DEF SetupDone, Calling, Order, CallOrder, DnsOrder, PolicyOrder,
       controllerVars, dnsVars
  <2>3. CASE DownLink
    <3>1. controllerPc \in {"undo", "disconnect"}
      BY <1>0, <2>3 DEF DownLink, Calling
    <3>2. connected' = FALSE \/ (UNCHANGED connected /\ tunnelPc' = "err")
      BY <2>3, Zenon DEF DownLink
    <3> QED BY <2>0, <3>1, <3>2
            DEF Order, CallOrder, DnsOrder, PolicyOrder, controllerVars, dnsVars
  <2> QED BY <1>3, <2>1, <2>2, <2>3 DEF TransportStep, TunnelStep
<1>4. ASSUME NEW result \in {"ok", "err"}, TunnelReturn(result)
      PROVE  UNCHANGED connected /\ tunnelPc = result /\ tunnelPc' = "idle"
  BY <1>4 DEF TunnelReturn
<1> USE DEF Order, CallOrder, DnsOrder, PolicyOrder
<1>5. CASE TransportConnectFailed
  BY <1>4, <1>5 DEF TransportConnectFailed, ControllerConnectFailed, dnsVars
<1>6. CASE TransportConnected
  BY <1>4, <1>6 DEF TransportConnected, ControllerConnected, Apply, Command, dnsVars
<1>7. CASE TransportDisconnected
  <2>1. PICK result \in {"ok", "err"} :
          /\ TunnelReturn(result)
          /\ ControllerUndone(result) \/ ControllerDisconnected(result)
    BY <1>7 DEF TransportDisconnected
  <2>2. UNCHANGED <<dnsActive, dnsPc, call>>
    BY <1>7 DEF TransportDisconnected, dnsVars
  <2>3. UNCHANGED connected /\ tunnelPc' = "idle"
    BY <1>4, <2>1
  <2>4. CASE ControllerUndone(result)
    BY <2>2, <2>3, <2>4 DEF ControllerUndone
  <2>5. CASE ControllerDisconnected(result)
    BY <2>2, <2>3, <2>5, Zenon DEF ControllerDisconnected
  <2> QED BY <2>1, <2>4, <2>5
<1>8. CASE ResolverStep
  <2>1. UNCHANGED <<controllerPc, nft, transportMayBeActive, connected, tunnelPc, call>>
    BY <1>8 DEF ResolverStep, controllerVars, adapterVars
  <2>2. dnsPc \in DnsSettings \cup {"cleanup"}
    BY <1>8, Zenon DEF ResolverStep, DnsStep, DnsStopped, DnsCleanup
  <2>3. call = "configure" /\ controllerPc = "idle" /\ connected
    BY <2>2 DEF DnsSettings
  <2> QED BY <2>1, <2>3
<1> HIDE DEF Order
<1> QED BY <1>2, <1>3, <1>5, <1>6, <1>7, <1>8

(* The order is kept under any caller.                                     *)
LEMMA OrderStep == Inv /\ Order /\ [ApiNext]_connectionVars => Order'
<1>1. ASSUME UNCHANGED <<controllerVars, adapterVars, dnsVars, call>>, Order PROVE Order'
  BY <1>1 DEF Order, CallOrder, DnsOrder, PolicyOrder, controllerVars, adapterVars, dnsVars
<1>2. ASSUME Order, ContextStops \/ LinkLost \/ UNCHANGED connectionVars PROVE Order'
  BY <1>1, <1>2 DEF ContextStops, LinkLost, connectionVars, tunnelVars
<1> QED BY <1>2, OrderOfCalls, OrderOfSteps DEF ApiNext, ConnectionStep

(* It holds of a connection that was just built.                           *)
LEMMA FreshOrder == JustBuilt => Order
<1> SUFFICES ASSUME JustBuilt PROVE Order
  OBVIOUS
<1>1. /\ controllerPc = "idle" /\ call = "idle" /\ tunnelPc = "idle" /\ dnsPc = "idle"
      /\ dnsActive = FALSE
  BY DEF JustBuilt, ConnectionFresh, AdapterFresh, DnsFresh
<1> QED BY <1>1 DEF Order, CallOrder, DnsOrder, PolicyOrder, DnsSettings


(* The order holds through every sequence of operations.                   *)
LEMMA OrderHolds == ApiSpec => []Order
<1>1. ApiInit => Order
  BY InitJustBuilt, FreshOrder
<1> QED BY <1>1, OrderStep, Invariance, PTL DEF ApiSpec

(***************************************************************************)
(* DNS is never left owned without a tunnel: every path of connect and     *)
(* disconnect reverts DNS before the transport goes.                       *)
(***************************************************************************)
THEOREM DnsNeedsTunnel == ApiSpec => []DnsOnlyOverTunnel
<1>1. Order => DnsOnlyOverTunnel
  BY DEF Order, DnsOrder, DnsOnlyOverTunnel
<1> QED BY <1>1, OrderHolds, PTL

(***************************************************************************)
(* While bring_up and bring_down run traffic is blocked, when a failed     *)
(* nftables transaction has no effect.  (One that took effect and still    *)
(* failed leaves the tunnel admitted while connect undoes it.)             *)
(***************************************************************************)
THEOREM ChangesAreBlocked == ApiSpec => [](~LateFailure => BlockedWhileChanging)
<1>1. Inv /\ Order => (~LateFailure => BlockedWhileChanging)
  <2> SUFFICES ASSUME Inv, Order, ~LateFailure, tunnelPc \notin {"idle", "ok", "err"}
               PROVE  nft = BlockNonTunnel
    BY DEF BlockedWhileChanging
  <2>1. \/ controllerPc = "connect"
        \/ controllerPc \in {"undo", "disconnect"} /\ connected
    BY DEF Inv, ConnectionTypeOK, TunnelTypeOK, TunnelPcs, Core, Calling
  <2>2. connected => transportMayBeActive
    BY DEF Inv, Core, FlagCovers
  <2> QED BY <2>1, <2>2 DEF Order, PolicyOrder
<1> QED BY <1>1, OrderHolds, Invariance, PTL

-----------------------------------------------------------------------------
(***************************************************************************)
(* The kill switch and the table.  A kill switch that is always on is      *)
(* never Disabled and neither is the table; and without late failures the  *)
(* two are the same at every point.                                        *)
(***************************************************************************)
SwitchInv ==
  /\ killSwitch.alwaysOn => killSwitch.policy # Disabled /\ nft # Disabled
  /\ ~LateFailure => PolicyInForce

(* Steps that leave the controller alone, and the operations that do not.  *)
LEMMA SwitchStep == Inv /\ SwitchInv /\ [ApiNext]_connectionVars => SwitchInv'
<1> SUFFICES ASSUME Inv, SwitchInv, [ApiNext]_connectionVars PROVE SwitchInv'
  OBVIOUS
<1>0. killSwitch \in KillSwitchRecord
  BY DEF Inv, ConnectionTypeOK, ControllerTypeOK
<1>1. ASSUME UNCHANGED <<killSwitch, nft>> PROVE SwitchInv'
  BY <1>1 DEF SwitchInv, PolicyInForce
<1>2. ASSUME NEW ks, ks.alwaysOn = killSwitch.alwaysOn,
             ks.alwaysOn => ks.policy # Disabled,
             \/ nft' = ks.policy /\ killSwitch' = ks
             \/ UNCHANGED <<killSwitch, nft>>
             \/ nft' = ks.policy /\ UNCHANGED killSwitch /\ LateFailure
      PROVE  SwitchInv'
  BY <1>2 DEF SwitchInv, PolicyInForce
<1> USE DEF Apply, Command
<1>3. ASSUME ControllerConnect PROVE SwitchInv'
  <2>1. Enable(killSwitch).policy = BlockNonTunnel /\ BlockNonTunnel # Disabled
    BY <1>0, Methods, Policies
  <2> QED BY <1>0, <1>2, <1>3, <2>1, Methods DEF ControllerConnect
<1>4. ASSUME ControllerDisconnect PROVE SwitchInv'
  <2>1. killSwitch.alwaysOn => TunnelLost(killSwitch).policy # Disabled
    BY <1>0, Methods, Policies DEF SwitchInv
  <2> QED BY <1>0, <1>2, <1>4, <2>1, Methods DEF ControllerDisconnect
<1>5. ASSUME ControllerDisable PROVE SwitchInv'
  <2>1. \/ UNCHANGED <<killSwitch, nft>>
        \/ ~killSwitch.alwaysOn /\ nft' = Disabled
           /\ (killSwitch' = Disable(killSwitch) \/ (UNCHANGED killSwitch /\ LateFailure))
    BY <1>5 DEF ControllerDisable, DisableRefused, MayDisable
  <2>2. /\ Disable(killSwitch).policy = Disabled
        /\ Disable(killSwitch).alwaysOn = killSwitch.alwaysOn
    BY <1>0, Methods
  <2> QED BY <1>1, <1>2, <2>1, <2>2
<1>6. ASSUME ControllerConnected(Interface) PROVE SwitchInv'
  <2>1. LET ks == TunnelEstablished(killSwitch, Interface)
        IN  /\ ks.policy = TunnelOnly(Interface) /\ ks.policy # Disabled
            /\ ks.alwaysOn = killSwitch.alwaysOn
    BY <1>0, Establishing, InterfaceAssumption, Policies
  <2> QED BY <1>1, <1>2, <1>6, <2>1 DEF ControllerConnected
<1>7. ASSUME NEW result,
             \/ ControllerReturn(result) \/ ControllerConnectFailed
             \/ ControllerUndone(result) \/ ControllerDisconnected(result)
      PROVE  SwitchInv'
  BY <1>1, <1>7 DEF ControllerReturn, ControllerConnectFailed, ControllerUndone,
     ControllerDisconnected
<1>8. ASSUME UNCHANGED controllerVars PROVE SwitchInv'
  BY <1>1, <1>8 DEF controllerVars
<1>9. CASE ApiCall
  BY <1>3, <1>5, <1>8, <1>9
  DEF ApiCall, Connect, Disconnect, DisableFiltering, ConnectionReturn
<1>10. CASE ConnectFailed \/ ConnectConfiguresDns \/ ConfigureDone
            \/ ConfigureNeedsRevert \/ ConfigureFailed
  BY <1>4, <1>7, <1>8, <1>10
  DEF ConnectFailed, ConnectConfiguresDns, ConfigureDone, ConfigureNeedsRevert,
      ConfigureFailed
<1>11. CASE RetryRevert \/ RetryFailed \/ RetryDone \/ UndoReturned
            \/ RevertFailed \/ RevertDone \/ OperationReturned
  BY <1>4, <1>7, <1>8, <1>11 DEF RetryRevert, RetryFailed, RetryDone, UndoReturned,
     RevertFailed, RevertDone, OperationReturned
<1>12. CASE TransportConnect \/ TransportDisconnect \/ TransportStep
            \/ ResolverStep \/ ContextStops \/ LinkLost
  BY <1>8, <1>12 DEF TransportConnect, TransportDisconnect, TransportStep,
     ResolverStep, ContextStops, LinkLost
<1>13. CASE TransportConnectFailed \/ TransportConnected \/ TransportDisconnected
  BY <1>6, <1>7, <1>13
  DEF TransportConnectFailed, TransportConnected, TransportDisconnected
<1>14. CASE UNCHANGED connectionVars
  BY <1>8, <1>14 DEF connectionVars
<1> QED BY <1>9, <1>10, <1>11, <1>12, <1>13, <1>14 DEF ApiNext, ConnectionStep

(* The two agree through every sequence of operations.                     *)
LEMMA SwitchHolds == ApiSpec => []SwitchInv
<1>1. ApiInit => SwitchInv
  <2> SUFFICES ASSUME ApiInit PROVE SwitchInv
    OBVIOUS
  <2>1. PICK alwaysOn \in BOOLEAN : killSwitch = Enable(New(alwaysOn))
    BY DEF ApiInit
  <2>2. killSwitch.policy = BlockNonTunnel /\ nft = killSwitch.policy
    BY <2>1, NewKillSwitch, Methods DEF ApiInit
  <2> QED BY <2>2, Policies DEF SwitchInv, PolicyInForce
<1> QED BY <1>1, SwitchStep, Invariance, PTL DEF ApiSpec

(***************************************************************************)
(* An always-on connection never lifts filtering, late failures included:  *)
(* KillSwitch::disable refuses it and tunnel_lost keeps blocking.          *)
(***************************************************************************)
THEOREM AlwaysOnConnection == ApiSpec => []AlwaysOnNeverReleased
<1>1. SwitchInv => AlwaysOnNeverReleased
  BY DEF SwitchInv, AlwaysOnNeverReleased
<1> QED BY <1>1, SwitchHolds, PTL

(***************************************************************************)
(* The in-memory policy is the one in force: kill_switch is assigned only  *)
(* after Firewall::apply accepted the same policy.                         *)
(***************************************************************************)
THEOREM MemoryMatchesTable == ApiSpec => [](~LateFailure => PolicyInForce)
<1>1. SwitchInv => (~LateFailure => PolicyInForce)
  BY DEF SwitchInv
<1> QED BY <1>1, SwitchHolds, PTL

-----------------------------------------------------------------------------
(***************************************************************************)
(* What setup has built.  Complete(k): the commands before position k are  *)
(* in effect, those of the link as long as the link is there.              *)
(***************************************************************************)
Complete(k) ==
  \A n \in Steps : n < k =>
    IF AddsRule(n) THEN kernelRules[Setup[n].rule] = "own"
                   ELSE link = "own" => n \in configured

TunnelBuilt ==
  /\ \A n \in activeRules \cup pendingRules :
       AddsRule(n) /\ kernelRules[Setup[n].rule] # "stale"
  /\ connected \/ tunnelPc \in {"setup", "rollback_rules", "rollback_link"}
       => link # "stale"
  /\ tunnelPc = "setup" => Complete(nextStep)
  /\ tunnelPc = "ok" /\ controllerPc = "connect" => Complete(Len(Setup) + 1)

DnsBuilt ==
  /\ dnsPc = "domain" /\ link = "own" => {"dns"} \subseteq resolved
  /\ dnsPc = "default-route" /\ link = "own" => {"dns", "domain"} \subseteq resolved
  /\ dnsPc = "ok" /\ call = "configure"
       => dnsActive /\ (link = "own" => resolved = DnsSettings)

(* Commands of setup and teardown: they keep what was built, and touch no  *)
(* link and no rule of an earlier process.                                 *)
RulesStay == \A r \in Rules : kernelRules[r] = "stale" => kernelRules'[r] = "stale"

(* The commands of TunnelConnect, TunnelDisconnect and their steps.        *)
LEMMA BuiltByTransport ==
  ASSUME Inv, TunnelBuilt, UNCHANGED controllerVars,
         TunnelConnect \/ TunnelDisconnect \/ TunnelStep
  PROVE  /\ TunnelBuilt'
         /\ link = "stale" => link' = "stale"
         /\ RulesStay
<1> USE DEF TunnelBuilt
<1>0. /\ TunnelTypeOK /\ Calling /\ UNCHANGED controllerPc
      /\ \A n \in Steps : AddsRule(n) => Setup[n].rule \in Rules
      /\ Len(Setup) \in Nat
  BY SetupFacts DEF Inv, Core, ConnectionTypeOK, controllerVars
<1>1. ASSUME UNCHANGED <<link, configured, kernelRules, nextStep>>,
             tunnelPc' = "setup" => tunnelPc = "setup",
             tunnelPc' = "ok" /\ controllerPc = "connect" => Complete(Len(Setup) + 1),
             activeRules' \cup pendingRules' \subseteq activeRules \cup pendingRules,
             connected' \/ tunnelPc' \in {"setup", "rollback_rules", "rollback_link"}
               => link # "stale"
      PROVE  TunnelBuilt' /\ (link = "stale" => link' = "stale") /\ RulesStay
  BY <1>0, <1>1, Zenon DEF Complete, RulesStay
<1> USE DEF kernelVars
<1>2. CASE TunnelConnect \/ TunnelDisconnect
  BY <1>1, <1>2, Zenon DEF TunnelConnect, TunnelDisconnect
<1>3. CASE LinkAdd
  <2>1. /\ UNCHANGED <<kernelRules, connected, activeRules>>
        /\ pendingRules' = {} /\ nextStep' = 1
        /\ tunnelPc' = "err" \/ (tunnelPc' = "setup" /\ link' = "own")
        /\ link' \in {link, "own"} /\ (link = "stale" => link' = "stale")
        /\ ~connected
    BY <1>0, <1>3, Zenon DEF LinkAdd, Command, Calling
  <2>2. \A n \in Steps : ~(n < 1)
    BY <1>0 DEF Steps
  <2> QED BY <2>1, <2>2, Zenon DEF Complete, RulesStay
<1>4. CASE SetupStep
  <2>1. /\ tunnelPc = "setup" /\ nextStep \in Steps /\ link # "stale"
        /\ UNCHANGED <<connected, activeRules>>
    BY <1>4 DEF SetupStep
  <2>2. UNCHANGED link
    BY <1>4, Zenon DEF SetupStep, SetupCommand
  <2>3. \A r \in Rules : kernelRules[r] # kernelRules'[r] => /\ kernelRules[r] = "absent"
                                                          /\ kernelRules'[r] = "own"
    <3>1. \/ UNCHANGED kernelRules
          \/ /\ AddsRule(nextStep) /\ kernelRules[Setup[nextStep].rule] = "absent"
             /\ kernelRules' = [kernelRules EXCEPT ![Setup[nextStep].rule] = "own"]
      BY <1>4, Zenon DEF SetupStep, SetupCommand, Command
    <3> QED BY <1>0, <3>1 DEF TunnelTypeOK
  <2>4. configured \subseteq configured'
    BY <1>4, Zenon DEF SetupStep, SetupCommand, Command
  <2>5. \A n \in activeRules \cup pendingRules :
          AddsRule(n) /\ kernelRules'[Setup[n].rule] # "stale"
    BY <1>0, <2>3 DEF TunnelTypeOK
  <2>6. CASE SetupCommand(nextStep, FALSE) /\ tunnelPc' = "rollback_rules"
             /\ UNCHANGED pendingRules
    BY <2>1, <2>2, <2>3, <2>5, <2>6 DEF RulesStay
  <2>7. CASE /\ SetupCommand(nextStep, TRUE)
             /\ nextStep' = nextStep + 1
             /\ pendingRules' = IF AddsRule(nextStep)
                                THEN pendingRules \cup {nextStep} ELSE pendingRules
             /\ UNCHANGED tunnelPc
    <3>1. IF AddsRule(nextStep) THEN kernelRules'[Setup[nextStep].rule] = "own"
                                ELSE nextStep \in configured'
      BY <1>0, <2>1, <2>7 DEF SetupCommand, Command, TunnelTypeOK
    <3>2. \A n \in Steps : n < nextStep + 1 => n < nextStep \/ n = nextStep
      BY <1>0, <2>1 DEF Steps
    <3>3. Complete(nextStep)'
      BY <1>0, <2>1, <2>2, <2>3, <2>4, <2>7, <3>1, <3>2 DEF Complete
    <3> QED BY <2>1, <2>2, <2>3, <2>5, <2>7, <3>1, <3>3 DEF RulesStay
  <2> QED BY <1>4, <2>6, <2>7, Zenon DEF SetupStep
<1>5. CASE SetupStopped
  BY <1>1, <1>5, Zenon DEF SetupStopped
<1>6. CASE SetupDone
  <2>1. tunnelPc = "setup" /\ nextStep = Len(Setup) + 1
    BY <1>0, <1>6 DEF SetupDone, Steps, TunnelTypeOK
  <2>2. Complete(Len(Setup) + 1)
    BY <2>1
  <2>3. UNCHANGED <<link, configured, kernelRules, nextStep>>
        /\ activeRules' = pendingRules /\ pendingRules' = {} /\ tunnelPc' = "ok"
    BY <1>6, Zenon DEF SetupDone
  <2> QED BY <1>1, <2>1, <2>2, <2>3
<1>7. CASE RemoveRules
  <2>1. /\ tunnelPc \in {"rollback_rules", "down_rules"}
        /\ UNCHANGED <<connected, link, configured>>
        /\ activeRules' \cup pendingRules' \subseteq activeRules \cup pendingRules
        /\ tunnelPc' \in {tunnelPc, "rollback_link", "err"}
        /\ tunnelPc = "down_rules" => tunnelPc' \in {"down_rules", "err"}
    BY <1>7, Zenon DEF RemoveRules, RemovePolicyRule
  <2>2. PICK n \in pendingRules : RemovePolicyRule(n, TRUE) \/ RemovePolicyRule(n, FALSE)
    BY <1>7, Zenon DEF RemoveRules, Newest
  <2>3. Setup[n].rule \in Rules /\ kernelRules[Setup[n].rule] # "stale"
    BY <1>0, <2>2 DEF TunnelTypeOK
  <2>4. \A r \in Rules : kernelRules[r] # kernelRules'[r] => /\ kernelRules[r] # "stale"
                                                          /\ kernelRules'[r] = "absent"
    <3>1. \/ UNCHANGED kernelRules
          \/ kernelRules' = [kernelRules EXCEPT ![Setup[n].rule] = "absent"]
      BY <2>2 DEF RemovePolicyRule, Command
    <3> QED BY <1>0, <2>3, <3>1 DEF TunnelTypeOK
  <2>5. \A m \in activeRules \cup pendingRules :
          AddsRule(m) /\ kernelRules'[Setup[m].rule] # "stale"
    BY <1>0, <2>4, Zenon DEF TunnelTypeOK
  <2> QED BY <2>1, <2>4, <2>5, Zenon DEF RulesStay
<1>8. CASE RulesRemoved
  BY <1>1, <1>8, Zenon DEF RulesRemoved
<1>9. CASE RollbackLink \/ DownLink
  <2>1. link # "stale"
    BY <1>0, <1>9, Zenon DEF RollbackLink, DownLink, Calling
  <2>2. /\ UNCHANGED <<kernelRules, activeRules>> /\ link' \in {link, "absent"}
        /\ pendingRules' \subseteq pendingRules
        /\ tunnelPc' \in {"ok", "err"}
        /\ tunnelPc' = "ok" => tunnelPc = "down_link"
    BY <1>9, Zenon DEF RollbackLink, DownLink, DeleteInterface, RemoveLink, Command
  <2>3. ~(tunnelPc' = "ok" /\ controllerPc = "connect")
    BY <1>0, <2>2, Zenon DEF Calling
  <2> QED BY <1>0, <2>1, <2>2, <2>3, Zenon DEF RulesStay
<1> QED BY <1>2, <1>3, <1>4, <1>5, <1>6, <1>7, <1>8, <1>9, Zenon DEF TunnelStep

(* Every other step leaves the tunnel, or takes the link away.             *)
LEMMA BuiltByOthers ==
  ASSUME Inv, TunnelBuilt,
         UNCHANGED <<connected, activeRules, pendingRules, nextStep, kernelRules>>,
         (UNCHANGED <<link, configured>>) \/ link' = "absent",
         (UNCHANGED <<tunnelPc, controllerPc>>) \/ tunnelPc' = "idle"
  PROVE  TunnelBuilt' /\ RulesStay
BY SetupFacts, Zenon DEF TunnelBuilt, Complete, RulesStay, Inv, ConnectionTypeOK, TunnelTypeOK

(* DNS setup: what was set so far stays set while the link is there.       *)
LEMMA BuiltByDns ==
  ASSUME Inv, DnsBuilt, DnsStep \/ DnsStopped \/ DnsCleanup, UNCHANGED call
  PROVE  DnsBuilt'
<1> USE DEF DnsBuilt, DnsSettings
<1>1. CASE DnsStep /\ dnsPc' = "cleanup"
  BY <1>1
<1>2. CASE DnsStopped
  BY <1>2 DEF DnsStopped
<1>3. CASE DnsCleanup
  BY <1>3 DEF DnsCleanup
<1>4. CASE DnsStep /\ dnsPc' # "cleanup"
  <2>1. /\ dnsPc \in DnsSettings /\ dnsPc' = Following(dnsPc)
        /\ dnsActive' = (dnsPc' = "ok")
        /\ resolved' = IF link = "absent" THEN {} ELSE resolved \cup {dnsPc}
        /\ UNCHANGED link
    BY <1>4, Zenon DEF DnsStep, Resolvectl, Command
  <2>2. CASE dnsPc = "dns"
    BY <2>1, <2>2 DEF Following
  <2>3. CASE dnsPc = "domain"
    BY <2>1, <2>3 DEF Following
  <2>4. CASE dnsPc = "default-route"
    <3>1. resolved \subseteq DnsSettings
      BY DEF Inv, ConnectionTypeOK, TunnelTypeOK
    <3>2. dnsPc' = "ok" /\ dnsActive'
      BY <2>1, <2>4, Zenon DEF Following
    <3>3. link = "own" => resolved' = DnsSettings
      BY <2>1, <2>4, <3>1, Zenon
    <3> QED BY <2>1, <3>2, <3>3
  <2> QED BY <2>1, <2>2, <2>3, <2>4
<1> QED BY <1>1, <1>2, <1>3, <1>4

(* What setup has built is kept under any caller, and no step but the loss *)
(* of the interface takes a link of an earlier process away.               *)
LEMMA BuiltStep ==
  ASSUME Inv, Order, TunnelBuilt, DnsBuilt, [ApiNext]_connectionVars
  PROVE  /\ TunnelBuilt' /\ DnsBuilt' /\ RulesStay
         /\ link = "stale" /\ link' # "stale" => UNCHANGED <<tunnelPc, dnsPc, call>>
<1> DEFINE LinkStays ==
      link = "stale" /\ link' # "stale" => UNCHANGED <<tunnelPc, dnsPc, call>>
<1>0. /\ tunnelPc # "idle" => controllerPc \in TransportCalled
      /\ controllerPc # "idle" => dnsPc = "idle"
  BY DEF Inv, Core, Calling, Order, CallOrder
<1>1. ASSUME controllerPc \in {"idle", "ok", "err"}, UNCHANGED tunnelVars
      PROVE  TunnelBuilt' /\ RulesStay /\ LinkStays
  <2>1. tunnelPc = "idle"
    BY <1>0, <1>1 DEF TransportCalled
  <2> QED BY <1>1, <2>1, BuiltByOthers DEF tunnelVars, adapterVars, kernelVars
<1>2. ASSUME UNCHANGED <<controllerVars, adapterVars, link, configured, kernelRules>>
      PROVE  TunnelBuilt' /\ RulesStay /\ LinkStays
  BY <1>2, BuiltByOthers DEF controllerVars, adapterVars
<1>3. ASSUME dnsPc' \in {"idle", "dns", "err"} PROVE DnsBuilt'
  BY <1>3 DEF DnsBuilt
<1>4. ASSUME UNCHANGED <<dnsPc, dnsActive, call>>,
             (UNCHANGED <<link, resolved>>) \/ link' = "absent"
      PROVE  DnsBuilt'
  BY <1>4 DEF DnsBuilt
<1>5. ASSUME controllerPc # "idle", UNCHANGED dnsVars PROVE DnsBuilt'
  BY <1>0, <1>3, <1>5 DEF dnsVars
<1>6. ASSUME DnsRevert, call' # "configure" PROVE DnsBuilt'
  BY <1>6, Zenon DEF DnsRevert, DnsBuilt
<1>7. call \notin {"configure", "retry", "revert"} => dnsPc = "idle"
  BY DEF Order, CallOrder
<1>8. ASSUME DnsRevert \/ DnsStep \/ DnsStopped \/ DnsCleanup
      PROVE  UNCHANGED <<link, configured, kernelRules>>
  BY <1>8, Zenon DEF DnsRevert, DnsStep, DnsStopped, DnsCleanup, Resolvectl, kernelVars
<1>9. ASSUME UNCHANGED <<controllerVars, tunnelVars>>
      PROVE  TunnelBuilt' /\ RulesStay /\ LinkStays
  BY <1>2, <1>9 DEF tunnelVars, kernelVars
<1>10. ASSUME NEW result, DnsReturn(result) PROVE DnsBuilt'
  BY <1>3, <1>10 DEF DnsReturn
<1>11. ASSUME NEW result \in {"ok", "err"}, ControllerReturn(result), UNCHANGED tunnelVars
       PROVE  TunnelBuilt' /\ RulesStay /\ LinkStays /\ controllerPc # "idle"
  BY <1>1, <1>11 DEF ControllerReturn
<1> SUFFICES TunnelBuilt' /\ DnsBuilt' /\ RulesStay /\ LinkStays
  OBVIOUS
<1> HIDE DEF LinkStays
<1>12. CASE ApiCall
  <2>1. ASSUME NEW given \in BOOLEAN, Connect(given)
        PROVE  TunnelBuilt' /\ DnsBuilt' /\ RulesStay /\ LinkStays
    BY <1>1, <1>3, <1>7, <2>1 DEF Connect, ControllerConnect, dnsVars
  <2>2. CASE Disconnect
    BY <1>2, <1>6, <1>8, <2>2 DEF Disconnect
  <2>3. CASE DisableFiltering
    BY <1>1, <1>3, <1>7, <2>3 DEF DisableFiltering, ControllerDisable, dnsVars
  <2>4. ASSUME NEW result \in {"ok", "err"}, ConnectionReturn(result)
        PROVE  TunnelBuilt' /\ DnsBuilt' /\ RulesStay /\ LinkStays
    BY <1>3, <1>7, <1>9, <2>4 DEF ConnectionReturn, dnsVars
  <2> QED BY <1>12, <2>1, <2>2, <2>3, <2>4 DEF ApiCall
<1>13. CASE ConnectFailed \/ UndoReturned \/ OperationReturned
  BY <1>5, <1>11, <1>13 DEF ConnectFailed, UndoReturned, OperationReturned
<1>14. CASE ConnectConfiguresDns
  BY <1>3, <1>11, <1>14 DEF ConnectConfiguresDns, DnsConfigure
<1>15. CASE ConfigureDone \/ ConfigureNeedsRevert \/ RetryFailed \/ RevertFailed
  BY <1>9, <1>10, <1>15 DEF ConfigureDone, ConfigureNeedsRevert, RetryFailed, RevertFailed
<1>16. CASE ConfigureFailed \/ RetryDone \/ RevertDone
  BY <1>1, <1>10, <1>16, Zenon DEF ConfigureFailed, RetryDone, RevertDone, ControllerDisconnect
<1>17. CASE RetryRevert
  BY <1>2, <1>6, <1>8, <1>17 DEF RetryRevert
<1>18. CASE TransportConnect \/ TransportDisconnect \/ TransportStep
  <2>1. controllerPc # "idle" /\ UNCHANGED <<controllerVars, dnsVars>>
    <3>1. TunnelStep => tunnelPc # "idle"
      BY Zenon DEF TunnelStep, LinkAdd, SetupStep, SetupStopped, SetupDone, RemoveRules,
         RulesRemoved, RollbackLink, DownLink
    <3> QED BY <1>0, <1>18, <3>1
            DEF TransportConnect, TransportDisconnect, TransportStep, TransportCalled
  <2>2. /\ TunnelBuilt' /\ RulesStay
        /\ link = "stale" => link' = "stale"
    BY <1>18, <2>1, BuiltByTransport DEF TransportConnect, TransportDisconnect, TransportStep
  <2> QED BY <1>5, <2>1, <2>2 DEF LinkStays
<1>19. CASE TransportConnectFailed \/ TransportConnected \/ TransportDisconnected
  <2>1. PICK result \in {"ok", "err"} : TunnelReturn(result)
    BY <1>19 DEF TransportConnectFailed, TransportConnected, TransportDisconnected
  <2>2. controllerPc # "idle" /\ UNCHANGED dnsVars
    BY <1>19, Zenon DEF TransportConnectFailed, TransportConnected, TransportDisconnected,
       ControllerConnectFailed, ControllerConnected, ControllerUndone, ControllerDisconnected
  <2>3. TunnelBuilt' /\ RulesStay
    BY <2>1, BuiltByOthers DEF TunnelReturn, kernelVars
  <2>4. LinkStays
    BY <2>1 DEF TunnelReturn, kernelVars, LinkStays
  <2> QED BY <1>5, <2>2, <2>3, <2>4
<1>20. CASE ResolverStep
  BY <1>2, <1>8, <1>20, BuiltByDns DEF ResolverStep
<1>21. CASE ContextStops \/ UNCHANGED connectionVars
  BY <1>4, <1>9, <1>21, Zenon
  DEF ContextStops, connectionVars, dnsVars, tunnelVars, kernelVars
<1>22. CASE LinkLost
  <2>1. /\ UNCHANGED <<controllerPc, connected, activeRules, pendingRules, nextStep,
                       tunnelPc, kernelRules, dnsPc, dnsActive, call>>
        /\ link' = "absent"
    BY <1>22 DEF LinkLost, RemoveLink, controllerVars, adapterVars, dnsVars
  <2> QED BY <1>4, <2>1, BuiltByOthers DEF LinkStays
<1> QED BY <1>12, <1>13, <1>14, <1>15, <1>16, <1>17, <1>18, <1>19, <1>20, <1>21, <1>22
        DEF ApiNext, ConnectionStep

(* It is kept through every sequence of operations.                        *)
LEMMA BuiltHolds == ApiSpec => [](TunnelBuilt /\ DnsBuilt)
<1>1. ApiInit => TunnelBuilt /\ DnsBuilt
  <2> SUFFICES ASSUME ApiInit PROVE TunnelBuilt /\ DnsBuilt
    OBVIOUS
  <2>1. /\ connected = FALSE /\ activeRules = {} /\ pendingRules = {}
        /\ tunnelPc = "idle" /\ dnsPc = "idle"
    BY DEF ApiInit, ConnectionFresh, AdapterFresh, DnsFresh
  <2> QED BY <2>1 DEF TunnelBuilt, DnsBuilt
<1>2. Inv /\ Order /\ (TunnelBuilt /\ DnsBuilt) /\ [ApiNext]_connectionVars
        => (TunnelBuilt /\ DnsBuilt)'
  BY BuiltStep
<1> QED BY <1>1, <1>2, Invariance, OrderHolds, PTL DEF ApiSpec

(***************************************************************************)
(* No step of the connection removes a link or a rule it did not create:   *)
(* a failed `link add' is not rolled back, and only rules whose `rule add' *)
(* succeeded are ever recorded for removal.                                *)
(***************************************************************************)
THEOREM ForeignIsSafe == ApiSpec => ForeignUntouched
<1>1. Inv /\ Order /\ (TunnelBuilt /\ DnsBuilt) /\ [ApiNext]_connectionVars
        => [/\ link = "stale" /\ link' # "stale" => UNCHANGED <<tunnelPc, dnsPc, call>>
            /\ \A r \in Rules : kernelRules[r] = "stale" => kernelRules'[r] = "stale"
           ]_connectionVars
  BY BuiltStep, Zenon DEF RulesStay
<1> QED BY <1>1, Invariance, OrderHolds, BuiltHolds, PTL DEF ApiSpec, ForeignUntouched

(***************************************************************************)
(* connect returns success only with the policy that admits nothing but    *)
(* the tunnel in force, over a tunnel with all its DNS settings in effect, *)
(* unless the interface was lost meanwhile.                                *)
(***************************************************************************)
THEOREM SuccessIsProtected == ApiSpec => ConnectOkMeansProtected
<1> DEFINE Protected == /\ nft = TunnelOnly(Interface)
                        /\ connected /\ dnsActive
                        /\ link = "own" => resolved = DnsSettings
<1>1. ASSUME Inv, Order, DnsBuilt, [ApiNext]_connectionVars, call = "configure", call' = "ok"
      PROVE  Protected
  <2>1. controllerPc = "idle" /\ tunnelPc = "idle"
    BY <1>1 DEF Inv, Core, Calling, TransportCalled, Order, CallOrder
  <2>2. ~ApiCall /\ ~ContextStops /\ ~LinkLost /\ ~UNCHANGED connectionVars
    BY <1>1, Zenon DEF ApiCall, Connect, Disconnect, DisableFiltering, ConnectionReturn,
       ContextStops, LinkLost, connectionVars
  <2>3. ConnectionStep => ConfigureDone
    BY <1>1, Zenon DEF ConnectionStep, ConnectFailed, ConnectConfiguresDns, ConfigureNeedsRevert,
       ConfigureFailed, RetryRevert, RetryFailed, RetryDone, UndoReturned, RevertFailed,
       RevertDone, OperationReturned, TransportConnect, TransportConnectFailed,
       TransportConnected, TransportDisconnect, TransportDisconnected, TransportStep,
       ResolverStep
  <2>4. dnsPc = "ok"
    BY <1>1, <2>2, <2>3 DEF ApiNext, ConfigureDone, DnsReturn
  <2> QED BY <1>1, <2>4 DEF Order, DnsOrder, PolicyOrder, DnsBuilt
<1>2. Inv /\ Order /\ (TunnelBuilt /\ DnsBuilt) /\ [ApiNext]_connectionVars
        => [call = "configure" /\ call' = "ok" => Protected]_connectionVars
  BY <1>1
<1> QED BY <1>2, Invariance, OrderHolds, BuiltHolds, PTL
       DEF ApiSpec, ConnectOkMeansProtected

(***************************************************************************)
(* The firewall starts to admit the tunnel only when every command of      *)
(* bring_up is in effect: for every list of setup commands, and wherever   *)
(* one of them fails, is cancelled or takes effect late.                   *)
(***************************************************************************)
THEOREM AdmittedIsComplete == ApiSpec => AdmitsOnlyCompleteTunnel
<1> DEFINE Admits == nft'.mode = "TunnelOnly" /\ nft.mode # "TunnelOnly"
           Whole == /\ connected
                    /\ \A n \in Steps : AddsRule(n) => kernelRules[Setup[n].rule] = "own"
                    /\ link = "own" => \A n \in Steps : AddsRule(n) \/ n \in configured
<1>1. ASSUME Inv, Order, TunnelBuilt, [ApiNext]_connectionVars, Admits
      PROVE  Whole
  <2>0. /\ Disabled.mode # "TunnelOnly" /\ BlockNonTunnel.mode # "TunnelOnly"
        /\ killSwitch \in KillSwitchRecord
    BY <1>1, Policies DEF Inv, ConnectionTypeOK, ControllerTypeOK
  <2>1. ~UNCHANGED controllerVars
    BY <1>1 DEF controllerVars
  <2>2. ~ControllerConnect /\ ~ControllerDisable /\ ~ControllerDisconnect
    <3>1. ControllerConnect => nft' \in {nft, BlockNonTunnel}
      BY DEF ControllerConnect, Apply, Command
    <3>2. ControllerDisable => nft' \in {nft, Disabled}
      BY DEF ControllerDisable, Apply, Command
    <3>3. ControllerDisconnect => nft' \in {nft, TunnelLost(killSwitch).policy}
      BY DEF ControllerDisconnect, Apply, Command
    <3>4. TunnelLost(killSwitch).policy \in {Disabled, BlockNonTunnel}
      BY <2>0, Methods, Zenon
    <3> QED BY <1>1, <2>0, <3>1, <3>2, <3>3, <3>4
  <2>3. ASSUME NEW result,
               \/ ControllerReturn(result) \/ ControllerConnectFailed
               \/ ControllerUndone(result) \/ ControllerDisconnected(result)
        PROVE  FALSE
    BY <1>1, <2>3 DEF ControllerReturn, ControllerConnectFailed, ControllerUndone,
       ControllerDisconnected
  <2>4. TransportConnected
    BY <1>1, <2>1, <2>2, <2>3, Zenon
    DEF ApiNext, ApiCall, ConnectionStep, Connect, Disconnect, DisableFiltering,
        ConnectionReturn, ConnectFailed, ConnectConfiguresDns, ConfigureDone,
        ConfigureNeedsRevert, ConfigureFailed, RetryRevert, RetryFailed, RetryDone,
        UndoReturned, RevertFailed, RevertDone, OperationReturned, TransportConnect,
        TransportConnectFailed, TransportDisconnect, TransportDisconnected,
        TransportStep, ResolverStep, ContextStops, LinkLost, connectionVars
  <2>5. controllerPc = "connect" /\ tunnelPc = "ok"
    BY <2>4 DEF TransportConnected, ControllerConnected, TunnelReturn
  <2>6. connected /\ Complete(Len(Setup) + 1)
    BY <1>1, <2>5 DEF Order, DnsOrder, TunnelBuilt
  <2>7. \A n \in Steps : n < Len(Setup) + 1
    BY SetupFacts DEF Steps
  <2> QED BY <2>6, <2>7 DEF Complete
<1>2. Inv /\ Order /\ (TunnelBuilt /\ DnsBuilt) /\ [ApiNext]_connectionVars
        => [Admits => Whole]_connectionVars
  BY <1>1, Zenon
<1> QED BY <1>2, Invariance, OrderHolds, BuiltHolds, PTL
       DEF ApiSpec, AdmitsOnlyCompleteTunnel

-----------------------------------------------------------------------------
ProcessTypes ==
  /\ main \in Mains
  /\ exit \in {"none", "ok", "err"}
  /\ cancelled \in BOOLEAN
  /\ wakeup \in BOOLEAN

ClientInv == Inv /\ ProcessTypes

(* Between two starts a step of the client is one of the connection's, or  *)
(* leaves it alone, or only cancels its context.                           *)
LEMMA ClientSteps ==
  ASSUME ProcessTypes, [ClientNext]_clientVars
  PROVE  \/ \E alwaysOn \in BOOLEAN : Start(alwaysOn)
         \/ [ApiNext]_connectionVars
         \/ Signal
<1>1. CASE InstallHandler \/ Crash
  BY <1>1 DEF InstallHandler, Crash
<1>2. ASSUME ApiCall PROVE ApiNext
  BY <1>2 DEF ApiNext
<1>3. CASE MainConnect
  BY <1>2, <1>3 DEF MainConnect, ApiCall, ProcessTypes
<1>4. CASE MainConnected \/ MainConnectFailed \/ MainReleaseIgnored
           \/ MainDisconnected \/ MainReleased
  BY <1>2, <1>4, Zenon DEF MainConnected, MainConnectFailed, MainReleaseIgnored,
     MainDisconnected, MainReleased, ApiCall
<1>5. CASE MainRelease \/ MainDisconnect
  BY <1>2, <1>5 DEF MainRelease, MainDisconnect, ApiCall
<1>6. CASE ConnectionStep \/ ContextStops \/ LinkLost
  BY <1>6 DEF ApiNext
<1>7. CASE UNCHANGED clientVars
  BY <1>7 DEF clientVars
<1> QED BY <1>1, <1>3, <1>4, <1>5, <1>6, <1>7
        DEF ClientNext, MainStep, Environment

(* Every step of the process keeps the types of its own variables.         *)
LEMMA ProcessTypesStep ==
  ASSUME ProcessTypes, [ClientNext]_clientVars
  PROVE  ProcessTypes'
<1> USE DEF ProcessTypes, Mains, Exit
<1>1. CASE \E alwaysOn \in BOOLEAN : Start(alwaysOn)
  BY <1>1, Zenon DEF Start
<1>2. CASE MainStep
  BY <1>2, Zenon DEF MainStep, InstallHandler, MainConnect, MainConnected,
     MainConnectFailed, MainRelease, MainReleaseIgnored, MainDisconnect,
     MainDisconnected, MainReleased
<1>3. CASE Environment
  BY <1>3, Zenon DEF Environment, Signal, Crash
<1>4. CASE UNCHANGED clientVars
  BY <1>4 DEF clientVars
<1> QED BY <1>1, <1>2, <1>3, <1>4 DEF ClientNext

(* A start builds a fresh connection and disowns what it finds.            *)
LEMMA StartBuilds ==
  ASSUME Inv, NEW alwaysOn \in BOOLEAN, Start(alwaysOn)
  PROVE  /\ JustBuilt'
         /\ nft' \in {nft, BlockNonTunnel}
         /\ OwnsNothing'
<1>0. TunnelTypeOK /\ nft \in TrafficPolicy
  BY DEF Inv, ConnectionTypeOK, ControllerTypeOK
<1>1. PICK ok \in BOOLEAN : ConnectionNew(alwaysOn, ok)
  BY DEF Start
<1>2. /\ Enable(New(alwaysOn)) \in KillSwitchRecord
      /\ Enable(New(alwaysOn)).policy = BlockNonTunnel
  BY NewKillSwitch, Methods, Zenon
<1>3. nft' \in {nft, BlockNonTunnel}
  BY <1>1, <1>2 DEF ConnectionNew, ControllerNew, Apply, Command
<1>4. ControllerTypeOK'
  BY <1>0, <1>1, <1>2, <1>3, Policies, Zenon
  DEF ConnectionNew, ControllerNew, ControllerTypeOK, ControllerPcs
<1>5. /\ ~transportMayBeActive' /\ controllerPc' = "idle"
      /\ ConnectionFresh'
  BY <1>1 DEF ConnectionNew, ControllerNew, AdapterNew, ConnectionFresh,
     AdapterFresh, DnsFresh
<1>6. link' \in {"absent", "stale"}
  BY <1>0 DEF Start, Stale, TunnelTypeOK, Presence
<1>7. kernelRules' \in [Rules -> {"absent", "stale"}]
  BY <1>0, Zenon DEF Start, Stale, TunnelTypeOK, Presence
<1>8. configured' \subseteq Steps /\ resolved' \subseteq DnsSettings
      /\ stopped' \in BOOLEAN
  BY <1>0, Zenon DEF Start, TunnelTypeOK
<1>9. OwnsNothing'
  BY <1>6, <1>7 DEF OwnsNothing, OwnRules
<1> QED BY <1>3, <1>4, <1>5, <1>6, <1>7, <1>8, <1>9 DEF JustBuilt

(* The handler only sets the token and the channel.                        *)
LEMMA SignalKeeps ==
  ASSUME Inv, Signal
  PROVE  Inv'
<1>1. /\ UNCHANGED <<controllerVars, tunnelVars, dnsVars, call>>
      /\ stopped' \in BOOLEAN
  BY DEF Signal, Inv, ConnectionTypeOK, TunnelTypeOK
<1>2. Core'
  BY <1>1, KernelAlone DEF Inv, tunnelVars, kernelVars
<1>3. ConnectionTypeOK'
  BY <1>1, Zenon DEF Inv, ConnectionTypeOK, ControllerTypeOK, TunnelTypeOK, DnsTypeOK,
     controllerVars, tunnelVars, adapterVars, kernelVars, dnsVars
<1> QED BY <1>2, <1>3 DEF Inv

(* Starts, kills, signals and the connection's own steps keep Inv.         *)
LEMMA ClientInvStep == ClientInv /\ [ClientNext]_clientVars => ClientInv'
<1> SUFFICES ASSUME ClientInv, [ClientNext]_clientVars PROVE ClientInv'
  OBVIOUS
<1>1. ProcessTypes'
  BY ProcessTypesStep DEF ClientInv
<1>2. (JustBuilt => Inv)'
  BY FreshInv, PTL
<1>3. Inv'
  BY <1>2, ClientSteps, StartBuilds, SignalKeeps, InvStep DEF ClientInv
<1> QED BY <1>1, <1>3 DEF ClientInv

(* A host with leftovers of earlier runs satisfies the invariant.          *)
LEMMA ClientInvInit == ClientInit => ClientInv
<1> SUFFICES ASSUME ClientInit PROVE ClientInv
  OBVIOUS
<1>1. ProcessTypes
  BY Zenon DEF ClientInit, ProcessTypes, Mains
<1>2. ControllerTypeOK
  BY NewKillSwitch, Policies, Zenon DEF ClientInit, ControllerTypeOK, ControllerPcs
<1>3. JustBuilt
  BY <1>2, Zenon DEF ClientInit, JustBuilt
<1> QED BY <1>1, <1>3, FreshInv DEF ClientInv

(* The invariant holds across all runs of the client.                      *)
LEMMA ClientInvariance == ClientSpec => []ClientInv
<1>1. ClientInit => ClientInv
  BY ClientInvInit
<1>2. ClientInv /\ [ClientNext]_clientVars => ClientInv'
  BY ClientInvStep
<1> QED BY <1>1, <1>2, PTL DEF ClientSpec

-----------------------------------------------------------------------------
(* The state of the client keeps its type through crashes and restarts.    *)
THEOREM ClientTypes == ClientSpec => []ClientTypeOK
<1>1. ClientInv => ClientTypeOK
  BY DEF ClientInv, Inv, ProcessTypes, ClientTypeOK
<1> QED BY <1>1, ClientInvariance, PTL

(* No run lifts filtering over an interface or rule of its own, and none   *)
(* that was killed leaves the host unfiltered with its tunnel up.          *)
THEOREM ClientReleaseIsSafe == ClientSpec => []ReleasedOnlyWhenClean
<1>1. ClientInv => ReleasedOnlyWhenClean
  BY DEF ClientInv, Inv, Core, FlagCovers, ReleasedOnlyWhenClean
<1> QED BY <1>1, ClientInvariance, PTL

(* Successive runs implement the fail-secure promise: a start is a new     *)
(* session, everything else is a step of the connection.                   *)
THEOREM ClientIsFailSecure == ClientSpec => ImplementsFailSecure
<1>1. ClientInit => Promise!FailSecureInit
  BY Policies DEF ClientInit, Promise!FailSecureInit, OwnsNothing, OwnRules
<1>2. ASSUME ClientInv, ClientInv', [ClientNext]_clientVars
      PROVE  [Promise!FailSecureNext]_<<nft.mode, ~OwnsNothing>>
  <2>1. ASSUME NEW alwaysOn \in BOOLEAN, Start(alwaysOn)
        PROVE  Promise!NewSession
    BY <1>2, <2>1, StartBuilds, Policies, Zenon DEF ClientInv, Promise!NewSession
  <2>2. ASSUME Signal
        PROVE  UNCHANGED <<nft.mode, ~OwnsNothing>>
    BY <2>2 DEF Signal, controllerVars, tunnelVars, kernelVars, OwnsNothing, OwnRules
  <2>3. ASSUME [ApiNext]_connectionVars
        PROVE  [Promise!FailSecureNext]_<<nft.mode, ~OwnsNothing>>
    BY <1>2, <2>3, PromiseStep, Zenon DEF ClientInv
  <2> QED BY <1>2, <2>1, <2>2, <2>3, ClientSteps, Zenon
          DEF ClientInv, Promise!FailSecureNext
<1>3. ClientInv /\ ClientInv' /\ [ClientNext]_clientVars
        => [Promise!FailSecureNext]_<<nft.mode, ~OwnsNothing>>
  BY <1>2, Zenon
<1> QED BY <1>1, <1>3, ClientInvariance, PTL
       DEF ClientSpec, ImplementsFailSecure, Promise!FailSecureSpec

-----------------------------------------------------------------------------
(***************************************************************************)
(* What a run relies on.  CallsOfRun: the main thread has one call         *)
(* outstanding, of the operation it is in.  Filtering is on in every phase *)
(* before the release, and a run in its release has torn everything down.  *)
(***************************************************************************)
Filtering == nft # Disabled /\ killSwitch.policy # Disabled

CallsOfRun ==
  /\ main \in {"started", "ready", "waiting"} => call = "idle"
  /\ main = "connecting" => call \in {"connect", "configure", "retry", "undo", "ok", "err"}
  /\ main = "disconnecting" => call \in {"revert", "disconnect", "ok", "err"}
  /\ main \in {"releasing", "releasing_failed"} => call \in {"idle", "disable", "ok", "err"}

RunInv ==
  /\ CallsOfRun
  /\ main \in {"started", "ready", "connecting", "waiting", "disconnecting"} => Filtering
  /\ main \in {"releasing", "releasing_failed"} => ~killSwitch.alwaysOn
  /\ main = "releasing" \/ (main = "disconnecting" /\ call = "ok")
       => ~transportMayBeActive /\ ~dnsActive
  /\ main = "releasing" /\ call = "ok" => nft = Disabled
  /\ exit = "ok" => main = "off"
  /\ ExitOkMeansClean

(* Inside an operation the object runs; otherwise no step of it is enabled.*)
LEMMA StepCalls ==
  ASSUME Inv, Order, ConnectionStep
  PROVE  \/ OperationReturned
         \/ /\ call \in {"connect", "configure", "retry", "undo"}
            /\ call' \in {"connect", "configure", "retry", "undo", "ok", "err"}
         \/ /\ call \in {"revert", "disconnect"}
            /\ call' \in {"revert", "disconnect", "err"}
<1>1. CASE ConnectFailed \/ ConnectConfiguresDns \/ ConfigureDone
           \/ ConfigureNeedsRevert \/ ConfigureFailed \/ RetryRevert
           \/ RetryFailed \/ RetryDone \/ UndoReturned
  BY <1>1, Zenon DEF ConnectFailed, ConnectConfiguresDns, ConfigureDone, ConfigureNeedsRevert,
     ConfigureFailed, RetryRevert, RetryFailed, RetryDone, UndoReturned
<1>2. CASE RevertFailed \/ RevertDone
  BY <1>2 DEF RevertFailed, RevertDone
<1>3. ASSUME controllerPc \in TransportCalled, UNCHANGED call
      PROVE  call' = call /\ call \in {"connect", "undo", "disconnect"}
  BY <1>3 DEF Order, CallOrder, TransportCalled
<1>4. CASE TransportConnect \/ TransportDisconnect
  BY <1>3, <1>4 DEF TransportConnect, TransportDisconnect, TransportCalled
<1>5. CASE TransportConnectFailed \/ TransportConnected \/ TransportDisconnected
  BY <1>3, <1>5, Zenon DEF TransportConnectFailed, TransportConnected, TransportDisconnected,
     TransportCalled, ControllerConnectFailed, ControllerConnected, ControllerUndone,
     ControllerDisconnected
<1>6. CASE TransportStep
  <2>1. tunnelPc # "idle"
    BY <1>6, Zenon DEF TransportStep, TunnelStep, LinkAdd, SetupStep, SetupStopped, SetupDone,
       RemoveRules, RulesRemoved, RollbackLink, DownLink
  <2>2. UNCHANGED call
    BY <1>6 DEF TransportStep
  <2> QED BY <1>3, <2>1, <2>2 DEF Inv, Core, Calling
<1>7. CASE ResolverStep
  <2>1. dnsPc # "idle"
    BY <1>7, Zenon DEF ResolverStep, DnsStep, DnsStopped, DnsCleanup, DnsSettings
  <2>2. UNCHANGED call
    BY <1>7 DEF ResolverStep
  <2> QED BY <2>1, <2>2 DEF Order, CallOrder
<1> QED BY <1>1, <1>2, <1>4, <1>5, <1>6, <1>7, Zenon DEF ConnectionStep

(* A step other than disable neither lifts filtering nor forgets always_on.*)
LEMMA FilteringKept ==
  ASSUME Inv, \/ ConnectionStep \/ ContextStops \/ LinkLost \/ Disconnect
              \/ \E c \in BOOLEAN : Connect(c)
              \/ \E result \in {"ok", "err"} : ConnectionReturn(result)
              \/ UNCHANGED connectionVars
  PROVE  /\ Filtering => Filtering'
         /\ killSwitch'.alwaysOn = killSwitch.alwaysOn
<1> DEFINE Kept == (Filtering => Filtering') /\ killSwitch'.alwaysOn = killSwitch.alwaysOn
<1> SUFFICES Kept
  BY Zenon
<1>0. killSwitch \in KillSwitchRecord
  BY DEF Inv, ConnectionTypeOK, ControllerTypeOK
<1>1. ASSUME UNCHANGED <<killSwitch, nft>> PROVE Kept
  BY <1>1 DEF Filtering
<1>2. ASSUME ControllerConnect PROVE Kept
  <2>1. nft' \in {nft, BlockNonTunnel} /\ killSwitch' \in {killSwitch, Enable(killSwitch)}
    BY <1>2 DEF ControllerConnect, Apply, Command
  <2> QED BY <1>0, <2>1, Methods, Policies, Zenon DEF Filtering
<1>3. ASSUME ControllerDisconnect PROVE Kept
  <2>1. /\ nft' \in {nft, TunnelLost(killSwitch).policy}
        /\ killSwitch' \in {killSwitch, TunnelLost(killSwitch)}
    BY <1>3, Zenon DEF ControllerDisconnect, Apply, Command
  <2> QED BY <1>0, <2>1, Methods, Policies, Zenon DEF Filtering
<1>4. ASSUME ControllerConnected(Interface) PROVE Kept
  <2>1. /\ nft' \in {nft, TunnelOnly(Interface)}
        /\ killSwitch' \in {killSwitch, TunnelEstablished(killSwitch, Interface)}
    BY <1>4, Zenon DEF ControllerConnected, Apply, Command
  <2> QED BY <1>0, <2>1, Establishing, InterfaceAssumption, Policies DEF Filtering
<1>5. ASSUME NEW result,
             \/ ControllerReturn(result) \/ ControllerConnectFailed
             \/ ControllerUndone(result) \/ ControllerDisconnected(result)
      PROVE  Kept
  BY <1>1, <1>5, Zenon DEF ControllerReturn, ControllerConnectFailed, ControllerUndone,
     ControllerDisconnected
<1>6. ASSUME UNCHANGED controllerVars PROVE Kept
  BY <1>1, <1>6 DEF controllerVars
<1> HIDE DEF Kept
<1>7. CASE \/ Disconnect \/ \E c \in BOOLEAN : Connect(c)
           \/ \E result \in {"ok", "err"} : ConnectionReturn(result)
  BY <1>2, <1>6, <1>7, Zenon DEF Connect, Disconnect, ConnectionReturn
<1>8. CASE ConnectFailed \/ ConnectConfiguresDns \/ ConfigureDone
           \/ ConfigureNeedsRevert \/ ConfigureFailed
  BY <1>3, <1>5, <1>6, <1>8, Zenon DEF ConnectFailed, ConnectConfiguresDns, ConfigureDone,
     ConfigureNeedsRevert, ConfigureFailed
<1>9. CASE RetryRevert \/ RetryFailed \/ RetryDone \/ UndoReturned
           \/ RevertFailed \/ RevertDone \/ OperationReturned
  BY <1>3, <1>5, <1>6, <1>9, Zenon DEF RetryRevert, RetryFailed, RetryDone, UndoReturned,
     RevertFailed, RevertDone, OperationReturned
<1>10. CASE TransportConnect \/ TransportDisconnect \/ TransportStep
            \/ ResolverStep \/ ContextStops \/ LinkLost
  BY <1>6, <1>10, Zenon DEF TransportConnect, TransportDisconnect, TransportStep,
     ResolverStep, ContextStops, LinkLost
<1>11. CASE TransportConnectFailed \/ TransportConnected \/ TransportDisconnected
  BY <1>4, <1>5, <1>11, Zenon
  DEF TransportConnectFailed, TransportConnected, TransportDisconnected
<1>12. CASE UNCHANGED connectionVars
  BY <1>6, <1>12 DEF connectionVars
<1> QED BY <1>7, <1>8, <1>9, <1>10, <1>11, <1>12 DEF ConnectionStep

(* A start: blocking is in force when the constructor returned.            *)
LEMMA StartRuns ==
  ASSUME Inv, NEW alwaysOn \in BOOLEAN, Start(alwaysOn)
  PROVE  RunInv'
<1>1. main' \in {"started", "off"} /\ exit' \in {"none", "err"} /\ call' = "idle"
  BY DEF Start, ConnectionNew
<1>2. main' = "started" => Filtering'
  <2>1. Enable(New(alwaysOn)).policy = BlockNonTunnel
    BY NewKillSwitch, Methods, Zenon
  <2> QED BY <2>1, Policies, Zenon
          DEF Start, ConnectionNew, ControllerNew, Apply, Command, Filtering
<1> QED BY <1>1, <1>2, Zenon DEF RunInv, CallsOfRun, ExitOkMeansClean

(* A step inside an operation.                                             *)
LEMMA OperationRuns ==
  ASSUME Inv, Order, RunInv, ProcessTypes, ConnectionStep, main # "off", UNCHANGED <<main, exit>>
  PROVE  RunInv'
<1>0. exit' # "ok" /\ ExitOkMeansClean'
  BY Zenon DEF RunInv, ExitOkMeansClean
<1>1. /\ Filtering => Filtering'
      /\ killSwitch'.alwaysOn = killSwitch.alwaysOn
  BY FilteringKept, Zenon
<1>2. CASE OperationReturned
  <2>1. PICK result \in {"ok", "err"} :
          call' = result /\ controllerPc = result /\ UNCHANGED <<transportMayBeActive, nft>>
    BY <1>2 DEF OperationReturned, ControllerReturn
  <2>2. call \in {"disconnect", "disable"} /\ UNCHANGED dnsActive
    BY <1>2 DEF OperationReturned, dnsVars
  <2>3. CallsOfRun'
    BY <2>1, <2>2, Zenon DEF RunInv, CallsOfRun
  <2>4. main = "disconnecting" /\ call' = "ok" => ~transportMayBeActive /\ ~dnsActive
    BY <2>1, <2>2, Zenon DEF RunInv, CallsOfRun, Order, DnsOrder, PolicyOrder
  <2>5. main = "releasing" /\ call' = "ok" => nft = Disabled
    BY <2>1, <2>2, Zenon DEF RunInv, CallsOfRun, Order, PolicyOrder
  <2> QED BY <1>0, <1>1, <2>1, <2>2, <2>3, <2>4, <2>5, Zenon DEF RunInv
<1>3. CASE /\ call \in {"connect", "configure", "retry", "undo"}
           /\ call' \in {"connect", "configure", "retry", "undo", "ok", "err"}
  <2>1. main = "connecting"
    BY <1>3, Zenon DEF ProcessTypes, Mains, RunInv, CallsOfRun
  <2> QED BY <1>0, <1>1, <1>3, <2>1, Zenon DEF RunInv, CallsOfRun
<1>4. CASE /\ call \in {"revert", "disconnect"}
           /\ call' \in {"revert", "disconnect", "err"}
  <2>1. main = "disconnecting"
    BY <1>4, Zenon DEF ProcessTypes, Mains, RunInv, CallsOfRun
  <2> QED BY <1>0, <1>1, <1>4, <2>1, Zenon DEF RunInv, CallsOfRun
<1> QED BY <1>2, <1>3, <1>4, StepCalls

(* The steps of the main thread between operations.                        *)
LEMMA MainRuns ==
  ASSUME Inv, Order, RunInv, ProcessTypes,
         \/ InstallHandler \/ MainConnect \/ MainConnected \/ MainConnectFailed
         \/ MainRelease \/ MainReleaseIgnored
         \/ MainDisconnect \/ MainDisconnected \/ MainReleased
  PROVE  RunInv'
<1> USE DEF Exit
<1>1. main # "off" /\ exit # "ok"
  BY Zenon DEF InstallHandler, MainConnect, MainConnected, MainConnectFailed, MainRelease,
     MainReleaseIgnored, MainDisconnect, MainDisconnected, MainReleased, RunInv
<1>2. ASSUME exit' # "ok" PROVE ExitOkMeansClean'
  BY <1>2 DEF ExitOkMeansClean
<1>3. ASSUME NEW result \in {"ok", "err"}, ConnectionReturn(result)
      PROVE  /\ call = result /\ call' = "idle" /\ UNCHANGED <<controllerVars, dnsVars>>
             /\ OwnsNothing' = OwnsNothing
             /\ Filtering' = Filtering
             /\ UNCHANGED <<nft, killSwitch, transportMayBeActive, dnsActive>>
  BY <1>3, Zenon DEF ConnectionReturn, tunnelVars, kernelVars, OwnsNothing, OwnRules,
     controllerVars, dnsVars, Filtering
<1>4. CASE InstallHandler
  <2>1. UNCHANGED <<call, nft, killSwitch, transportMayBeActive, dnsActive>>
    BY <1>4, Zenon DEF InstallHandler, connectionVars, controllerVars, dnsVars
  <2> QED BY <1>1, <1>2, <1>4, <2>1, Zenon DEF InstallHandler, RunInv, CallsOfRun, Filtering
<1>5. CASE MainConnect
  <2>1. Filtering' /\ call' = "connect"
    BY <1>5, FilteringKept, Zenon DEF MainConnect, Connect, RunInv, ProcessTypes
  <2> QED BY <1>1, <1>2, <1>5, <2>1, Zenon DEF MainConnect, RunInv, CallsOfRun
<1>6. CASE MainConnected
  BY <1>1, <1>2, <1>3, <1>6, Zenon DEF MainConnected, RunInv, CallsOfRun
<1>7. CASE MainConnectFailed
  BY <1>1, <1>2, <1>3, <1>7, Zenon DEF MainConnectFailed, RunInv, CallsOfRun
<1>8. CASE MainRelease
  <2>1. call' = "disable" /\ UNCHANGED <<main, exit, transportMayBeActive, dnsActive>>
    BY <1>8, Zenon DEF MainRelease, DisableFiltering, ControllerDisable, dnsVars
  <2>2. killSwitch' \in {killSwitch, Disable(killSwitch)}
    BY <1>8, Zenon DEF MainRelease, DisableFiltering, ControllerDisable
  <2>3. killSwitch'.alwaysOn = killSwitch.alwaysOn
    BY <2>2, Methods, Zenon DEF Inv, ConnectionTypeOK, ControllerTypeOK
  <2> QED BY <1>1, <1>2, <1>8, <2>1, <2>3, Zenon DEF MainRelease, RunInv, CallsOfRun
<1>9. CASE MainReleaseIgnored
  BY <1>1, <1>2, <1>9, Zenon DEF MainReleaseIgnored, RunInv, CallsOfRun
<1>10. CASE MainDisconnect
  <2>1. Filtering' /\ call' = "revert"
    BY <1>10, FilteringKept, Zenon DEF MainDisconnect, Disconnect, RunInv
  <2> QED BY <1>1, <1>2, <1>10, <2>1, Zenon DEF MainDisconnect, RunInv, CallsOfRun
<1>11. CASE MainDisconnected
  <2>1. CASE ConnectionReturn("err") /\ Exit("err")
    BY <1>2, <2>1, Zenon DEF RunInv, CallsOfRun
  <2>2. CASE killSwitch.alwaysOn /\ ConnectionReturn("ok") /\ Exit("ok")
    <3>1. OwnsNothing' /\ ~dnsActive' /\ nft' # Disabled /\ killSwitch'.alwaysOn
      BY <1>3, <1>11, <2>2, Zenon
      DEF MainDisconnected, RunInv, Filtering, Inv, Core, FlagCovers
    <3> QED BY <2>2, <3>1, Zenon DEF RunInv, CallsOfRun, ExitOkMeansClean
  <2>3. CASE ~killSwitch.alwaysOn /\ ConnectionReturn("ok") /\ main' = "releasing"
             /\ UNCHANGED exit
    BY <1>1, <1>2, <1>3, <1>11, <2>3, Zenon DEF MainDisconnected, RunInv, CallsOfRun
  <2> QED BY <1>11, <2>1, <2>2, <2>3, Zenon DEF MainDisconnected
<1>12. CASE MainReleased
  <2>1. PICK result \in {"ok", "err"} : ConnectionReturn(result) /\ Exit(result)
    BY <1>12 DEF MainReleased
  <2>2. exit' = "ok" => /\ OwnsNothing' /\ ~dnsActive'
                        /\ nft' = Disabled /\ ~killSwitch'.alwaysOn
    BY <1>3, <1>12, <2>1, Zenon DEF MainReleased, RunInv, Inv, Core, FlagCovers
  <2> QED BY <2>1, <2>2, Zenon DEF RunInv, CallsOfRun, ExitOkMeansClean
<1> QED BY <1>4, <1>5, <1>6, <1>7, <1>8, <1>9, <1>10, <1>11, <1>12

(* The order inside an operation and the phases of a run, through all runs.*)
LEMMA RunStep ==
  ASSUME ClientInv, Order, RunInv, [ClientNext]_clientVars
  PROVE  Order' /\ RunInv'
<1>0. Inv /\ ProcessTypes
  BY DEF ClientInv
<1>1. Order'
  <2>1. (JustBuilt => Order)'
    BY FreshOrder, PTL
  <2>2. ASSUME Signal PROVE Order'
    BY <2>2, Zenon DEF Signal, Order, CallOrder, DnsOrder, PolicyOrder, controllerVars,
       tunnelVars, adapterVars, dnsVars
  <2> QED BY <1>0, <2>1, <2>2, ClientSteps, StartBuilds, OrderStep
<1> SUFFICES RunInv'
  BY <1>1
<1>2. ASSUME UNCHANGED <<main, exit, call, nft, killSwitch, transportMayBeActive,
                         dnsActive, kernelRules>>,
             link' \in {link, "absent"}
      PROVE  RunInv'
  <2>1. OwnsNothing => OwnsNothing'
    BY <1>2 DEF OwnsNothing, OwnRules
  <2>2. Filtering' = Filtering
    BY <1>2 DEF Filtering
  <2> QED BY <1>2, <2>1, <2>2, Zenon DEF RunInv, CallsOfRun, ExitOkMeansClean
<1>3. CASE \E alwaysOn \in BOOLEAN : Start(alwaysOn)
  BY <1>0, <1>3, StartRuns
<1>4. CASE MainStep
  BY <1>0, <1>4, MainRuns, OperationRuns DEF MainStep
<1> USE DEF controllerVars, tunnelVars, kernelVars, dnsVars
<1>5. CASE Signal
  BY <1>2, <1>5, Zenon DEF Signal
<1>6. CASE Crash
  BY <1>6, Zenon DEF Crash, RunInv, CallsOfRun, ExitOkMeansClean
<1>7. CASE ContextStops /\ UNCHANGED <<main, exit, cancelled, wakeup>>
  BY <1>2, <1>7, Zenon DEF ContextStops
<1>8. CASE LinkLost /\ UNCHANGED <<main, exit, cancelled, wakeup>>
  BY <1>2, <1>8, Zenon DEF LinkLost, RemoveLink
<1>9. CASE UNCHANGED clientVars
  BY <1>2, <1>9, Zenon DEF clientVars, connectionVars
<1> QED BY <1>3, <1>4, <1>5, <1>6, <1>7, <1>8, <1>9, Zenon DEF ClientNext, Environment

(* They hold from the first start on.                                      *)
LEMMA RunHolds == ClientSpec => [](Order /\ RunInv)
<1>1. ClientInit => Order /\ RunInv
  <2> SUFFICES ASSUME ClientInit PROVE Order /\ RunInv
    OBVIOUS
  <2>1. /\ controllerPc = "idle" /\ call = "idle" /\ tunnelPc = "idle" /\ dnsPc = "idle"
        /\ dnsActive = FALSE /\ main = "off" /\ exit = "none"
    BY DEF ClientInit, ConnectionFresh, AdapterFresh, DnsFresh
  <2> QED BY <2>1, Zenon DEF Order, CallOrder, DnsOrder, PolicyOrder, DnsSettings, RunInv,
             CallsOfRun, ExitOkMeansClean
<1>2. ClientInv /\ (Order /\ RunInv) /\ [ClientNext]_clientVars => (Order /\ RunInv)'
  BY RunStep
<1> QED BY <1>1, <1>2, ClientInvariance, PTL DEF ClientSpec

(***************************************************************************)
(* A run that exits with success left no interface, no rule and no DNS     *)
(* setting owned, and filtering on exactly when it is always-on: what      *)
(* run_until_shutdown returns is what it did, late failures included.      *)
(***************************************************************************)
THEOREM SuccessMeansClean == ClientSpec => []ExitOkMeansClean
<1>1. Order /\ RunInv => ExitOkMeansClean
  BY DEF RunInv
<1> QED BY <1>1, RunHolds, PTL

(* From connect to the end of disconnect some filtering is in force.       *)
THEOREM SessionIsFiltered == ClientSpec => []FilteredWhileUp
<1>1. Order /\ RunInv => FilteredWhileUp
  BY DEF RunInv, Filtering, FilteredWhileUp
<1> QED BY <1>1, RunHolds, PTL

(***************************************************************************)
(* Only the release step of a run that is not always-on, with nothing left *)
(* to tear down, lifts filtering: no crash, signal, failed start or lost   *)
(* interface does.                                                         *)
(***************************************************************************)
THEOREM OnlyTheReleaseLifts == ClientSpec => OnlyReleaseLifts
<1> DEFINE Lift == nft # Disabled /\ nft' = Disabled
                     => /\ main \in {"releasing", "releasing_failed"}
                        /\ ~killSwitch.alwaysOn
                        /\ ~transportMayBeActive
<1>1. ASSUME ClientInv, RunInv, ClientNext PROVE Lift
  <2> SUFFICES ASSUME nft # Disabled, nft' = Disabled
               PROVE  /\ main \in {"releasing", "releasing_failed"}
                      /\ ~killSwitch.alwaysOn
                      /\ ~transportMayBeActive
    OBVIOUS
  <2>0. Inv /\ main \in Mains
    BY <1>1 DEF ClientInv, ProcessTypes
  <2>1. ASSUME NEW alwaysOn \in BOOLEAN, Start(alwaysOn) PROVE FALSE
    BY <2>0, <2>1, StartBuilds, Policies
  <2>2. ~Signal /\ ~Crash /\ ~InstallHandler /\ ~ContextStops /\ ~LinkLost
    BY Zenon DEF Signal, Crash, InstallHandler, ContextStops, LinkLost, connectionVars,
       controllerVars
  <2>3. ASSUME NEW result \in {"ok", "err"}, ConnectionReturn(result) PROVE FALSE
    BY <2>3 DEF ConnectionReturn, controllerVars
  <2>4. ~MainConnected /\ ~MainConnectFailed /\ ~MainReleaseIgnored
        /\ ~MainDisconnected /\ ~MainReleased
    BY <2>3, Zenon DEF MainConnected, MainConnectFailed, MainReleaseIgnored, MainDisconnected,
       MainReleased
  <2>5. ~MainConnect /\ ~MainDisconnect
    <3>1. MainConnect => nft' \in {nft, BlockNonTunnel}
      BY Zenon DEF MainConnect, Connect, ControllerConnect, Apply, Command
    <3>2. MainDisconnect => nft' = nft
      BY DEF MainDisconnect, Disconnect, controllerVars
    <3> QED BY <3>1, <3>2, Policies
  <2>6. CASE MainRelease
    BY <1>1, <2>6, Zenon
    DEF MainRelease, DisableFiltering, ControllerDisable, DisableRefused, RunInv
  <2>7. CASE main # "off" /\ ConnectionStep
    <3>1. main \in {"releasing", "releasing_failed"}
      BY <1>1, <2>0, <2>7, FilteringKept, Zenon DEF RunInv, Filtering, Mains
    <3>2. ~transportMayBeActive
      BY <2>0, <2>7, PolicySteps, Policies DEF ApiNext
    <3> QED BY <1>1, <3>1, <3>2 DEF RunInv
  <2> QED BY <1>1, <2>1, <2>2, <2>4, <2>5, <2>6, <2>7, Zenon DEF ClientNext, MainStep, Environment
<1>2. ClientInv /\ (Order /\ RunInv) /\ [ClientNext]_clientVars => [Lift]_clientVars
  BY <1>1
<1> QED BY <1>2, RunHolds, ClientInvariance, PTL DEF ClientSpec, OnlyReleaseLifts

=============================================================================

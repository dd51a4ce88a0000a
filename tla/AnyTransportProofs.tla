------------------------- MODULE AnyTransportProofs -------------------------
(***************************************************************************)
(* ConnectionController keeps the fail-secure promise over every transport *)
(* that obeys the Transport contract, for every set of interfaces and      *)
(* session ids, with or without late command failures.                     *)
(***************************************************************************)
EXTENDS AnyTransport, KillSwitchProofs, TLAPS

-----------------------------------------------------------------------------
(***************************************************************************)
(* The strengthening: what is owned is covered by the flag, the flag keeps *)
(* both the kernel's policy and the believed one from being Disabled.      *)
(***************************************************************************)
Covered ==
  /\ owned => transportMayBeActive
  /\ transportMayBeActive => nft # Disabled /\ killSwitch.policy # Disabled
  /\ controllerPc \in {"connect", "undo"} => transportMayBeActive
  /\ killSwitch.alwaysOn => nft # Disabled /\ killSwitch.policy # Disabled

Inv == TypeOK /\ Covered

(* The controller's variables keep their types, and Disabled keeps away.   *)
LEMMA InvInit == Init => Inv
BY NewKillSwitch, Policies, Zenon DEF Init, Inv, TypeOK, Covered, ControllerTypeOK, ControllerPcs

(* Every call and return of controller and transport keeps the flag over   *)
(* what is owned, and Disabled away while it is set or always-on.          *)
LEMMA InvStep == Inv /\ [Next]_vars => Inv'
<1> SUFFICES ASSUME Inv, [Next]_vars PROVE Inv'
  OBVIOUS
<1> USE DEF Inv, TypeOK, Covered, ControllerTypeOK, ControllerPcs, controllerVars
<1>1. CASE TransportWorks
  BY <1>1, Zenon DEF TransportWorks, TransportCalled
<1>2. CASE TransportConnectReturns
  <2>1. CASE ControllerConnectFailed /\ UNCHANGED owned
    BY <2>1 DEF ControllerConnectFailed
  <2>2. ASSUME NEW id \in SessionIds, ControllerConnected(id), UNCHANGED owned
        PROVE  Inv'
    <3>1. CASE MayEstablish(killSwitch, id) /\ Apply(TunnelOnly(id), TRUE)
               /\ killSwitch' = TunnelEstablished(killSwitch, id)
               /\ controllerPc' = "ok"
      BY <2>2, <3>1, Policies, Establishing
      DEF MayEstablish, ControllerConnected, Apply, Command
    <3>2. CASE MayEstablish(killSwitch, id) /\ Apply(TunnelOnly(id), FALSE)
               /\ controllerPc' = "undo" /\ UNCHANGED killSwitch
      BY <2>2, <3>2, Policies DEF MayEstablish, ControllerConnected, Apply, Command
    <3>3. CASE controllerPc' = "undo" /\ UNCHANGED <<killSwitch, nft>>
      BY <2>2, <3>3 DEF ControllerConnected
    <3> QED BY <2>2, <3>1, <3>2, <3>3, Zenon DEF ControllerConnected
  <2> QED BY <1>2, <2>1, <2>2 DEF TransportConnectReturns
<1>3. CASE TransportDisconnectReturns
  BY <1>3 DEF TransportDisconnectReturns, ControllerUndone, ControllerDisconnected
<1>4. CASE CallerCalls
  <2>1. CASE ControllerConnect /\ UNCHANGED owned
    <3>1. CASE /\ nft' = BlockNonTunnel
               /\ killSwitch' = Enable(killSwitch)
               /\ transportMayBeActive' = TRUE
               /\ controllerPc' = "connect"
      BY <2>1, <3>1, Policies, Methods
    <3>2. CASE /\ nft' \in {nft, BlockNonTunnel}
               /\ controllerPc' = "err"
               /\ UNCHANGED <<killSwitch, transportMayBeActive>>
      BY <2>1, <3>2, Policies
    <3> QED BY <2>1, <3>1, <3>2, Zenon DEF ControllerConnect, Apply, Command
  <2>2. CASE ControllerDisconnect /\ UNCHANGED owned
    BY <2>2, Policies, Methods DEF ControllerDisconnect, Apply, Command
  <2>3. CASE ControllerDisable /\ UNCHANGED owned
    BY <2>3, Policies, Methods
    DEF ControllerDisable, DisableRefused, MayDisable, Apply, Command
  <2>4. CASE /\ \E result \in {"ok", "err"} : ControllerReturn(result)
             /\ UNCHANGED owned
    BY <2>4 DEF ControllerReturn
  <2> QED BY <1>4, <2>1, <2>2, <2>3, <2>4 DEF CallerCalls
<1>5. CASE UNCHANGED vars
  BY <1>5 DEF vars
<1> QED BY <1>1, <1>2, <1>3, <1>4, <1>5 DEF Next

(* The strengthening holds in every reachable state.                       *)
LEMMA Invariance == Spec => []Inv
<1>1. Init => Inv
  BY InvInit
<1>2. Inv /\ [Next]_vars => Inv'
  BY InvStep
<1> QED BY <1>1, <1>2, PTL DEF Spec

(* The controller's state keeps its type; in particular tunnel_established *)
(* admits only names valid_interface accepts.                              *)
THEOREM ControllerTypes == Spec => []TypeOK
<1>1. Inv => TypeOK
  BY DEF Inv
<1> QED BY <1>1, Invariance, PTL

(* KillSwitch::disable's refusal is enough: whatever the caller and the    *)
(* transport do, an always-on controller never lifts filtering.            *)
THEOREM AlwaysOn == Spec => []AlwaysOnNeverReleased
<1>1. Inv => AlwaysOnNeverReleased
  BY DEF Inv, Covered, AlwaysOnNeverReleased
<1> QED BY <1>1, Invariance, PTL

-----------------------------------------------------------------------------
(* A step of the controller or of its transport is a step of the promise.  *)
LEMMA PromiseStep ==
  Inv /\ Inv' /\ [Next]_vars => [Promise!FailSecureNext]_<<nft.mode, owned>>
<1> SUFFICES ASSUME Inv, Inv', [Next]_vars
             PROVE  [Promise!FailSecureNext]_<<nft.mode, owned>>
  OBVIOUS
<1> USE DEF Promise!FailSecureNext
<1>0. /\ nft \in TrafficPolicy
      /\ owned \in BOOLEAN
      /\ owned' \in BOOLEAN
      /\ nft.mode = "Disabled" => ~transportMayBeActive /\ ~owned
      /\ controllerPc \in {"connect", "undo"} => nft.mode # "Disabled"
  BY Policies DEF Inv, TypeOK, ControllerTypeOK, Covered
<1>1. CASE TransportWorks
  <2>1. nft' = nft
    BY <1>1 DEF TransportWorks, controllerVars
  <2>2. CASE nft.mode = "Disabled"
    <3>1. owned' = owned
      BY <1>0, <1>1, <2>2, Zenon DEF TransportWorks, TransportCalled
    <3> QED BY <2>1, <3>1
  <2>3. CASE nft.mode # "Disabled"
    <3>1. Promise!Work
      BY <1>0, <2>1, <2>3 DEF Promise!Work
    <3> QED BY <3>1
  <2> QED BY <2>2, <2>3
<1>2. CASE TransportConnectReturns
  <2>1. CASE ControllerConnectFailed /\ UNCHANGED owned
    BY <2>1 DEF ControllerConnectFailed
  <2>2. ASSUME NEW id \in SessionIds, ControllerConnected(id), UNCHANGED owned
        PROVE  UNCHANGED <<nft.mode, owned>> \/ Promise!Admit
    <3>1. nft' = nft \/ nft' = TunnelOnly(id)
      BY <2>2 DEF ControllerConnected, Apply, Command
    <3>2. nft.mode # "Disabled"
      BY <1>0, <2>2 DEF ControllerConnected
    <3>3. CASE nft' = TunnelOnly(id)
      <4>1. nft'.mode = "TunnelOnly"
        BY <3>3, Policies
      <4> QED BY <2>2, <3>2, <4>1 DEF Promise!Admit
    <3> QED BY <2>2, <3>1, <3>3
  <2> QED BY <1>2, <2>1, <2>2 DEF TransportConnectReturns
<1>3. CASE TransportDisconnectReturns
  BY <1>3 DEF TransportDisconnectReturns, ControllerUndone, ControllerDisconnected
<1>4. CASE CallerCalls
  <2>0. UNCHANGED owned
    BY <1>4 DEF CallerCalls
  <2>1. ASSUME nft' = BlockNonTunnel PROVE Promise!Arm
    BY <2>0, <2>1, Policies DEF Promise!Arm
  <2>2. ASSUME nft' = nft PROVE UNCHANGED <<nft.mode, owned>>
    BY <2>0, <2>2
  <2>3. ASSUME nft' = Disabled, ~transportMayBeActive PROVE Promise!Release
    <3>1. ~owned
      BY <2>3 DEF Inv, Covered
    <3> QED BY <2>0, <2>3, <3>1, Policies DEF Promise!Release
  <2>4. CASE ControllerConnect
    <3>1. nft' \in {nft, BlockNonTunnel}
      BY <2>4 DEF ControllerConnect, Apply, Command
    <3> QED BY <2>1, <2>2, <3>1
  <2>5. CASE ControllerDisconnect
    <3>1. nft' \in {nft, TunnelLost(killSwitch).policy}
      BY <2>5 DEF ControllerDisconnect, Apply, Command
    <3>2. CASE killSwitch.policy = Disabled
      <4>1. nft' \in {nft, Disabled}
        BY <3>1, <3>2, Methods DEF Inv, TypeOK, ControllerTypeOK
      <4>2. ~transportMayBeActive
        BY <3>2 DEF Inv, Covered
      <4> QED BY <2>2, <2>3, <4>1, <4>2
    <3>3. CASE killSwitch.policy # Disabled
      <4>1. nft' \in {nft, BlockNonTunnel}
        BY <3>1, <3>3, Methods DEF Inv, TypeOK, ControllerTypeOK
      <4> QED BY <2>1, <2>2, <4>1
    <3> QED BY <3>2, <3>3
  <2>6. CASE ControllerDisable
    <3>1. nft' = nft \/ (nft' = Disabled /\ ~transportMayBeActive)
      BY <2>6 DEF ControllerDisable, DisableRefused, Apply, Command
    <3> QED BY <2>2, <2>3, <3>1
  <2>7. CASE \E result \in {"ok", "err"} : ControllerReturn(result)
    <3>1. nft' = nft
      BY <2>7 DEF ControllerReturn
    <3> QED BY <2>2, <3>1
  <2> QED BY <1>4, <2>4, <2>5, <2>6, <2>7 DEF CallerCalls
<1>5. CASE UNCHANGED vars
  BY <1>5 DEF vars
<1> QED BY <1>1, <1>2, <1>3, <1>4, <1>5 DEF Next

(* Over every transport that obeys its contract, the controller's firewall *)
(* ordering implements the fail-secure promise.                            *)
THEOREM FailSecureRefinement == Spec => ImplementsFailSecure
<1>1. Init => Promise!FailSecureInit
  BY NewKillSwitch, Policies DEF Init, Promise!FailSecureInit
<1>2. Inv /\ Inv' /\ [Next]_vars => [Promise!FailSecureNext]_<<nft.mode, owned>>
  BY PromiseStep
<1> QED BY <1>1, <1>2, Invariance, PTL
       DEF Spec, ImplementsFailSecure, Promise!FailSecureSpec

=============================================================================

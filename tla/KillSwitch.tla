----------------------------- MODULE KillSwitch -----------------------------
(***************************************************************************)
(* The platform-neutral kill-switch state machine                          *)
(* (core/killswitch/src/lib.rs).  A kill switch is the record              *)
(* [alwaysOn, policy]; its methods are operators that return the record    *)
(* after the call.  A method that can refuse has a companion predicate for *)
(* the calls it accepts; a refused call leaves the record as it was.       *)
(***************************************************************************)

CONSTANTS
  ValidInterfaces,  \* the interface names valid_interface accepts
  NoInterface       \* the interface field of a policy that names none

ASSUME NoInterfaceAssumption == NoInterface \notin ValidInterfaces

Disabled == [mode |-> "Disabled", interface |-> NoInterface]
BlockNonTunnel == [mode |-> "BlockNonTunnel", interface |-> NoInterface]
TunnelOnly(interface) == [mode |-> "TunnelOnly", interface |-> interface]

TrafficPolicy ==
  {Disabled, BlockNonTunnel} \cup {TunnelOnly(i) : i \in ValidInterfaces}

KillSwitchRecord == [alwaysOn : BOOLEAN, policy : TrafficPolicy]

New(alwaysOn) ==
  [alwaysOn |-> alwaysOn,
   policy   |-> IF alwaysOn THEN BlockNonTunnel ELSE Disabled]

Enable(ks) == [ks EXCEPT !.policy = BlockNonTunnel]

(* Mutant: disable forgets the always-on check.                            *)
MayDisableAlways(ks) == TRUE

MayDisable(ks) == ~ks.alwaysOn
Disable(ks) == [ks EXCEPT !.policy = Disabled]

MayEstablish(ks, interface) ==
  /\ ks.policy # Disabled
  /\ interface \in ValidInterfaces
TunnelEstablished(ks, interface) == [ks EXCEPT !.policy = TunnelOnly(interface)]

(* Mutants: tunnel_lost leaves the tunnel admitted, or lifts filtering.    *)
TunnelLostIgnored(ks) == ks
TunnelLostDisables(ks) == IF ks.alwaysOn THEN Enable(ks) ELSE Disable(ks)

TunnelLost(ks) ==
  IF ks.policy = Disabled THEN ks ELSE [ks EXCEPT !.policy = BlockNonTunnel]

=============================================================================

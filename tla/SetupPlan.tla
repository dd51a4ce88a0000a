------------------------------ MODULE SetupPlan ------------------------------
(***************************************************************************)
(* The commands LinuxWireGuardBackend issues after `link add` for a        *)
(* profile: configure, then install_routes (core/transport/src/linux.rs).  *)
(* A profile is the number of its tunnel addresses and the list of its     *)
(* allowed IPs, of which only the family and a zero prefix length matter.  *)
(***************************************************************************)
EXTENDS Naturals, Sequences, SequencesExt

Families == {"-4", "-6"}
PolicyRule == {"NotFirewallMark", "SuppressDefault"} \X Families

(* A command on the interface, issued after a context.check().             *)
OnLink(none) == [rule |-> none, checked |-> TRUE]

RuleAdd(kind, family) == [rule |-> <<kind, family>>, checked |-> FALSE]

(* wg set, one `ip address add` per address, `ip link set up`              *)
Configure(addresses, none) == [n \in 1 .. addresses + 2 |-> OnLink(none)]

(* A default route goes to its own table behind two policy rules.          *)
RouteCommands(allowedIp, none) ==
  IF allowedIp.default
  THEN << OnLink(none),
          RuleAdd("NotFirewallMark", allowedIp.family),
          RuleAdd("SuppressDefault", allowedIp.family) >>
  ELSE << OnLink(none) >>

InstallRoutes(allowedIps, none) ==
  FlattenSeq([k \in DOMAIN allowedIps |-> RouteCommands(allowedIps[k], none)])

SetupOf(addresses, allowedIps, none) ==
  Configure(addresses, none) \o InstallRoutes(allowedIps, none)

=============================================================================

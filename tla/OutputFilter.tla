---------------------------- MODULE OutputFilter ----------------------------
(***************************************************************************)
(* NftablesBackend (core/killswitch/src/linux.rs): the transaction a       *)
(* policy is rendered to, what it makes of the table cyberia_vpn, and      *)
(* which packets of the host get out.  Backends with different endpoints   *)
(* take turns.  The kernel (table, tracked) is external.                   *)
(***************************************************************************)
EXTENDS KillSwitch

CONSTANTS
  Endpoints,      \* the configured peers: an address and a UDP port
  Elsewhere,      \* any other destination, TCP to those addresses included
  Loopback,       \* the interface lo
  Uplink,         \* an interface that is no tunnel
  BadInterface    \* a name valid_interface refuses

VARIABLES
  table,     \* [exists, chain, rules] of the table cyberia_vpn
  tracked,   \* the connections conntrack knows, by their packets
  applied    \* ghost: the policy and endpoint of the latest transaction

filterVars == <<table, tracked, applied>>

Packets == [oif : ValidInterfaces \cup {Loopback, Uplink}, to : Endpoints \cup {Elsewhere}]
NoTable == [exists |-> FALSE, chain |-> FALSE, rules |-> {}]

(* Rules of the output chain, each with the verdict accept.                *)
OifName(interface) == [match |-> "oifname", value |-> interface]
UdpTo(endpoint) == [match |-> "daddr", value |-> endpoint]
CtEstablished == [match |-> "ct", value |-> "established"]

FilterInit ==
  /\ table = NoTable
  /\ tracked = {}
  /\ applied = [policy |-> Disabled, endpoint |-> Elsewhere]

-----------------------------------------------------------------------------
(* What the statements of a transaction do: "add table", "flush table",    *)
(* which removes the rules of its chains, and "add chain" with its rules.  *)
AddTable(t) == [t EXCEPT !.exists = TRUE]
Flush(t) == [t EXCEPT !.rules = {}]
AddChain(t, rules) == [t EXCEPT !.chain = TRUE, !.rules = @ \cup rules]

Rules(endpoint, policy) ==
  {OifName(Loopback), UdpTo(endpoint)}
    \cup (IF policy.mode = "TunnelOnly" THEN {OifName(policy.interface)} ELSE {})

(* Mutant: established connections are accepted.                           *)
RenderEstablished(t, endpoint, policy) ==
  LET flushed == Flush(AddTable(t))
  IN IF policy = Disabled THEN NoTable
     ELSE AddChain(flushed, Rules(endpoint, policy) \cup {CtEstablished})

(* NftablesConfig::render: the transaction, as a function on tables.  The  *)
(* last statement of a disabled policy is "delete table".                  *)
Render(t, endpoint, policy) ==
  LET flushed == Flush(AddTable(t))
  IN IF policy = Disabled THEN NoTable
     ELSE AddChain(flushed, Rules(endpoint, policy))

MayRender(policy) == policy.mode = "TunnelOnly" => policy.interface \in ValidInterfaces

(* NftablesBackend::apply.  One that render refuses or nft rejects changes *)
(* nothing; one whose exit status is lost has this effect all the same.    *)
Apply(endpoint, policy) ==
  /\ MayRender(policy)
  /\ table' = Render(table, endpoint, policy)
  /\ applied' = [policy |-> policy, endpoint |-> endpoint]
  /\ UNCHANGED tracked

-----------------------------------------------------------------------------
Matches(rule, p) ==
  \/ rule.match = "oifname" /\ rule.value = p.oif
  \/ rule.match = "daddr" /\ rule.value = p.to
  \/ rule.match = "ct" /\ p \in tracked

(* The output hook: a chain with policy drop, or no chain.                 *)
Accepted(p) == table.chain => \E rule \in table.rules : Matches(rule, p)

Send(p) ==
  /\ Accepted(p)
  /\ tracked' = tracked \cup {p}
  /\ UNCHANGED <<table, applied>>

FilterNext ==
  \/ \E e \in Endpoints, policy \in TrafficPolicy \cup {TunnelOnly(BadInterface)} :
       Apply(e, policy)
  \/ \E p \in Packets : Send(p)

FilterSpec == FilterInit /\ [][FilterNext]_filterVars

-----------------------------------------------------------------------------
(* What a policy is meant to let out.                                      *)
Admitted(p) ==
  \/ applied.policy = Disabled
  \/ p.oif = Loopback
  \/ p.to = applied.endpoint
  \/ applied.policy = TunnelOnly(p.oif)

(***************************************************************************)
(* The latest policy alone decides what gets out, in both directions: no   *)
(* connection opened before, under no policy, another tunnel or another    *)
(* endpoint, gets a further packet out (tests/linux_nftables.rs asserts    *)
(* that render has no rule for established connections), and nothing the   *)
(* policy admits is lost to rules or a chain of an earlier one.  The       *)
(* contract document disagrees: see EstablishedFlowsPass.                  *)
(***************************************************************************)
PolicyDecidesAlone == \A p \in Packets : Accepted(p) <=> Admitted(p)

(***************************************************************************)
(* "Blocking permits loopback, established flows and the configured UDP    *)
(* peer endpoint" (docs/architecture/component-contracts.md): a connection *)
(* that got out before goes on under BlockNonTunnel.  Not so: render has   *)
(* no rule for established connections.                                    *)
(***************************************************************************)
EstablishedFlowsPass ==
  applied.policy = BlockNonTunnel => \A p \in tracked : Accepted(p)
=============================================================================

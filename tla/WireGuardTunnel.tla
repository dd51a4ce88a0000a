--------------------------- MODULE WireGuardTunnel ---------------------------
(***************************************************************************)
(* WireGuardAdapter over LinuxWireGuardBackend                             *)
(* (core/transport/src/wireguard.rs, core/transport/src/linux.rs): the     *)
(* transport of the Linux client, one ip or wg command per step.           *)
(*                                                                         *)
(* Setup is the list of commands bring_up issues after `link add`: what    *)
(* configure and install_routes do for one profile (SetupPlan computes it).*)
(* A command either adds a policy rule, which outlives the interface, or   *)
(* configures the interface, and goes away with it.                        *)
(*                                                                         *)
(* The kernel's state is external to the repository: link, configured,     *)
(* kernelRules and resolved.  "own" marks what the current process         *)
(* created, "stale" what was there before it.                              *)
(***************************************************************************)
EXTENDS Naturals, Sequences, ConnectionController

CONSTANTS
  Rules,    \* the policy rules (a kind and an address family)
  NoRule,   \* the rule field of a command that adds none
  Setup     \* the commands of bring_up after `link add`

ASSUME SetupAssumption ==
  /\ NoRule \notin Rules
  /\ Setup \in Seq([rule : Rules \cup {NoRule}, checked : BOOLEAN])

Steps == 1 .. Len(Setup)
AddsRule(n) == Setup[n].rule # NoRule
RulesOf(steps) == {Setup[n].rule : n \in steps}

VARIABLES
  connected,        \* WireGuardAdapter::connected
  activeInterface,  \* LinuxWireGuardBackend::active_interface is Some
  activeRules,      \* LinuxWireGuardBackend::active_rules, as steps of Setup
  pendingRules,     \* the Vec local to bring_up or bring_down, likewise
  tunnelPc,         \* "idle", the command to issue next, or "ok"/"err"
  nextStep,         \* position in Setup
  stopped,          \* the ConnectContext is cancelled or past its deadline
  link,             \* the network interface: "absent", "own" or "stale"
  configured,       \* the steps of Setup in effect on it
  kernelRules,      \* the policy rules: "absent", "own" or "stale" each
  resolved          \* the per-link settings of systemd-resolved

adapterVars == <<connected, activeInterface, activeRules, pendingRules,
                 tunnelPc, nextStep>>
kernelVars == <<link, configured, kernelRules, resolved>>
tunnelVars == <<adapterVars, kernelVars>>

Presence == {"absent", "own", "stale"}
DnsSettings == {"dns", "domain", "default-route"}
TunnelPcs == {"idle", "link_add", "setup", "rollback_rules", "rollback_link",
              "down_rules", "down_link", "ok", "err"}

TunnelTypeOK ==
  /\ connected \in BOOLEAN
  /\ activeInterface \in BOOLEAN
  /\ activeRules \subseteq Steps
  /\ pendingRules \subseteq Steps
  /\ tunnelPc \in TunnelPcs
  /\ nextStep \in 1 .. Len(Setup) + 1
  /\ stopped \in BOOLEAN
  /\ link \in Presence
  /\ configured \subseteq Steps
  /\ kernelRules \in [Rules -> Presence]
  /\ resolved \subseteq DnsSettings

AdapterFresh ==
  /\ connected = FALSE
  /\ activeInterface = FALSE
  /\ activeRules = {}
  /\ pendingRules = {}
  /\ tunnelPc = "idle"
  /\ nextStep = 1

(* WireGuardAdapter::new over LinuxWireGuardBackend::new                   *)
AdapterNew ==
  /\ connected' = FALSE
  /\ activeInterface' = FALSE
  /\ activeRules' = {}
  /\ pendingRules' = {}
  /\ tunnelPc' = "idle"
  /\ nextStep' = 1

OwnRules == {r \in Rules : kernelRules[r] = "own"}
OwnsNothing == link # "own" /\ OwnRules = {}

-----------------------------------------------------------------------------
(* The kernel drops an interface with its addresses, routes and DNS.       *)
RemoveLink ==
  /\ link' = "absent"
  /\ configured' = {}
  /\ resolved' = {}
  /\ UNCHANGED kernelRules

(* `ip link delete`                                                        *)
DeleteInterface(ok) ==
  Command(ok, link # "absent", RemoveLink, UNCHANGED kernelVars)

(* `ip rule delete`                                                        *)
RemovePolicyRule(n, ok) ==
  /\ Command(ok, kernelRules[Setup[n].rule] # "absent",
             kernelRules' = [kernelRules EXCEPT ![Setup[n].rule] = "absent"],
             UNCHANGED kernelRules)
  /\ UNCHANGED <<link, configured, resolved>>

(* One command of Setup; the kernel refuses a rule that exists already.    *)
SetupCommand(n, ok) ==
  /\ IF AddsRule(n)
     THEN /\ Command(ok, kernelRules[Setup[n].rule] = "absent",
                     kernelRules' = [kernelRules EXCEPT ![Setup[n].rule] = "own"],
                     UNCHANGED kernelRules)
          /\ UNCHANGED configured
     ELSE /\ Command(ok, link # "absent",
                     configured' = configured \cup {n}, UNCHANGED configured)
          /\ UNCHANGED kernelRules
  /\ UNCHANGED <<link, resolved>>

-----------------------------------------------------------------------------
(***************************************************************************)
(* WireGuardAdapter::connect and LinuxWireGuardBackend::bring_up.          *)
(***************************************************************************)
TunnelConnect ==
  /\ tunnelPc = "idle"
  /\ tunnelPc' = IF connected \/ stopped \/ activeInterface
                 THEN "err" ELSE "link_add"
  /\ UNCHANGED <<connected, activeInterface, activeRules, pendingRules,
                 nextStep, kernelVars>>

(* Mutant: a failed `link add` is rolled back like a failed setup.         *)
LinkAddRollsBack ==
  /\ tunnelPc = "link_add"
  /\ \E ok \in BOOLEAN :
       /\ Command(ok, link = "absent", link' = "own", UNCHANGED link)
       /\ tunnelPc' = IF ok THEN "setup" ELSE "rollback_link"
  /\ nextStep' = 1
  /\ pendingRules' = {}
  /\ UNCHANGED <<connected, activeInterface, activeRules, configured,
                 kernelRules, resolved>>

LinkAdd ==
  /\ tunnelPc = "link_add"
  /\ \E ok \in BOOLEAN :
       /\ Command(ok, link = "absent", link' = "own", UNCHANGED link)
       /\ tunnelPc' = IF ok THEN "setup" ELSE "err"
  /\ nextStep' = 1
  /\ pendingRules' = {}
  /\ UNCHANGED <<connected, activeInterface, activeRules, configured,
                 kernelRules, resolved>>

(* Mutant: a failed command is skipped.                                    *)
SetupStepSkipsErrors ==
  /\ tunnelPc = "setup"
  /\ nextStep \in Steps
  /\ Setup[nextStep].checked => ~stopped
  /\ \E ok \in BOOLEAN : SetupCommand(nextStep, ok)
  /\ nextStep' = nextStep + 1
  /\ pendingRules' = IF AddsRule(nextStep)
                     THEN pendingRules \cup {nextStep} ELSE pendingRules
  /\ UNCHANGED <<tunnelPc, connected, activeInterface, activeRules>>

SetupStep ==
  /\ tunnelPc = "setup"
  /\ nextStep \in Steps
  /\ Setup[nextStep].checked => ~stopped
  /\ \/ /\ SetupCommand(nextStep, TRUE)
        /\ nextStep' = nextStep + 1
        /\ pendingRules' = IF AddsRule(nextStep)
                           THEN pendingRules \cup {nextStep} ELSE pendingRules
        /\ UNCHANGED tunnelPc
     \/ /\ SetupCommand(nextStep, FALSE)
        /\ tunnelPc' = "rollback_rules"
        /\ UNCHANGED <<nextStep, pendingRules>>
  /\ UNCHANGED <<connected, activeInterface, activeRules>>

(* context.check()? before a command                                       *)
SetupStopped ==
  /\ tunnelPc = "setup"
  /\ nextStep \in Steps
  /\ Setup[nextStep].checked /\ stopped
  /\ tunnelPc' = "rollback_rules"
  /\ UNCHANGED <<connected, activeInterface, activeRules, pendingRules,
                 nextStep, kernelVars>>

SetupDone ==
  /\ tunnelPc = "setup"
  /\ nextStep \notin Steps
  /\ activeRules' = pendingRules
  /\ pendingRules' = {}
  /\ activeInterface' = TRUE
  /\ connected' = TRUE
  /\ tunnelPc' = "ok"
  /\ UNCHANGED <<nextStep, kernelVars>>

(***************************************************************************)
(* remove_policy_rules removes the newest rule first and stops at the      *)
(* first error.  rollback_setup then deletes the interface all the same    *)
(* and forgets the rules; bring_down keeps them for the next attempt.      *)
(***************************************************************************)
Newest(n) == n \in pendingRules /\ \A m \in pendingRules : m =< n

(* Mutant: bring_down does not put the remaining rules back.               *)
RemoveRulesForgets ==
  /\ tunnelPc \in {"rollback_rules", "down_rules"}
  /\ \E n \in Steps :
       /\ Newest(n)
       /\ \/ /\ RemovePolicyRule(n, TRUE)
             /\ pendingRules' = pendingRules \ {n}
             /\ UNCHANGED tunnelPc
          \/ /\ RemovePolicyRule(n, FALSE)
             /\ pendingRules' = {}
             /\ tunnelPc' = IF tunnelPc = "down_rules" THEN "err"
                            ELSE "rollback_link"
  /\ UNCHANGED <<activeRules, connected, activeInterface, nextStep>>

(* Mutant: bring_down goes on when a rule cannot be removed.               *)
RemoveRulesGoesOn ==
  /\ tunnelPc \in {"rollback_rules", "down_rules"}
  /\ \E n \in Steps :
       /\ Newest(n)
       /\ \E ok \in BOOLEAN : RemovePolicyRule(n, ok)
       /\ pendingRules' = pendingRules \ {n}
  /\ UNCHANGED <<tunnelPc, activeRules, connected, activeInterface, nextStep>>

RemoveRules ==
  /\ tunnelPc \in {"rollback_rules", "down_rules"}
  /\ \E n \in Steps :
       /\ Newest(n)
       /\ \/ /\ RemovePolicyRule(n, TRUE)
             /\ pendingRules' = pendingRules \ {n}
             /\ UNCHANGED <<tunnelPc, activeRules>>
          \/ /\ RemovePolicyRule(n, FALSE)
             /\ tunnelPc = "rollback_rules"
             /\ tunnelPc' = "rollback_link"
             /\ UNCHANGED <<pendingRules, activeRules>>
          \/ /\ RemovePolicyRule(n, FALSE)
             /\ tunnelPc = "down_rules"
             /\ tunnelPc' = "err"
             /\ activeRules' = pendingRules
             /\ pendingRules' = {}
  /\ UNCHANGED <<connected, activeInterface, nextStep>>

RulesRemoved ==
  /\ pendingRules = {}
  /\ \/ tunnelPc = "rollback_rules" /\ tunnelPc' = "rollback_link"
     \/ tunnelPc = "down_rules" /\ tunnelPc' = "down_link"
  /\ UNCHANGED <<connected, activeInterface, activeRules, pendingRules,
                 nextStep, kernelVars>>

RollbackLink ==
  /\ tunnelPc = "rollback_link"
  /\ \E ok \in BOOLEAN : DeleteInterface(ok)
  /\ pendingRules' = {}
  /\ tunnelPc' = "err"
  /\ UNCHANGED <<connected, activeInterface, activeRules, nextStep>>

(***************************************************************************)
(* WireGuardAdapter::disconnect and LinuxWireGuardBackend::bring_down.     *)
(***************************************************************************)
TunnelDisconnect ==
  /\ tunnelPc = "idle"
  /\ \/ /\ ~(connected /\ activeInterface)
        /\ tunnelPc' = "err"
        /\ UNCHANGED <<activeRules, pendingRules>>
     \/ /\ connected /\ activeInterface
        /\ tunnelPc' = "down_rules"
        /\ pendingRules' = activeRules
        /\ activeRules' = {}
  /\ UNCHANGED <<connected, activeInterface, nextStep, kernelVars>>

DownLink ==
  /\ tunnelPc = "down_link"
  /\ \/ /\ DeleteInterface(TRUE)
        /\ activeInterface' = FALSE
        /\ connected' = FALSE
        /\ tunnelPc' = "ok"
     \/ /\ DeleteInterface(FALSE)
        /\ tunnelPc' = "err"
        /\ UNCHANGED <<connected, activeInterface>>
  /\ UNCHANGED <<activeRules, pendingRules, nextStep>>

TunnelReturn(result) ==
  /\ result \in {"ok", "err"}
  /\ tunnelPc = result
  /\ tunnelPc' = "idle"
  /\ UNCHANGED <<connected, activeInterface, activeRules, pendingRules,
                 nextStep, kernelVars>>

TunnelStep ==
  \/ LinkAdd
  \/ SetupStep
  \/ SetupStopped
  \/ SetupDone
  \/ RemoveRules
  \/ RulesRemoved
  \/ RollbackLink
  \/ DownLink

=============================================================================

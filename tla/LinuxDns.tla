------------------------------ MODULE LinuxDns ------------------------------
(***************************************************************************)
(* LinuxDnsBackend (core/transport/src/linux.rs): per-interface DNS        *)
(* through resolvectl.  systemd-resolved keeps the settings on the link;   *)
(* when the link is gone a resolvectl command fails or has no effect.      *)
(***************************************************************************)
EXTENDS WireGuardTunnel

VARIABLES
  dnsActive,  \* LinuxDnsBackend::active_interface is Some
  dnsPc       \* "idle", the resolvectl command to issue next, or "ok"/"err"

dnsVars == <<dnsActive, dnsPc>>

DnsPcs == {"idle", "dns", "domain", "default-route", "cleanup", "ok", "err"}

DnsTypeOK == dnsActive \in BOOLEAN /\ dnsPc \in DnsPcs

DnsFresh == dnsActive = FALSE /\ dnsPc = "idle"

-----------------------------------------------------------------------------
(* One resolvectl command that leaves the settings of the link at `to'.    *)
Resolvectl(to, ok) ==
  /\ Command(ok, TRUE, resolved' = (IF link = "absent" THEN {} ELSE to),
             UNCHANGED resolved)
  /\ UNCHANGED <<link, configured, kernelRules>>

(***************************************************************************)
(* configure                                                               *)
(***************************************************************************)
DnsConfigure ==
  /\ dnsPc = "idle"
  /\ dnsPc' = IF dnsActive \/ stopped THEN "err" ELSE "dns"
  /\ UNCHANGED dnsActive

Following(setting) ==
  CASE setting = "dns" -> "domain"
    [] setting = "domain" -> "default-route"
    [] setting = "default-route" -> "ok"

(* Mutant: a failed resolvectl command is skipped.                         *)
DnsStepSkipsErrors ==
  /\ dnsPc \in DnsSettings
  /\ dnsPc # "dns" => ~stopped
  /\ \E ok \in BOOLEAN : Resolvectl(resolved \cup {dnsPc}, ok)
  /\ dnsPc' = Following(dnsPc)
  /\ dnsActive' = (dnsPc' = "ok")

DnsStep ==
  /\ dnsPc \in DnsSettings
  /\ dnsPc # "dns" => ~stopped
  /\ \/ /\ Resolvectl(resolved \cup {dnsPc}, TRUE)
        /\ dnsPc' = Following(dnsPc)
        /\ dnsActive' = (dnsPc' = "ok")
     \/ /\ Resolvectl(resolved \cup {dnsPc}, FALSE)
        /\ dnsPc' = "cleanup"
        /\ UNCHANGED dnsActive

DnsStopped ==
  /\ dnsPc \in DnsSettings \ {"dns"}
  /\ stopped
  /\ dnsPc' = "cleanup"
  /\ UNCHANGED <<dnsActive, kernelVars>>

(* A failed setup is reverted; if that fails too the link stays owned.     *)
DnsCleanup ==
  /\ dnsPc = "cleanup"
  /\ \E ok \in BOOLEAN :
       /\ Resolvectl({}, ok)
       /\ dnsActive' = ~ok
  /\ dnsPc' = "err"

(***************************************************************************)
(* revert                                                                  *)
(***************************************************************************)
DnsRevert ==
  /\ dnsPc = "idle"
  /\ \/ /\ ~dnsActive
        /\ dnsPc' = "err"
        /\ UNCHANGED <<dnsActive, kernelVars>>
     \/ /\ dnsActive
        /\ Resolvectl({}, TRUE)
        /\ dnsActive' = FALSE
        /\ dnsPc' = "ok"
     \/ /\ dnsActive
        /\ Resolvectl({}, FALSE)
        /\ dnsPc' = "err"
        /\ UNCHANGED dnsActive

DnsReturn(result) ==
  /\ result \in {"ok", "err"}
  /\ dnsPc = result
  /\ dnsPc' = "idle"
  /\ UNCHANGED dnsActive

=============================================================================

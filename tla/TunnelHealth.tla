---------------------------- MODULE TunnelHealth ----------------------------
(***************************************************************************)
(* Health of the client's tunnel: WireGuardAdapter::health over            *)
(* LinuxWireGuardBackend::health (core/transport/src), over connects,      *)
(* failed teardowns, a lost interface and a wall clock that is adjusted.   *)
(* The kernel's link and handshake, and the clock, are external.           *)
(***************************************************************************)
EXTENDS Naturals

CONSTANTS
  MaxAge,       \* MAXIMUM_HANDSHAKE_AGE_SECONDS
  MaxFailures,  \* u32::MAX
  MaxTime       \* bound: the clock ends here

ASSUME HealthAssumption == MaxAge \in Nat /\ MaxFailures \in Nat

VARIABLES
  connected,   \* WireGuardAdapter::connected, with active_interface
  failures,    \* LinuxWireGuardBackend::health_failures
  link,        \* the interface exists
  handshake,   \* what wg shows for the peer: seconds, 0 for none
  now,         \* SystemTime::now
  report,      \* the latest answer of health
  elapsed,     \* ghost: true time since the peer's latest handshake
  setBack      \* ghost: by how much the clock was set back since then

healthVars == <<connected, failures, link, handshake, now, report, elapsed, setBack>>
kernel == <<link, handshake, now>>
ghosts == <<elapsed, setBack>>

NoReport == [status |-> "Unavailable", consecutiveFailures |-> 0]

HealthInit ==
  /\ connected = FALSE
  /\ failures = 0
  /\ link = FALSE
  /\ handshake = 0
  /\ now = 1
  /\ report = NoReport
  /\ elapsed = 0 /\ setBack = 0

-----------------------------------------------------------------------------
(* connect: a new interface has no handshake; a failed one changes nothing.*)
Connect ==
  /\ ~connected /\ ~link
  /\ connected' = TRUE
  /\ link' = TRUE
  /\ handshake' = 0
  /\ report' = NoReport
  /\ UNCHANGED <<failures, now, ghosts>>

(* disconnect, complete or failing before or after the deletion.           *)
Disconnect ==
  /\ connected
  /\ \/ link /\ connected' = FALSE /\ link' = FALSE
     \/ UNCHANGED connected /\ link' \in {FALSE, link}
  /\ report' = NoReport
  /\ UNCHANGED <<failures, handshake, now, ghosts>>

Handshake ==
  /\ link
  /\ handshake' = now
  /\ elapsed' = 0 /\ setBack' = 0
  /\ report' = NoReport
  /\ UNCHANGED <<connected, failures, link, now>>

LinkLost ==
  /\ link
  /\ link' = FALSE
  /\ report' = NoReport
  /\ UNCHANGED <<connected, failures, handshake, now, ghosts>>

(* Time passes, or the clock is stepped.                                   *)
Tick ==
  /\ now < MaxTime /\ elapsed < MaxTime
  /\ now' = now + 1
  /\ elapsed' = elapsed + 1
  /\ report' = NoReport
  /\ UNCHANGED <<connected, failures, link, handshake, setBack>>

SetClock ==
  \E t \in 1 .. MaxTime :
    /\ now' = t
    /\ setBack' = setBack + (IF t < now THEN now - t ELSE 0)
    /\ setBack' <= MaxTime
    /\ report' = NoReport
    /\ UNCHANGED <<connected, failures, link, handshake, elapsed>>

-----------------------------------------------------------------------------
(* Mutant: the age is not compared.                                        *)
FreshEver == handshake # 0 /\ handshake <= now

(* latest_handshake, and the comparison in health.                         *)
Fresh == handshake # 0 /\ handshake <= now /\ now - handshake <= MaxAge

CountFailure == IF failures < MaxFailures THEN failures + 1 ELSE MaxFailures

HealthNotConnected ==
  /\ ~connected
  /\ report' = NoReport
  /\ UNCHANGED <<connected, failures, kernel, ghosts>>

HealthQueryFails ==
  /\ connected
  /\ failures' = CountFailure
  /\ report' = [status |-> "Unavailable", consecutiveFailures |-> failures']
  /\ UNCHANGED <<connected, kernel, elapsed, setBack>>

HealthQueried ==
  /\ connected /\ link
  /\ failures' = 0
  /\ report' = [status |-> IF Fresh THEN "Healthy" ELSE "Degraded", consecutiveFailures |-> 0]
  /\ UNCHANGED <<connected, kernel, elapsed, setBack>>

HealthNext ==
  \/ Connect \/ Disconnect \/ Handshake \/ LinkLost \/ Tick \/ SetClock
  \/ HealthNotConnected \/ HealthQueryFails \/ HealthQueried

HealthSpec == HealthInit /\ [][HealthNext]_healthVars

-----------------------------------------------------------------------------
(***************************************************************************)
(* Healthy means that the peer of this very interface answered recently.   *)
(* A clock that is set back lengthens "recently" by no more than the       *)
(* amount it was set back, and one that is set forward never helps ("A     *)
(* handshake no older than 180 seconds is healthy",                        *)
(* docs/architecture/component-contracts.md).                              *)
(***************************************************************************)
HealthyIsRecent ==
  report.status = "Healthy" =>
    link /\ handshake # 0 /\ elapsed <= MaxAge + setBack
=============================================================================

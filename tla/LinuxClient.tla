----------------------------- MODULE LinuxClient -----------------------------
(***************************************************************************)
(* cyberia-linux-client (apps/linux-client/src): successive runs of the    *)
(* process on one host.  A run takes the interface lease, builds the       *)
(* connection, installs the signal handler and executes                    *)
(* run_until_shutdown; it may be killed at any step, and the next run      *)
(* finds whatever the kernel was left with.                                *)
(***************************************************************************)
EXTENDS LinuxConnection

VARIABLES
  main,       \* "off", or where run and run_until_shutdown are
  exit,       \* how the latest run ended: "none" while it runs or if killed
  cancelled,  \* the CancellationToken, set by the signal handler
  wakeup      \* the one slot of the shutdown channel is filled

clientVars == <<connectionVars, main, exit, cancelled, wakeup>>

Mains == {"off", "started", "ready", "connecting", "releasing_failed",
          "waiting", "disconnecting", "releasing"}

ClientTypeOK ==
  /\ ConnectionTypeOK
  /\ main \in Mains
  /\ exit \in {"none", "ok", "err"}
  /\ cancelled \in BOOLEAN
  /\ wakeup \in BOOLEAN

(* What a process of this program created becomes the next one's past.     *)
Stale(presence) == IF presence = "own" THEN "stale" ELSE presence

(* A host on which no filtering is installed; earlier runs whose table was *)
(* removed by hand may have left an interface and rules behind.            *)
ClientInit ==
  /\ killSwitch = New(FALSE)
  /\ transportMayBeActive = FALSE
  /\ controllerPc = "idle"
  /\ nft = Disabled
  /\ ConnectionFresh
  /\ stopped = FALSE
  /\ link \in {"absent", "stale"}
  /\ configured = {}
  /\ kernelRules \in [Rules -> {"absent", "stale"}]
  /\ resolved = {}
  /\ main = "off"
  /\ exit = "none"
  /\ cancelled = FALSE
  /\ wakeup = FALSE

-----------------------------------------------------------------------------
(***************************************************************************)
(* run: the lease keeps a second process of the same interface out, so a   *)
(* run starts only when there is none; then the connection is built.       *)
(***************************************************************************)
Start(alwaysOn) ==
  /\ main = "off"
  /\ \E ok \in BOOLEAN :
       /\ ConnectionNew(alwaysOn, ok)
       /\ main' = IF ok THEN "started" ELSE "off"
       /\ exit' = IF ok THEN "none" ELSE "err"
  /\ stopped' = FALSE
  /\ link' = Stale(link)
  /\ kernelRules' = [r \in Rules |-> Stale(kernelRules[r])]
  /\ cancelled' = FALSE
  /\ wakeup' = FALSE
  /\ UNCHANGED <<configured, resolved>>

Exit(result) == main' = "off" /\ exit' = result

(* ctrlc::set_handler; until it returned, a signal kills the process.      *)
InstallHandler ==
  /\ main = "started"
  /\ \/ main' = "ready" /\ UNCHANGED exit
     \/ Exit("err")
  /\ UNCHANGED <<connectionVars, cancelled, wakeup>>

(***************************************************************************)
(* run_until_shutdown                                                      *)
(***************************************************************************)
MainConnect ==
  /\ main = "ready"
  /\ Connect(cancelled)
  /\ main' = "connecting"
  /\ UNCHANGED <<exit, cancelled, wakeup>>

MainConnected ==
  /\ main = "connecting"
  /\ ConnectionReturn("ok")
  /\ main' = "waiting"
  /\ UNCHANGED <<exit, cancelled, wakeup>>

MainConnectFailed ==
  /\ main = "connecting"
  /\ \/ killSwitch.alwaysOn /\ ConnectionReturn("err") /\ Exit("err")
     \/ /\ ~killSwitch.alwaysOn
        /\ ConnectionReturn("err")
        /\ main' = "releasing_failed"
        /\ UNCHANGED exit
  /\ UNCHANGED <<cancelled, wakeup>>

MainRelease ==
  /\ main \in {"releasing_failed", "releasing"}
  /\ DisableFiltering
  /\ UNCHANGED <<main, exit, cancelled, wakeup>>

(* The result of this disable is dropped: the connect error is returned.   *)
MainReleaseIgnored ==
  /\ main = "releasing_failed"
  /\ \E result \in {"ok", "err"} : ConnectionReturn(result)
  /\ Exit("err")
  /\ UNCHANGED <<cancelled, wakeup>>

(* wait_for_shutdown returns                                               *)
MainDisconnect ==
  /\ main = "waiting"
  /\ wakeup
  /\ wakeup' = FALSE
  /\ Disconnect
  /\ main' = "disconnecting"
  /\ UNCHANGED <<exit, cancelled>>

(* Mutant: the error of disconnect is dropped.                             *)
MainDisconnectUnchecked ==
  /\ main = "disconnecting"
  /\ \E result \in {"ok", "err"} : ConnectionReturn(result)
  /\ \/ killSwitch.alwaysOn /\ Exit("ok")
     \/ ~killSwitch.alwaysOn /\ main' = "releasing" /\ UNCHANGED exit
  /\ UNCHANGED <<cancelled, wakeup>>

MainDisconnected ==
  /\ main = "disconnecting"
  /\ \/ ConnectionReturn("err") /\ Exit("err")
     \/ killSwitch.alwaysOn /\ ConnectionReturn("ok") /\ Exit("ok")
     \/ /\ ~killSwitch.alwaysOn
        /\ ConnectionReturn("ok")
        /\ main' = "releasing"
        /\ UNCHANGED exit
  /\ UNCHANGED <<cancelled, wakeup>>

MainReleased ==
  /\ main = "releasing"
  /\ \E result \in {"ok", "err"} : ConnectionReturn(result) /\ Exit(result)
  /\ UNCHANGED <<cancelled, wakeup>>

-----------------------------------------------------------------------------
(* Mutant: the channel has no slot, so only a waiting thread is woken.     *)
SignalUnbuffered ==
  /\ main \notin {"off", "started"}
  /\ cancelled' = TRUE
  /\ wakeup' = (main = "waiting")
  /\ stopped' = (stopped \/ main = "connecting")
  /\ UNCHANGED <<controllerVars, tunnelVars, dnsVars, call, main, exit>>

(* SIGINT or SIGTERM on the ctrlc thread: cancel, and fill the channel's   *)
(* slot whether or not the main thread waits on it yet.                    *)
Signal ==
  /\ main \notin {"off", "started"}
  /\ cancelled' = TRUE
  /\ wakeup' = TRUE
  /\ stopped' = (stopped \/ main = "connecting")
  /\ UNCHANGED <<controllerVars, tunnelVars, dnsVars, call, main, exit>>

(* SIGKILL, a panic, or a signal before the handler is there.              *)
Crash ==
  /\ main # "off"
  /\ main' = "off"
  /\ exit' = "none"
  /\ UNCHANGED <<connectionVars, cancelled, wakeup>>

(* Everything the process does by itself once it has started.              *)
MainStep ==
  \/ InstallHandler
  \/ MainConnect \/ MainConnected \/ MainConnectFailed
  \/ MainRelease \/ MainReleaseIgnored
  \/ MainDisconnect \/ MainDisconnected \/ MainReleased
  \/ /\ main # "off"
     /\ ConnectionStep
     /\ UNCHANGED <<main, exit, cancelled, wakeup>>

Environment ==
  \/ Signal
  \/ Crash
  \/ main # "off" /\ ContextStops /\ UNCHANGED <<main, exit, cancelled, wakeup>>
  \/ LinkLost /\ UNCHANGED <<main, exit, cancelled, wakeup>>

ClientNext ==
  \/ \E alwaysOn \in BOOLEAN : Start(alwaysOn)
  \/ MainStep
  \/ Environment

(* The process is scheduled and the commands it runs end.                  *)
ClientSpec ==
  /\ ClientInit
  /\ [][ClientNext]_clientVars
  /\ WF_clientVars(MainStep)

-----------------------------------------------------------------------------
(***************************************************************************)
(* "Non-always-on sessions remove filtering only after protected teardown; *)
(* always-on sessions retain blocking on exit or failed connection"        *)
(* (docs/architecture/component-contracts.md): a run that exits with       *)
(* success left no interface and no rule, and filtering on exactly when it *)
(* is always-on.                                                           *)
(***************************************************************************)
ExitOkMeansClean ==
  exit = "ok" => /\ OwnsNothing
                 /\ ~dnsActive
                 /\ nft = Disabled <=> ~killSwitch.alwaysOn

(***************************************************************************)
(* Traffic is never unfiltered while a tunnel session is up: from a        *)
(* successful connect until its teardown, and after a crash in between,    *)
(* some filtering policy is in force.                                      *)
(***************************************************************************)
FilteredWhileUp ==
  main \in {"connecting", "waiting", "disconnecting"} => nft # Disabled

(***************************************************************************)
(* Only a non-always-on run at its release step lifts filtering; a crash,  *)
(* a signal, a failed start or an always-on run never does.                *)
(***************************************************************************)
OnlyReleaseLifts ==
  [][nft # Disabled /\ nft' = Disabled
       => /\ main \in {"releasing", "releasing_failed"}
          /\ ~killSwitch.alwaysOn
          /\ ~transportMayBeActive
    ]_clientVars

(***************************************************************************)
(* A signalled client stops: the handler cancels the connect in progress   *)
(* or wakes the wait, and every path from there ends the process.          *)
(***************************************************************************)
SignalStopsClient == cancelled /\ main # "off" ~> main = "off"

(***************************************************************************)
(* The client never hangs in an operation: it is waiting for a signal or   *)
(* on its way there or out.                                                *)
(***************************************************************************)
ClientSettles == main # "off" ~> main \in {"off", "waiting"}

=============================================================================

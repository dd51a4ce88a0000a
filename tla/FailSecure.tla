----------------------------- MODULE FailSecure -----------------------------
(***************************************************************************)
(* What the client promises about traffic, whatever the transport: an      *)
(* abstract specification over two facts an operator can observe, the      *)
(* policy in force and whether the current session owns platform state (an *)
(* interface or routing rules it created).                                 *)
(***************************************************************************)
VARIABLES
  policy,  \* "Disabled", "BlockNonTunnel" or "TunnelOnly"
  owned    \* the session may have platform state of its own

FailSecureInit ==
  /\ policy \in {"Disabled", "BlockNonTunnel"}
  /\ owned = FALSE

(* Blocking may be restored at any moment.                                 *)
Arm ==
  /\ policy' = "BlockNonTunnel"
  /\ UNCHANGED owned

(* Platform state is created only under a filtering policy.                *)
Work ==
  /\ policy # "Disabled"
  /\ owned' \in BOOLEAN
  /\ UNCHANGED policy

(* The tunnel interface is admitted only from a filtering policy.          *)
Admit ==
  /\ policy # "Disabled"
  /\ policy' = "TunnelOnly"
  /\ UNCHANGED owned

(* Filtering is released only when nothing is owned.                       *)
Release ==
  /\ ~owned
  /\ policy' = "Disabled"
  /\ UNCHANGED owned

(* A new session starts; what an earlier one left behind is not its own.   *)
NewSession ==
  /\ policy' \in {policy, "BlockNonTunnel"}
  /\ owned' = FALSE

FailSecureNext == Arm \/ Work \/ Admit \/ Release \/ NewSession

FailSecureSpec == FailSecureInit /\ [][FailSecureNext]_<<policy, owned>>

=============================================================================

--------------------------- MODULE MCControlPlane ---------------------------
(***************************************************************************)
(* The stores of the control plane in one run: enrollment, and             *)
(* configurations with their delivery.  They share no state, so each       *)
(* behaviour moves one of them and leaves the other at its start.          *)
(*                                                                         *)
(* Two accounts that may claim the same device, two keys and a store full  *)
(* with two devices or challenges.  Keys are only compared for equality,   *)
(* so their permutations are symmetries.                                   *)
(***************************************************************************)
EXTENDS EnrollmentStore, ConfigDelivery, TLC

VARIABLE part   \* the store this behaviour is about

MCSymmetry == Permutations(PublicKeys)

ControlInit ==
  /\ part \in {"enrollment", "configuration"}
  /\ Init /\ DeliveryInit

ControlNext ==
  /\ UNCHANGED part
  /\ \/ part = "enrollment" /\ Next /\ UNCHANGED deliveryVars
     \/ part = "configuration" /\ DeliveryNext /\ UNCHANGED vars

ControlSpec == ControlInit /\ [][ControlNext]_<<part, vars, deliveryVars>>
=============================================================================

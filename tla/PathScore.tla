------------------------------ MODULE PathScore ------------------------------
(***************************************************************************)
(* The score of a path that gets worse, one step of one measurement at a   *)
(* time (RoutingPolicy::score, core/routing/src/lib.rs).                   *)
(***************************************************************************)
EXTENDS RouteScore

CONSTANTS MaxValue, MaxJitter   \* bounds: the largest measured values

ASSUME PathAssumption == MaxValue \in Nat /\ MaxJitter \in Nat

VARIABLES policy, measured   \* a RoutingPolicy and the measurements of a path

scoreVars == <<policy, measured>>

ScoreInit(policies) ==
  /\ policy \in {p \in policies : ValidPolicy(p)}
  /\ measured = [available |-> TRUE, latency |-> 0, jitter |-> 0, loss |-> 0,
                 bandwidth |-> MaxValue]

Worsens(field, bound, change) ==
  measured[field] # bound /\ measured' = [measured EXCEPT ![field] = @ + change]

ScoreNext ==
  /\ \/ Worsens("latency", MaxValue, 1) \/ Worsens("jitter", MaxJitter, 1)
     \/ Worsens("loss", QualityMax, 1) \/ Worsens("bandwidth", 0, -1)
     \/ measured.available /\ measured' = [measured EXCEPT !.available = FALSE]
  /\ UNCHANGED policy

ScoreSpec(policies) == ScoreInit(policies) /\ [][ScoreNext]_scoreVars

-----------------------------------------------------------------------------
(***************************************************************************)
(* A node whose measurements got worse in any dimension never scores       *)
(* higher, and no score leaves "the range `0..=10_000`"                    *)
(* (RoutingPolicy::score), so roundings and saturations cannot make a      *)
(* worse path win.                                                         *)
(***************************************************************************)
WorseNeverScoresHigher ==
  [][/\ Score(policy, measured') =< Score(policy, measured)
     /\ Score(policy, measured') \in 0 .. QualityMax]_scoreVars
=============================================================================

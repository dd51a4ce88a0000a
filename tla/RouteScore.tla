----------------------------- MODULE RouteScore -----------------------------
(***************************************************************************)
(* RoutingPolicy (core/routing/src/lib.rs): the quality score of a node in *)
(* fixed-point arithmetic.  QualityMax stands for QUALITY_MAX and U32Max   *)
(* for the largest u32, so that small instances still saturate; products   *)
(* are taken in u64, which the operands cannot overflow.                   *)
(***************************************************************************)
EXTENDS Integers

CONSTANTS QualityMax, U32Max

ASSUME ScoreAssumption ==
  /\ QualityMax \in Nat \ {0}
  /\ U32Max \in Nat
  /\ QualityMax < U32Max

Measurements ==
  [available : BOOLEAN, latency : Nat, jitter : Nat, loss : Nat, bandwidth : Nat]
ScoreWeights == [latency : Nat, jitter : Nat, loss : Nat, bandwidth : Nat]
ScoreLimits == [latency : Nat, jitter : Nat, bandwidth : Nat]
RoutingPolicy == [weights : ScoreWeights, limits : ScoreLimits]

(* u32::try_from(n).unwrap_or(u32::MAX), and saturating u32 addition.      *)
Narrow(n) == IF n =< U32Max THEN n ELSE U32Max

TotalWeight(p) ==
  p.weights.latency + p.weights.jitter + p.weights.loss + p.weights.bandwidth

ValidPolicy(p) ==
  /\ TotalWeight(p) # 0
  /\ p.limits.latency # 0 /\ p.limits.jitter # 0 /\ p.limits.bandwidth # 0

(* Mutant: the subtraction wraps around instead of saturating.             *)
InverseQualityWraps(value, maximum) ==
  (QualityMax - Narrow((value * QualityMax) \div maximum)) % (U32Max + 1)

InverseQuality(value, maximum) ==
  LET normalized == Narrow((value * QualityMax) \div maximum)
  IN IF normalized > QualityMax THEN 0 ELSE QualityMax - normalized

DirectQuality(value, target) ==
  LET normalized == Narrow((value * QualityMax) \div target)
  IN IF normalized > QualityMax THEN QualityMax ELSE normalized

(* What score accepts: an unavailable node's measurements are not looked   *)
(* at.                                                                     *)
Scorable(p, m) == ValidPolicy(p) /\ (m.available => m.loss =< QualityMax)

WeightedSum(p, m) ==
    InverseQuality(m.latency, p.limits.latency) * p.weights.latency
  + InverseQuality(m.jitter, p.limits.jitter) * p.weights.jitter
  + (QualityMax - m.loss) * p.weights.loss
  + DirectQuality(m.bandwidth, p.limits.bandwidth) * p.weights.bandwidth

Score(p, m) ==
  IF m.available THEN WeightedSum(p, m) \div TotalWeight(p) ELSE 0
=============================================================================

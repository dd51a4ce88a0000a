------------------------------ MODULE Backoff ------------------------------
(***************************************************************************)
(* BackoffPolicy (core/routing/src/backoff.rs): the wait before each       *)
(* attempt of a reconnection, as a client takes the attempts in turn and   *)
(* draws an entropy sample for each.                                       *)
(***************************************************************************)
EXTENDS Integers, Powers

CONSTANTS
  BASIS_POINTS,
  MaximumPolicyDelay,   \* MAXIMUM_POLICY_DELAY
  U32Bits,              \* the width of u32, which is also the largest
                        \* maximum_attempts
  DurationMax,          \* the largest Duration
  Delays                \* the initial and maximum delays of policies

ASSUME BackoffAssumption ==
  /\ BASIS_POINTS \in Nat \ {0}
  /\ U32Bits \in Nat \ {0}
  /\ DurationMax \in Nat
  /\ MaximumPolicyDelay \in 0 .. DurationMax
  /\ Delays \subseteq 0 .. DurationMax

VARIABLES reconnect, attempt, sample   \* a BackoffPolicy and the attempt it is at

backoffVars == <<reconnect, attempt, sample>>

Smaller(m, n) == IF m < n THEN m ELSE n

BackoffPolicy ==
  [initialDelay : Delays, maximumDelay : Delays, maximumAttempts : 0 .. U32Bits + 1,
   jitter : 0 .. BASIS_POINTS]

ValidBackoff(p) ==
  /\ p.initialDelay # 0 /\ p.initialDelay =< p.maximumDelay
  /\ p.maximumDelay =< MaximumPolicyDelay
  /\ p.maximumAttempts # 0 /\ p.maximumAttempts =< U32Bits
  /\ 2 * p.jitter =< BASIS_POINTS

(* 1_u32.checked_shl, Duration::checked_mul and the cap.                   *)
Base(p, n) ==
  LET multiplier == IF n < U32Bits THEN Pow2[n] ELSE Pow2[U32Bits] - 1
      product == p.initialDelay * multiplier
  IN IF product =< DurationMax THEN Smaller(product, p.maximumDelay) ELSE p.maximumDelay

(* Mutant: the jittered delay is not capped again.                         *)
DelayUncapped(p, n, s) ==
  (Base(p, n) * (BASIS_POINTS - p.jitter + (2 * p.jitter * s) \div BASIS_POINTS))
     \div BASIS_POINTS

Delay(p, n, s) ==
  LET factor == BASIS_POINTS - p.jitter + (2 * p.jitter * s) \div BASIS_POINTS
  IN Smaller((Base(p, n) * factor) \div BASIS_POINTS, p.maximumDelay)

-----------------------------------------------------------------------------
BackoffInit(policies) ==
  /\ reconnect \in {p \in policies : ValidBackoff(p)}
  /\ attempt = 0
  /\ sample \in 0 .. BASIS_POINTS

(* Another attempt, as long as delay does not answer None.                 *)
Attempt(s) ==
  /\ attempt < reconnect.maximumAttempts
  /\ attempt' = attempt + 1
  /\ sample' = s
  /\ UNCHANGED reconnect

BackoffNext == \E s \in 0 .. BASIS_POINTS : Attempt(s)

BackoffSpec == BackoffInit(BackoffPolicy) /\ [][BackoffNext]_backoffVars

-----------------------------------------------------------------------------
Waits == attempt < reconnect.maximumAttempts
Wait == Delay(reconnect, attempt, sample)

(* The exponential delay, in numbers without width.                        *)
Exponential == Smaller(reconnect.initialDelay * Pow2[attempt], reconnect.maximumDelay)

(***************************************************************************)
(* delay "maps the inclusive range `0..=10_000` across the configured      *)
(* symmetric jitter interval": no multiplication on the way overflows into *)
(* a wait beyond the policy's maximum, beyond the exponential delay plus   *)
(* the jitter, or short of it minus the jitter.                            *)
(***************************************************************************)
DelayWithinJitter ==
  Waits =>
    /\ Wait =< reconnect.maximumDelay
    /\ Wait * BASIS_POINTS =< Exponential * (BASIS_POINTS + reconnect.jitter)
    /\ (Wait + 1) * BASIS_POINTS > Exponential * (BASIS_POINTS - reconnect.jitter)
=============================================================================

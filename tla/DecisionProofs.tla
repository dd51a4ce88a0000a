--------------------------- MODULE DecisionProofs ---------------------------
(***************************************************************************)
(* What the client and the node decide from their inputs, for every width, *)
(* limit, list and policy: the powers of two first, then the wait between  *)
(* attempts, the score of a path, the selector, the addresses of a node,   *)
(* and the configuration of a client with the conversions of its key.      *)
(***************************************************************************)
EXTENDS ClientProfile, NodePlan, PathScore, RouteSelector, Backoff,
        FiniteSetTheorems, WellFoundedInduction, TLAPS

Less == {ss \in Nat \X Nat : ss[1] < ss[2]}

(* Every set of natural numbers with an element has a least one.           *)
LEMMA LeastElement ==
  ASSUME NEW S, S \subseteq Nat, S # {}
  PROVE  \E n \in S : \A m \in S : n =< m
<1>1. IsWellFoundedOn(Less, Nat)
  BY NatLessThanWellFounded, Zenon DEF OpToRel, Less
<1>2. PICK n \in S : \A m \in S : <<m, n>> \notin Less
  BY <1>1, WFMin, Zenon
<1>3. ASSUME NEW m \in S, m < n PROVE FALSE
  <2>1. <<m, n>> \in Nat \X Nat /\ <<m, n>>[1] < <<m, n>>[2]
    BY <1>3
  <2> QED BY <1>2, <2>1 DEF Less
<1> QED BY <1>3

(* Induction: a set with 0 and all successors has every number.            *)
LEMMA Induction ==
  ASSUME NEW S, 0 \in S, \A n \in Nat : n \in S => n + 1 \in S
  PROVE  Nat \subseteq S
<1> SUFFICES ASSUME Nat \ S # {} PROVE FALSE
  OBVIOUS
<1>1. PICK n \in Nat \ S : \A m \in Nat \ S : n =< m
  BY LeastElement, Zenon
<1>2. n # 0 /\ n - 1 \in Nat /\ n - 1 \in S
  BY <1>1
<1> QED BY <1>1, <1>2

-----------------------------------------------------------------------------
(* A table of the powers up to n.                                          *)
PowersTo(g, n) ==
  /\ g \in [0 .. n -> Nat]
  /\ g[0] = 1
  /\ \A i \in 1 .. n : g[i] = 2 * g[i - 1]

(* Such a table exists for every n.                                        *)
LEMMA PowersExist == \A n \in Nat : \E g : PowersTo(g, n)
<1> DEFINE S == {n \in Nat : \E g : PowersTo(g, n)}
<1>1. 0 \in S
  <2>1. PowersTo([i \in 0 .. 0 |-> 1], 0)
    BY DEF PowersTo
  <2> QED BY <2>1
<1>2. ASSUME NEW n \in Nat, n \in S PROVE n + 1 \in S
  <2>1. PICK g : PowersTo(g, n)
    BY <1>2
  <2> DEFINE h == [i \in 0 .. n + 1 |-> IF i = n + 1 THEN 2 * g[n] ELSE g[i]]
  <2>2. h \in [0 .. n + 1 -> Nat]
    BY <2>1 DEF PowersTo
  <2>3. h[0] = 1
    BY <2>1 DEF PowersTo
  <2>4. ASSUME NEW i \in 1 .. n + 1 PROVE h[i] = 2 * h[i - 1]
    BY <2>1 DEF PowersTo
  <2>5. PowersTo(h, n + 1)
    BY <2>2, <2>3, <2>4, Zenon DEF PowersTo
  <2> QED BY <2>5
<1> HIDE DEF S
<1>3. Nat \subseteq S
  BY <1>1, <1>2, Induction
<1> QED BY <1>3 DEF S

(* Two tables agree where both are defined.                                *)
LEMMA PowersAgree ==
  ASSUME NEW m \in Nat, NEW n \in Nat, NEW g, NEW h, PowersTo(g, m), PowersTo(h, n)
  PROVE  \A i \in Nat : i =< m /\ i =< n => g[i] = h[i]
<1> DEFINE S == {i \in Nat : i =< m /\ i =< n => g[i] = h[i]}
<1>1. 0 \in S
  BY DEF PowersTo
<1>2. ASSUME NEW i \in Nat, i \in S PROVE i + 1 \in S
  BY <1>2 DEF PowersTo
<1> HIDE DEF S
<1>3. Nat \subseteq S
  BY <1>1, <1>2, Induction
<1> QED BY <1>3 DEF S

(* The recursive definition of the powers defines them.                    *)
LEMMA PowersDefined ==
  /\ Pow2 \in [Nat -> Nat]
  /\ Pow2[0] = 1
  /\ \A n \in Nat : Pow2[n + 1] = 2 * Pow2[n]
<1> DEFINE table(n) == CHOOSE g : PowersTo(g, n)
           F == [n \in Nat |-> table(n)[n]]
<1>1. \A n \in Nat : PowersTo(table(n), n)
  BY PowersExist
<1> HIDE DEF table
<1>2. \A n \in Nat : F[n] \in Nat
  BY <1>1 DEF PowersTo
<1>3. F[0] = 1
  BY <1>1 DEF PowersTo
<1>4. ASSUME NEW n \in Nat PROVE F[n + 1] = 2 * F[n]
  <2>1. table(n + 1)[n + 1] = 2 * table(n + 1)[n]
    <3>1. PowersTo(table(n + 1), n + 1)
      BY <1>1
    <3> QED BY <3>1 DEF PowersTo
  <2>2. table(n + 1)[n] = table(n)[n]
    BY <1>1, PowersAgree
  <2> QED BY <2>1, <2>2
<1>5. F = [n \in Nat |-> IF n = 0 THEN 1 ELSE 2 * F[n - 1]]
  <2>1. ASSUME NEW n \in Nat PROVE F[n] = IF n = 0 THEN 1 ELSE 2 * F[n - 1]
    <3>1. CASE n = 0
      BY <3>1, <1>3
    <3>2. CASE n # 0
      <4>1. n - 1 \in Nat /\ n = (n - 1) + 1
        BY <3>2
      <4>2. F[(n - 1) + 1] = 2 * F[n - 1]
        BY <4>1, <1>4, Zenon
      <4> QED BY <3>2, <4>1, <4>2
    <3> QED BY <3>1, <3>2
  <2> QED BY <2>1
<1> HIDE DEF F
<1>6. Pow2 = [n \in Nat |-> IF n = 0 THEN 1 ELSE 2 * Pow2[n - 1]]
  BY <1>5, Zenon DEF Pow2
<1>7. Pow2[0] = 1 /\ \A n \in Nat : Pow2[n + 1] = 2 * Pow2[n]
  <2>1. \A n \in Nat : Pow2[n] = IF n = 0 THEN 1 ELSE 2 * Pow2[n - 1]
    BY <1>6, Zenon
  <2> QED BY <2>1
<1> DEFINE S == {n \in Nat : Pow2[n] \in Nat}
<1>8. 0 \in S /\ \A n \in Nat : n \in S => n + 1 \in S
  BY <1>7
<1> HIDE DEF S
<1>9. Nat \subseteq S
  BY <1>8, Induction
<1>10. \A n \in Nat : Pow2[n] \in Nat
  BY <1>9 DEF S
<1>11. Pow2 \in [Nat -> Nat]
  BY <1>6, <1>10
<1> QED BY <1>7, <1>11

(* The powers are positive, and exponents add up.                          *)
LEMMA PowersPositive == \A n \in Nat : Pow2[n] \in Nat \ {0}
<1> DEFINE S == {n \in Nat : Pow2[n] \in Nat \ {0}}
<1>1. 0 \in S /\ \A n \in Nat : n \in S => n + 1 \in S
  BY PowersDefined
<1> HIDE DEF S
<1>2. Nat \subseteq S
  BY <1>1, Induction
<1> QED BY <1>2 DEF S

(* The power of a sum is the product of the powers.                        *)
LEMMA PowersMultiply == \A m, n \in Nat : Pow2[m + n] = Pow2[m] * Pow2[n]
<1> SUFFICES ASSUME NEW m \in Nat PROVE \A n \in Nat : Pow2[m + n] = Pow2[m] * Pow2[n]
  OBVIOUS
<1> DEFINE S == {n \in Nat : Pow2[m + n] = Pow2[m] * Pow2[n]}
<1>1. 0 \in S
  BY PowersDefined
<1>2. ASSUME NEW n \in Nat, n \in S PROVE n + 1 \in S
  <2>1. Pow2[m + n] = Pow2[m] * Pow2[n]
    BY <1>2
  <2>2. Pow2[m + (n + 1)] = 2 * Pow2[m + n]
    BY PowersDefined
  <2>3. Pow2[n + 1] = 2 * Pow2[n]
    BY PowersDefined
  <2>4. 2 * (Pow2[m] * Pow2[n]) = Pow2[m] * (2 * Pow2[n])
    BY PowersPositive
  <2> QED BY <2>1, <2>2, <2>3, <2>4
<1> HIDE DEF S
<1>3. Nat \subseteq S
  BY <1>1, <1>2, Induction
<1> QED BY <1>3 DEF S

-----------------------------------------------------------------------------
(* Products and quotients of natural numbers are monotone.                 *)
LEMMA Multiplied ==
  ASSUME NEW a \in Nat, NEW b \in Nat, NEW c \in Nat, a =< b
  PROVE  a * c =< b * c /\ c * a =< c * b /\ a * c \in Nat /\ b * c \in Nat
<1>1. PICK d \in Nat : b = a + d
  <2>1. b - a \in Nat /\ b = a + (b - a)
    OBVIOUS
  <2> QED BY <2>1
<1>2. b * c = a * c + d * c /\ d * c \in Nat /\ a * c \in Nat
  BY <1>1
<1> QED BY <1>2

(* What the integer quotient of naturals is.                               *)
LEMMA Divided ==
  ASSUME NEW a \in Nat, NEW d \in Nat \ {0}
  PROVE  /\ a \div d \in Nat
         /\ d * (a \div d) =< a
         /\ a < d * (a \div d) + d
OBVIOUS

(* A larger dividend does not give a smaller quotient.                     *)
LEMMA DividedMonotone ==
  ASSUME NEW a \in Nat, NEW b \in Nat, NEW d \in Nat \ {0}, a =< b
  PROVE  a \div d =< b \div d
OBVIOUS

(* A quotient is at most what its divisor times covers the dividend.       *)
LEMMA DividedAtMost ==
  ASSUME NEW a \in Nat, NEW q \in Nat, NEW d \in Nat \ {0}, a =< q * d
  PROVE  a \div d =< q
OBVIOUS

(***************************************************************************)
(* The delay of an attempt, from the exponential delay e: a sample stays   *)
(* within the jitter on both sides, and the cap never cuts below it.       *)
(***************************************************************************)
LEMMA Jittered ==
  ASSUME NEW e \in Nat, NEW cap \in Nat, e =< cap, NEW bp \in Nat \ {0},
         NEW j \in Nat, j =< bp, NEW s \in 0 .. bp
  PROVE  LET wait == Smaller((e * (bp - j + (2 * j * s) \div bp)) \div bp, cap)
         IN /\ wait =< cap
            /\ wait * bp =< e * (bp + j)
            /\ (wait + 1) * bp > e * (bp - j)
<1> DEFINE spread == (2 * j * s) \div bp
           factor == bp - j + spread
           delay == (e * factor) \div bp
<1>1. spread \in 0 .. 2 * j
  <2>1. 2 * j * s \in Nat /\ 2 * j * s =< 2 * j * bp
    BY Multiplied
  <2> QED BY <2>1, Divided, DividedAtMost
<1> HIDE DEF spread
<1>2. factor \in Nat /\ bp - j =< factor /\ factor =< bp + j
  BY <1>1
<1> HIDE DEF factor
<1>3. e * factor \in Nat /\ e * (bp - j) =< e * factor /\ e * factor =< e * (bp + j)
  BY <1>2, Multiplied
<1>4. delay \in Nat /\ bp * delay =< e * factor /\ e * factor < bp * delay + bp
  BY <1>3, Divided, Zenon
<1> HIDE DEF delay
<1>5. e * (bp - j) \in Int /\ e * (bp + j) \in Int
  OBVIOUS
<1>6. delay * bp =< e * (bp + j) /\ (delay + 1) * bp > e * (bp - j)
  <2>1. delay * bp = bp * delay /\ (delay + 1) * bp = bp * delay + bp
    BY <1>4
  <2> QED BY <1>3, <1>4, <1>5, <2>1
<1>7. CASE delay < cap
  BY <1>4, <1>6, <1>7 DEF Smaller, delay, factor, spread
<1>8. CASE ~(delay < cap)
  <2>1. cap * bp =< delay * bp
    BY <1>4, <1>8, Multiplied
  <2>2. e * (bp - j) =< e * bp /\ e * bp =< cap * bp /\ cap * bp < (cap + 1) * bp
    BY Multiplied
  <2>3. cap * bp =< e * (bp + j) /\ (cap + 1) * bp > e * (bp - j)
    BY <1>4, <1>5, <1>6, <2>1, <2>2
  <2> QED BY <1>4, <1>8, <2>3 DEF Smaller, delay, factor, spread
<1> QED BY <1>4, <1>7, <1>8

BackoffInv ==
  /\ reconnect \in BackoffPolicy /\ ValidBackoff(reconnect)
  /\ attempt \in Nat
  /\ sample \in 0 .. BASIS_POINTS

(***************************************************************************)
(* BackoffPolicy::delay: for every policy that validate accepts, however   *)
(* large its numbers, no product overflows into a wait outside the jitter  *)
(* of the exponential delay or above the maximum.                          *)
(***************************************************************************)
THEOREM WaitsWithinJitter == BackoffSpec => []DelayWithinJitter
<1> USE BackoffAssumption
<1>1. BackoffInit(BackoffPolicy) => BackoffInv
  BY DEF BackoffInit, BackoffInv
<1>2. BackoffInv /\ [BackoffNext]_backoffVars => BackoffInv'
  BY DEF BackoffInv, BackoffNext, Attempt, backoffVars
<1>3. BackoffInv => DelayWithinJitter
  <2> SUFFICES ASSUME BackoffInv, Waits
               PROVE  /\ Wait =< reconnect.maximumDelay
                      /\ Wait * BASIS_POINTS =< Exponential * (BASIS_POINTS + reconnect.jitter)
                      /\ (Wait + 1) * BASIS_POINTS > Exponential * (BASIS_POINTS - reconnect.jitter)
    BY DEF DelayWithinJitter
  <2>1. /\ reconnect.initialDelay \in Nat /\ reconnect.maximumDelay \in Nat
        /\ reconnect.maximumDelay =< DurationMax
        /\ reconnect.jitter \in Nat /\ reconnect.jitter =< BASIS_POINTS
        /\ reconnect.maximumAttempts \in Nat /\ reconnect.maximumAttempts =< U32Bits
    <3>1. /\ reconnect.initialDelay \in Delays /\ reconnect.maximumDelay \in Delays
          /\ reconnect.jitter \in 0 .. BASIS_POINTS
          /\ reconnect.maximumAttempts \in 0 .. U32Bits + 1
      BY DEF BackoffInv, BackoffPolicy
    <3>2. \A d \in Delays : d \in Nat /\ d =< DurationMax
      OBVIOUS
    <3>3. reconnect.maximumAttempts =< U32Bits
      BY DEF BackoffInv, ValidBackoff
    <3>4. reconnect.initialDelay \in Nat /\ reconnect.maximumDelay \in Nat
      BY <3>1, <3>2, Zenon
    <3>5. reconnect.maximumDelay =< DurationMax
      BY <3>1, <3>2, Zenon
    <3>6. reconnect.jitter \in Nat /\ reconnect.jitter =< BASIS_POINTS
      BY <3>1
    <3>7. reconnect.maximumAttempts \in Nat
      BY <3>1
    <3> QED BY <3>3, <3>4, <3>5, <3>6, <3>7
  <2>2. attempt \in Nat /\ attempt < U32Bits
    BY <2>1 DEF Waits, BackoffInv
  <2>3. Pow2[attempt] \in Nat
    BY PowersPositive DEF BackoffInv
  <2> DEFINE product == reconnect.initialDelay * Pow2[attempt]
  <2>4. product \in Nat
    BY <2>1, <2>3
  <2>5. Base(reconnect, attempt) = Exponential
    <3>1. Base(reconnect, attempt)
            = IF product =< DurationMax THEN Smaller(product, reconnect.maximumDelay)
              ELSE reconnect.maximumDelay
      BY <2>2 DEF Base
    <3>2. Exponential = Smaller(product, reconnect.maximumDelay)
      BY DEF Exponential
    <3> HIDE DEF product
    <3> QED BY <2>1, <2>4, <3>1, <3>2 DEF Smaller
  <2>6. Exponential \in Nat /\ Exponential =< reconnect.maximumDelay
    BY <2>1, <2>4 DEF Exponential, Smaller
  <2>7. sample \in 0 .. BASIS_POINTS
    BY DEF BackoffInv
  <2> QED BY <2>1, <2>5, <2>6, <2>7, Jittered, Zenon DEF Wait, Delay
<1> QED BY <1>1, <1>2, <1>3, PTL DEF BackoffSpec

-----------------------------------------------------------------------------
(* The two qualities lie in the range, whatever saturates on the way, and  *)
(* are monotone.                                                           *)
LEMMA Normalized ==
  ASSUME NEW value \in Nat, NEW maximum \in Nat \ {0}
  PROVE  Narrow((value * QualityMax) \div maximum) \in 0 .. U32Max
<1>1. value * QualityMax \in Nat
  BY ScoreAssumption
<1>2. (value * QualityMax) \div maximum \in Nat
  BY <1>1, Divided
<1> QED BY <1>2, ScoreAssumption DEF Narrow

(* normalize_lower_better does not reward a larger value.                  *)
LEMMA NormalizedMonotone ==
  ASSUME NEW value \in Nat, NEW larger \in Nat, value =< larger, NEW maximum \in Nat \ {0}
  PROVE  Narrow((value * QualityMax) \div maximum) =< Narrow((larger * QualityMax) \div maximum)
<1>1. /\ value * QualityMax \in Nat /\ larger * QualityMax \in Nat
      /\ value * QualityMax =< larger * QualityMax
  BY ScoreAssumption, Multiplied
<1>2. /\ (value * QualityMax) \div maximum \in Nat /\ (larger * QualityMax) \div maximum \in Nat
      /\ (value * QualityMax) \div maximum =< (larger * QualityMax) \div maximum
  BY <1>1, Divided, DividedMonotone
<1> QED BY <1>2, ScoreAssumption DEF Narrow

(* normalized_metrics gives qualities up to QualityMax.                    *)
LEMMA Qualities ==
  ASSUME NEW value \in Nat, NEW maximum \in Nat \ {0}
  PROVE  /\ InverseQuality(value, maximum) \in 0 .. QualityMax
         /\ DirectQuality(value, maximum) \in 0 .. QualityMax
<1> DEFINE n == Narrow((value * QualityMax) \div maximum)
<1>1. n \in Nat
  <2>1. n \in 0 .. U32Max
    BY Normalized
  <2> HIDE DEF n
  <2> QED BY <2>1, ScoreAssumption
<1>2. /\ InverseQuality(value, maximum) = IF n > QualityMax THEN 0 ELSE QualityMax - n
      /\ DirectQuality(value, maximum) = IF n > QualityMax THEN QualityMax ELSE n
  BY DEF InverseQuality, DirectQuality
<1> HIDE DEF n
<1> QED BY <1>1, <1>2, ScoreAssumption

(* No quality of a worse measurement is higher.                            *)
LEMMA QualitiesMonotone ==
  ASSUME NEW value \in Nat, NEW larger \in Nat, value =< larger, NEW maximum \in Nat \ {0}
  PROVE  /\ InverseQuality(larger, maximum) =< InverseQuality(value, maximum)
         /\ DirectQuality(value, maximum) =< DirectQuality(larger, maximum)
<1> DEFINE n == Narrow((value * QualityMax) \div maximum)
           l == Narrow((larger * QualityMax) \div maximum)
<1>1. n \in Nat /\ l \in Nat /\ n =< l
  <2>1. n \in 0 .. U32Max /\ l \in 0 .. U32Max
    BY Normalized
  <2>2. n =< l
    BY NormalizedMonotone
  <2> HIDE DEF n, l
  <2> QED BY <2>1, <2>2, ScoreAssumption
<1>2. /\ InverseQuality(value, maximum) = IF n > QualityMax THEN 0 ELSE QualityMax - n
      /\ InverseQuality(larger, maximum) = IF l > QualityMax THEN 0 ELSE QualityMax - l
      /\ DirectQuality(value, maximum) = IF n > QualityMax THEN QualityMax ELSE n
      /\ DirectQuality(larger, maximum) = IF l > QualityMax THEN QualityMax ELSE l
  BY DEF InverseQuality, DirectQuality
<1> HIDE DEF n, l
<1> QED BY <1>1, <1>2, ScoreAssumption

(* A weighted mean is monotone in each of its terms, and never above a     *)
(* bound of all of them.                                                   *)
LEMMA Weighted ==
  ASSUME NEW a \in Nat, NEW b \in Nat, NEW c \in Nat, NEW d \in Nat,
         NEW e \in Nat, NEW f \in Nat, NEW g \in Nat, NEW h \in Nat,
         a =< e, b =< f, c =< g, d =< h,
         NEW v \in Nat, NEW w \in Nat, NEW x \in Nat, NEW y \in Nat
  PROVE  /\ a * v + b * w + c * x + d * y \in Nat
         /\ e * v + f * w + g * x + h * y \in Nat
         /\ a * v + b * w + c * x + d * y =< e * v + f * w + g * x + h * y
<1>1. /\ a * v \in Nat /\ e * v \in Nat /\ a * v =< e * v
      /\ b * w \in Nat /\ f * w \in Nat /\ b * w =< f * w
      /\ c * x \in Nat /\ g * x \in Nat /\ c * x =< g * x
      /\ d * y \in Nat /\ h * y \in Nat /\ d * y =< h * y
  BY Multiplied
<1> QED BY <1>1

(* The weights and limits of a policy that validate accepts.               *)
LEMMA PolicyTypes ==
  ASSUME NEW p \in RoutingPolicy, ValidPolicy(p)
  PROVE  /\ p.weights.latency \in Nat /\ p.weights.jitter \in Nat
         /\ p.weights.loss \in Nat /\ p.weights.bandwidth \in Nat
         /\ p.limits.latency \in Nat \ {0} /\ p.limits.jitter \in Nat \ {0}
         /\ p.limits.bandwidth \in Nat \ {0}
         /\ TotalWeight(p) \in Nat \ {0}
<1>1. p.weights \in ScoreWeights /\ p.limits \in ScoreLimits
  BY DEF RoutingPolicy
<1> QED BY <1>1 DEF ScoreWeights, ScoreLimits, ValidPolicy, TotalWeight

(* "The result is in the range `0..=10_000`" (RoutingPolicy::score).       *)
LEMMA ScoreRange ==
  ASSUME NEW p \in RoutingPolicy, NEW m \in Measurements, Scorable(p, m)
  PROVE  Score(p, m) \in 0 .. QualityMax
<1>1. CASE ~m.available
  BY <1>1, ScoreAssumption DEF Score
<1>2. CASE m.available
  <2> DEFINE a == InverseQuality(m.latency, p.limits.latency)
             b == InverseQuality(m.jitter, p.limits.jitter)
             c == QualityMax - m.loss
             d == DirectQuality(m.bandwidth, p.limits.bandwidth)
             v == p.weights.latency
             w == p.weights.jitter
             x == p.weights.loss
             y == p.weights.bandwidth
  <2>1. ValidPolicy(p) /\ m.loss =< QualityMax
    BY <1>2 DEF Scorable
  <2>2. /\ m.latency \in Nat /\ m.jitter \in Nat /\ m.loss \in Nat /\ m.bandwidth \in Nat
    BY DEF Measurements
  <2>3. /\ v \in Nat /\ w \in Nat /\ x \in Nat /\ y \in Nat
        /\ v + w + x + y = TotalWeight(p) /\ TotalWeight(p) \in Nat \ {0}
    BY <2>1, PolicyTypes DEF TotalWeight
  <2>4. /\ a \in 0 .. QualityMax /\ b \in 0 .. QualityMax /\ d \in 0 .. QualityMax
    BY <2>1, <2>2, PolicyTypes, Qualities, Zenon
  <2>5. c \in 0 .. QualityMax
    BY <2>1, <2>2, ScoreAssumption
  <2>6. Score(p, m) = (a * v + b * w + c * x + d * y) \div TotalWeight(p)
    BY <1>2 DEF Score, WeightedSum
  <2> HIDE DEF a, b, c, d, v, w, x, y
  <2>7. /\ a * v + b * w + c * x + d * y \in Nat
        /\ a * v + b * w + c * x + d * y
             =< QualityMax * v + QualityMax * w + QualityMax * x + QualityMax * y
    BY <2>3, <2>4, <2>5, ScoreAssumption, Weighted
  <2>8. QualityMax * v + QualityMax * w + QualityMax * x + QualityMax * y
          = QualityMax * TotalWeight(p)
    BY <2>3, ScoreAssumption
  <2>9. Score(p, m) \in Nat
    BY <2>3, <2>6, <2>7, Divided
  <2>10. Score(p, m) =< QualityMax
    BY <2>3, <2>6, <2>7, <2>8, ScoreAssumption, DividedAtMost
  <2> QED BY <2>9, <2>10, ScoreAssumption
<1> QED BY <1>1, <1>2

(* n is no better than m in any dimension.                                 *)
NoBetter(n, m) ==
  /\ n.available => m.available
  /\ n.latency >= m.latency /\ n.jitter >= m.jitter /\ n.loss >= m.loss
  /\ n.bandwidth =< m.bandwidth

(* RoutingPolicy::score is monotone: roundings never make a worse path win.*)
LEMMA ScoreMonotone ==
  ASSUME NEW p \in RoutingPolicy, NEW m \in Measurements, NEW n \in Measurements,
         Scorable(p, m), Scorable(p, n), NoBetter(n, m)
  PROVE  Score(p, n) =< Score(p, m)
<1>1. CASE ~n.available
  <2>1. Score(p, n) = 0
    BY <1>1 DEF Score
  <2> QED BY <2>1, ScoreRange, ScoreAssumption
<1>2. CASE n.available
  <2> DEFINE a(z) == InverseQuality(z.latency, p.limits.latency)
             b(z) == InverseQuality(z.jitter, p.limits.jitter)
             c(z) == QualityMax - z.loss
             d(z) == DirectQuality(z.bandwidth, p.limits.bandwidth)
             v == p.weights.latency
             w == p.weights.jitter
             x == p.weights.loss
             y == p.weights.bandwidth
  <2>1. /\ ValidPolicy(p) /\ m.available
        /\ n.loss =< QualityMax /\ m.loss =< QualityMax
    BY <1>2 DEF Scorable, NoBetter
  <2>2. \A z \in Measurements :
          z.latency \in Nat /\ z.jitter \in Nat /\ z.loss \in Nat /\ z.bandwidth \in Nat
    BY DEF Measurements
  <2>3. /\ v \in Nat /\ w \in Nat /\ x \in Nat /\ y \in Nat
        /\ TotalWeight(p) \in Nat \ {0}
    BY <2>1, PolicyTypes
  <2>4. \A z \in {m, n} :
          a(z) \in 0 .. QualityMax /\ b(z) \in 0 .. QualityMax /\ d(z) \in 0 .. QualityMax
    BY <2>1, <2>2, PolicyTypes, Qualities, Zenon
  <2>5. a(n) =< a(m) /\ b(n) =< b(m) /\ d(n) =< d(m)
    BY <2>1, <2>2, PolicyTypes, QualitiesMonotone DEF NoBetter
  <2>6. c(n) \in Nat /\ c(m) \in Nat /\ c(n) =< c(m)
    BY <2>1, <2>2, ScoreAssumption, SMTT(30) DEF NoBetter
  <2>7. \A z \in {m, n} :
          Score(p, z) = (a(z) * v + b(z) * w + c(z) * x + d(z) * y) \div TotalWeight(p)
    BY <1>2, <2>1 DEF Score, WeightedSum
  <2> HIDE DEF a, b, c, d, v, w, x, y
  <2>8. /\ a(n) * v + b(n) * w + c(n) * x + d(n) * y \in Nat
        /\ a(m) * v + b(m) * w + c(m) * x + d(m) * y \in Nat
        /\ a(n) * v + b(n) * w + c(n) * x + d(n) * y
             =< a(m) * v + b(m) * w + c(m) * x + d(m) * y
    BY <2>3, <2>4, <2>5, <2>6, ScoreAssumption, Weighted
  <2> QED BY <2>3, <2>7, <2>8, DividedMonotone
<1> QED BY <1>1, <1>2

PathInv ==
  /\ policy \in RoutingPolicy /\ ValidPolicy(policy)
  /\ measured \in Measurements /\ measured.loss =< QualityMax

(* A step makes one measurement worse and leaves a path that can be scored.*)
LEMMA PathWorsens ==
  ASSUME PathInv, ScoreNext
  PROVE  PathInv' /\ UNCHANGED policy /\ NoBetter(measured', measured)
<1>1. /\ measured.latency \in Nat /\ measured.jitter \in Nat /\ measured.loss \in Nat
      /\ measured.bandwidth \in Nat /\ measured.available \in BOOLEAN
      /\ measured.loss =< QualityMax
  BY DEF PathInv, Measurements
<1>2. UNCHANGED policy
  BY DEF ScoreNext
<1> SUFFICES /\ measured' \in Measurements /\ measured'.loss =< QualityMax
             /\ NoBetter(measured', measured)
  BY <1>2 DEF PathInv
<1> USE <1>1, ScoreAssumption, PathAssumption DEF NoBetter, Measurements, PathInv
<1>3. CASE Worsens("latency", MaxValue, 1)
  BY <1>3 DEF Worsens
<1>4. CASE Worsens("jitter", MaxJitter, 1)
  BY <1>4 DEF Worsens
<1>5. CASE Worsens("loss", QualityMax, 1)
  BY <1>5 DEF Worsens
<1>6. CASE Worsens("bandwidth", 0, -1)
  BY <1>6 DEF Worsens
<1>7. CASE measured' = [measured EXCEPT !.available = FALSE]
  <2>1. measured' \in Measurements
    BY <1>7, Zenon
  <2>2. /\ measured'.available = FALSE /\ measured'.latency = measured.latency
        /\ measured'.jitter = measured.jitter /\ measured'.loss = measured.loss
        /\ measured'.bandwidth = measured.bandwidth
    BY <1>7
  <2> QED BY <2>1, <2>2
<1> QED BY <1>3, <1>4, <1>5, <1>6, <1>7 DEF ScoreNext

(***************************************************************************)
(* RoutingPolicy::score: under any policy that validate accepts, a path    *)
(* that gets worse never scores higher, and every score is in range.       *)
(***************************************************************************)
THEOREM WorsePathNeverWins ==
  ASSUME NEW policies, policies \subseteq RoutingPolicy
  PROVE  ScoreSpec(policies) => WorseNeverScoresHigher
<1>1. ScoreInit(policies) => PathInv
  BY ScoreAssumption, PathAssumption DEF ScoreInit, PathInv, Measurements
<1>2. PathInv /\ [ScoreNext]_scoreVars => PathInv'
  BY PathWorsens DEF PathInv, scoreVars
<1>3. PathInv /\ [ScoreNext]_scoreVars =>
        [/\ Score(policy, measured') =< Score(policy, measured)
         /\ Score(policy, measured') \in 0 .. QualityMax]_scoreVars
  <2> SUFFICES ASSUME PathInv, ScoreNext
               PROVE  /\ Score(policy, measured') =< Score(policy, measured)
                      /\ Score(policy, measured') \in 0 .. QualityMax
    OBVIOUS
  <2>1. /\ policy \in RoutingPolicy /\ NoBetter(measured', measured)
        /\ measured \in Measurements /\ Scorable(policy, measured)
        /\ measured' \in Measurements /\ Scorable(policy, measured')
    BY PathWorsens DEF PathInv, Scorable
  <2> QED BY <2>1, ScoreMonotone, ScoreRange
<1> QED BY <1>1, <1>2, <1>3, PTL DEF ScoreSpec, WorseNeverScoresHigher

-----------------------------------------------------------------------------
(***************************************************************************)
(* The circuits follow the failures: the counter is the streak once both   *)
(* are cut off at the threshold, and a circuit is open exactly until the   *)
(* end of the cooldown of the latest failure of a long enough streak.      *)
(***************************************************************************)
CooldownEnds(n) ==
  IF /\ streak[n] >= FailureThreshold /\ failedAt[n] # NotOpen
     /\ failedAt[n] + CircuitCooldown =< InstantMax
  THEN failedAt[n] + CircuitCooldown ELSE NotOpen

CircuitsFollow ==
  \A n \in Nodes :
    /\ streak[n] = IF circuits[n].consecutiveFailures < FailureThreshold
                   THEN circuits[n].consecutiveFailures ELSE FailureThreshold
    /\ circuits[n].openUntil = CooldownEnds(n)

CircuitInv == SelectorTypeOK /\ CircuitsFollow

SelectorInv == CircuitInv /\ FailingNodeExcluded /\ AnswerNearBest

(* A node's circuit is open exactly while the node is failing.             *)
LEMMA OpenIsFailing ==
  ASSUME CircuitInv
  PROVE  \A n \in Nodes : CircuitIsOpen(n) <=> Failing(n)
<1> SUFFICES ASSUME NEW n \in Nodes PROVE CircuitIsOpen(n) <=> Failing(n)
  OBVIOUS
<1>1. circuits[n].openUntil = CooldownEnds(n)
  BY DEF CircuitInv, CircuitsFollow
<1>2. failedAt[n] \in 0 .. MaxTime \cup {NotOpen} /\ clock \in 0 .. MaxTime
  BY DEF CircuitInv, SelectorTypeOK
<1>3. failedAt[n] # NotOpen => failedAt[n] + CircuitCooldown \in Nat
  BY <1>2, SelectorAssumption
<1> QED BY <1>1, <1>2, <1>3, SelectorAssumption DEF CircuitIsOpen, Failing, CooldownEnds

(* eligible_candidates lists no node whose circuit is open.                *)
LEMMA EligibleAreWorking ==
  ASSUME CircuitInv, NEW c
  PROVE  Eligible(c) = {n \in Nodes : Available(c, n) /\ ~Failing(n)}
BY OpenIsFailing DEF Eligible

(* The candidates that are ranked have a score in range.                   *)
LEMMA CandidateScores ==
  ASSUME NEW c \in [Nodes -> Observations \cup {NotListed}], NEW n \in Nodes,
         Available(c, n), Scorable(Scoring, c[n])
  PROVE  ScoreOf(c, n) \in 0 .. QualityMax
<1>1. c[n] \in Measurements /\ Scoring \in RoutingPolicy
  BY SelectorAssumption DEF Available
<1> QED BY <1>1, ScoreRange DEF ScoreOf

(* record_failure keeps the counter and the deadline in step.              *)
LEMMA FailureKeepsCircuits ==
  ASSUME CircuitInv, NEW n \in Nodes, RecordFailure(n)
  PROVE  CircuitInv'
<1> DEFINE failures == Narrow(circuits[n].consecutiveFailures + 1)
           opened == IF failures >= FailureThreshold THEN OpenUntil ELSE circuits[n].openUntil
<1>0. /\ circuits[n].consecutiveFailures \in 0 .. U32Max
      /\ circuits[n].openUntil \in 0 .. InstantMax \cup {NotOpen}
      /\ streak[n] \in 0 .. FailureThreshold
      /\ clock \in 0 .. MaxTime
  BY DEF CircuitInv, SelectorTypeOK
<1>1. /\ circuits' = [circuits EXCEPT ![n] =
                       [consecutiveFailures |-> failures, openUntil |-> opened]]
      /\ streak' = [streak EXCEPT ![n] = IF @ < FailureThreshold THEN @ + 1 ELSE @]
      /\ failedAt' = [failedAt EXCEPT ![n] = clock]
      /\ UNCHANGED <<current, clock, candidates, answer>>
  BY SMTT(30) DEF RecordFailure
<1>2. failures \in 0 .. U32Max
  <2>1. \A k \in 0 .. U32Max : Narrow(k + 1) \in 0 .. U32Max
    BY ScoreAssumption DEF Narrow
  <2> QED BY <1>0, <2>1, Zenon
<1>3. streak[n] = IF circuits[n].consecutiveFailures < FailureThreshold
                  THEN circuits[n].consecutiveFailures ELSE FailureThreshold
  BY Zenon DEF CircuitInv, CircuitsFollow
<1>4. (IF streak[n] < FailureThreshold THEN streak[n] + 1 ELSE streak[n])
        = IF failures < FailureThreshold THEN failures ELSE FailureThreshold
  BY <1>0, <1>3, SelectorAssumption, ScoreAssumption, SMTT(30) DEF Narrow
<1>5. failures < FailureThreshold => circuits[n].openUntil = NotOpen
  <2>1. failures < FailureThreshold => streak[n] < FailureThreshold
    BY <1>0, <1>2, <1>3, SelectorAssumption, ScoreAssumption DEF Narrow
  <2> QED BY <1>0, <2>1, SelectorAssumption DEF CircuitInv, CircuitsFollow, CooldownEnds
<1>6. opened \in 0 .. InstantMax \cup {NotOpen}
  BY <1>0, SelectorAssumption DEF OpenUntil
<1> HIDE DEF failures
<1>7. opened = IF failures >= FailureThreshold /\ clock + CircuitCooldown =< InstantMax
               THEN clock + CircuitCooldown ELSE NotOpen
  BY <1>2, <1>5, SelectorAssumption DEF OpenUntil
<1> HIDE DEF opened
<1>8. SelectorTypeOK'
  BY <1>0, <1>1, <1>2, <1>6, SelectorAssumption DEF CircuitInv, SelectorTypeOK
<1>9. ASSUME NEW m \in Nodes
      PROVE  /\ streak'[m] = IF circuits'[m].consecutiveFailures < FailureThreshold
                              THEN circuits'[m].consecutiveFailures ELSE FailureThreshold
             /\ circuits'[m].openUntil = CooldownEnds(m)'
  <2>0. /\ circuits \in [Nodes -> [consecutiveFailures : 0 .. U32Max,
                                   openUntil : 0 .. InstantMax \cup {NotOpen}]]
        /\ streak \in [Nodes -> 0 .. FailureThreshold]
        /\ failedAt \in [Nodes -> 0 .. MaxTime \cup {NotOpen}]
    BY SMTT(30) DEF CircuitInv, SelectorTypeOK
  <2>1. CASE m # n
    <3>1. circuits'[m] = circuits[m] /\ streak'[m] = streak[m] /\ failedAt'[m] = failedAt[m]
      BY <1>1, <2>0, <2>1, Zenon
    <3> QED BY <3>1, Zenon DEF CircuitInv, CircuitsFollow, CooldownEnds
  <2>2. CASE m = n
    <3>1. /\ circuits'[n].consecutiveFailures = failures /\ circuits'[n].openUntil = opened
          /\ failedAt'[n] = clock
      BY <1>1, <2>0
    <3>2. streak'[n] = IF failures < FailureThreshold THEN failures ELSE FailureThreshold
      BY <1>1, <1>4, <2>0
    <3>3. clock # NotOpen
      BY <1>0, SelectorAssumption
    <3>4. streak'[n] >= FailureThreshold <=> failures >= FailureThreshold
      BY <1>2, <3>2, SelectorAssumption
    <3> QED BY <1>7, <2>2, <3>1, <3>2, <3>3, <3>4 DEF CooldownEnds
  <2> QED BY <2>1, <2>2
<1> QED BY <1>8, <1>9 DEF CircuitInv, CircuitsFollow

(* What a select that answers does: it keeps the route or takes the best.  *)
LEMMA SelectAnswers ==
  ASSUME CircuitInv, NEW c \in [Nodes -> Observations \cup {NotListed}], Select(c)
  PROVE  /\ candidates' = c /\ UNCHANGED <<circuits, clock, streak, failedAt>>
         /\ current'.id = answer' /\ answer' \in Eligible(c)
         /\ current' \in [id : Nodes \cup {NoNode}, selectedAt : 0 .. MaxTime]
         /\ \A n \in Eligible(c) : ScoreOf(c, n) \in 0 .. QualityMax
         /\ \/ \A n \in Eligible(c) : ScoreOf(c, n) =< ScoreOf(c, answer')
            \/ /\ current' = current
               /\ \E best \in Eligible(c) :
                    /\ \A n \in Eligible(c) : ScoreOf(c, n) =< ScoreOf(c, best)
                    /\ ~MayReplace(c, best)
         /\ current.id \in Eligible(c) /\ answer' # current.id => MayReplace(c, answer')
<1>1. PICK best \in Eligible(c) :
        /\ \A n \in Eligible(c) : ~Outranks(c, n, best)
        /\ \/ /\ current.id \in Eligible(c) /\ ~MayReplace(c, best)
              /\ answer' = current.id
              /\ UNCHANGED current
           \/ /\ ~(current.id \in Eligible(c) /\ ~MayReplace(c, best))
              /\ answer' = best
              /\ current' = IF current.id = best THEN current
                            ELSE [id |-> best, selectedAt |-> clock]
  BY DEF Select
<1>2. \A n \in Eligible(c) : ScoreOf(c, n) \in 0 .. QualityMax
  BY CandidateScores DEF Select, Eligible
<1>3. \A n \in Eligible(c) : ScoreOf(c, n) =< ScoreOf(c, best)
  BY <1>1, <1>2, ScoreAssumption DEF Outranks
<1>4. candidates' = c /\ UNCHANGED <<circuits, clock, streak, failedAt>>
  BY DEF Select
<1>5. /\ best \in Nodes /\ clock \in 0 .. MaxTime
      /\ current \in [id : Nodes \cup {NoNode}, selectedAt : 0 .. MaxTime]
  BY <1>1 DEF Eligible, CircuitInv, SelectorTypeOK
<1> HIDE DEF Eligible, ScoreOf, MayReplace
<1>6. CASE /\ current.id \in Eligible(c) /\ ~MayReplace(c, best)
           /\ answer' = current.id /\ UNCHANGED current
  BY <1>1, <1>2, <1>3, <1>4, <1>5, <1>6, SMTT(30)
<1>7. CASE /\ ~(current.id \in Eligible(c) /\ ~MayReplace(c, best))
           /\ answer' = best
           /\ current' = IF current.id = best THEN current
                         ELSE [id |-> best, selectedAt |-> clock]
  BY <1>1, <1>2, <1>3, <1>4, <1>5, <1>7
<1> QED BY <1>1, <1>6, <1>7, Zenon

(* Every step keeps the invariant of the circuits.                         *)
LEMMA CircuitsKept == CircuitInv /\ [SelectorNext]_selectorStateVars => CircuitInv'
<1> SUFFICES ASSUME CircuitInv, [SelectorNext]_selectorStateVars PROVE CircuitInv'
  OBVIOUS
<1>1. CASE Return
  BY <1>1, SMTT(30)
     DEF Return, CircuitInv, SelectorTypeOK, CircuitsFollow, CooldownEnds, selectorVars,
     NothingListed
<1>2. CASE Tick
  BY <1>2, SelectorAssumption, SMTT(30)
     DEF Tick, CircuitInv, SelectorTypeOK, CircuitsFollow, CooldownEnds,
     selectorVars
<1>3. ASSUME NEW n \in Nodes, RecordSuccess(n) PROVE CircuitInv'
  <2>1. SelectorTypeOK'
    BY <1>3, SelectorAssumption, ScoreAssumption, SMTT(30)
       DEF RecordSuccess, CircuitInv, SelectorTypeOK, ClosedCircuit
  <2>2. ASSUME NEW m \in Nodes
        PROVE  /\ streak'[m] = IF circuits'[m].consecutiveFailures < FailureThreshold
                                THEN circuits'[m].consecutiveFailures ELSE FailureThreshold
               /\ circuits'[m].openUntil = CooldownEnds(m)'
    <3>1. CASE m = n
      <4>1. circuits'[m] = ClosedCircuit /\ streak'[m] = 0 /\ failedAt'[m] = NotOpen
        BY <1>3, <3>1, SMTT(30) DEF RecordSuccess, CircuitInv, SelectorTypeOK
      <4> QED BY <4>1, SelectorAssumption DEF ClosedCircuit, CooldownEnds
    <3>2. CASE m # n
      <4>1. circuits'[m] = circuits[m] /\ streak'[m] = streak[m] /\ failedAt'[m] = failedAt[m]
        BY <1>3, <3>2 DEF RecordSuccess, CircuitInv, SelectorTypeOK
      <4> QED BY <4>1, Zenon DEF CircuitInv, CircuitsFollow, CooldownEnds
    <3> QED BY <3>1, <3>2
  <2> QED BY <2>1, <2>2 DEF CircuitInv, CircuitsFollow
<1>4. ASSUME NEW c \in [Nodes -> Observations \cup {NotListed}], SelectFails(c) PROVE CircuitInv'
  BY <1>4 DEF SelectFails, CircuitInv, SelectorTypeOK, CircuitsFollow, CooldownEnds, selectorVars
<1>5. ASSUME NEW c \in [Nodes -> Observations \cup {NotListed}], Select(c) PROVE CircuitInv'
  <2>1. /\ candidates' = c /\ UNCHANGED <<circuits, clock, streak, failedAt>>
        /\ answer' \in Nodes
        /\ current' \in [id : Nodes \cup {NoNode}, selectedAt : 0 .. MaxTime]
    BY <1>5, SelectAnswers, SMTT(30) DEF Eligible
  <2> QED BY <2>1 DEF CircuitInv, SelectorTypeOK, CircuitsFollow, CooldownEnds
<1>6. CASE UNCHANGED selectorStateVars
  BY <1>6
     DEF selectorStateVars, selectorVars, CircuitInv, SelectorTypeOK, CircuitsFollow, CooldownEnds
<1> QED BY <1>1, <1>2, <1>3, <1>4, <1>5, <1>6, FailureKeepsCircuits DEF SelectorNext

(* An answer, or an error, is justified by the failures recorded so far.   *)
LEMMA AnswersJustified ==
  SelectorInv /\ [SelectorNext]_selectorStateVars => FailingNodeExcluded' /\ AnswerNearBest'
<1> SUFFICES ASSUME SelectorInv, [SelectorNext]_selectorStateVars
             PROVE  FailingNodeExcluded' /\ AnswerNearBest'
  OBVIOUS
<1>0. CircuitInv /\ CircuitInv'
  BY CircuitsKept DEF SelectorInv
<1>1. ASSUME answer' = NoNode PROVE FailingNodeExcluded' /\ AnswerNearBest'
  BY <1>1, SelectorAssumption DEF FailingNodeExcluded, AnswerNearBest
<1>2. ASSUME NEW c \in [Nodes -> Observations \cup {NotListed}], SelectFails(c)
      PROVE  FailingNodeExcluded' /\ AnswerNearBest'
  <2>1. /\ Eligible(c) = {} \/ \E n \in Eligible(c) : ~Scorable(Scoring, c[n])
        /\ candidates' = c /\ answer' = RoutingError
        /\ UNCHANGED <<clock, streak, failedAt>>
    BY <1>2 DEF SelectFails
  <2>2. Eligible(c) = {n \in Nodes : Available(c, n) /\ ~Failing(n)}
    BY <1>0, EligibleAreWorking, SMTT(30)
  <2>3. Eligible(c) = {n \in Nodes : Available(candidates', n) /\ ~Failing(n)'}
    BY <2>1, <2>2 DEF Failing
  <2> QED BY <2>1, <2>3, SelectorAssumption, Zenon DEF FailingNodeExcluded, AnswerNearBest
<1>3. ASSUME NEW c \in [Nodes -> Observations \cup {NotListed}], Select(c)
      PROVE  FailingNodeExcluded' /\ AnswerNearBest'
  <2>1. /\ candidates' = c /\ UNCHANGED <<circuits, clock, streak, failedAt>>
        /\ current'.id = answer' /\ answer' \in Eligible(c)
        /\ \A n \in Eligible(c) : ScoreOf(c, n) \in 0 .. QualityMax
        /\ \/ \A n \in Eligible(c) : ScoreOf(c, n) =< ScoreOf(c, answer')
           \/ /\ current' = current
              /\ \E best \in Eligible(c) :
                   /\ \A n \in Eligible(c) : ScoreOf(c, n) =< ScoreOf(c, best)
                   /\ ~MayReplace(c, best)
    BY <1>0, <1>3, SelectAnswers, SMTT(30)
  <2>2. Eligible(c) = {n \in Nodes : Available(c, n) /\ ~Failing(n)}
    BY <1>0, EligibleAreWorking
  <2>3. FailingNodeExcluded'
    BY <2>1, <2>2, SelectorAssumption DEF FailingNodeExcluded, Failing
  <2>4. Eligible(c)' = Eligible(c)
    BY <2>1, Zenon DEF Eligible, CircuitIsOpen
  <2>5. current \in [id : Nodes \cup {NoNode}, selectedAt : 0 .. MaxTime] /\ clock \in 0 .. MaxTime
    BY <1>0 DEF CircuitInv, SelectorTypeOK
  <2>6. ASSUME NEW best \in Eligible(c), NEW n \in Eligible(c),
               ScoreOf(c, n) =< ScoreOf(c, best), ~MayReplace(c, best), current' = current
        PROVE  \/ ScoreOf(c, n) < ScoreOf(c, answer') + SwitchMargin
               \/ clock' < current'.selectedAt + MinimumDwellTime
    <3> DEFINE s == ScoreOf(c, n)
               t == ScoreOf(c, best)
               u == ScoreOf(c, current.id)
    <3>1. s \in Nat /\ t \in Nat /\ u \in Nat /\ s =< t /\ current.id = answer'
      BY <2>1, <2>6, ScoreAssumption
    <3>2. \/ ~(clock - current.selectedAt >= MinimumDwellTime)
          \/ ~(t >= Narrow(u + SwitchMargin))
      BY <2>6 DEF MayReplace
    <3> HIDE DEF s, t, u
    <3>3. \/ clock < current.selectedAt + MinimumDwellTime
          \/ s < u + SwitchMargin
      BY <2>5, <3>1, <3>2, SelectorAssumption, ScoreAssumption DEF Narrow
    <3> QED BY <2>1, <2>6, <3>1, <3>3 DEF s, t, u
  <2>7. \A n \in Eligible(c) :
          \/ ScoreOf(c, n) =< ScoreOf(c, answer')
          \/ ScoreOf(c, n) < ScoreOf(c, answer') + SwitchMargin
          \/ clock' < current'.selectedAt + MinimumDwellTime
    BY <2>1, <2>6
  <2>8. AnswerNearBest'
    BY <2>1, <2>4, <2>7 DEF AnswerNearBest, ScoreOf
  <2> QED BY <2>3, <2>8
<1>4. CASE UNCHANGED selectorStateVars
  BY <1>4, Zenon
     DEF selectorStateVars, selectorVars, SelectorInv, FailingNodeExcluded, AnswerNearBest,
     Failing, Eligible, CircuitIsOpen, ScoreOf
<1>5. CASE Return
  BY <1>1, <1>5 DEF Return
<1>6. CASE answer = NoNode /\ (Tick \/ \E n \in Nodes : RecordFailure(n) \/ RecordSuccess(n))
  BY <1>1, <1>6 DEF Tick, RecordFailure, RecordSuccess
<1> QED BY <1>2, <1>3, <1>4, <1>5, <1>6 DEF SelectorNext

(***************************************************************************)
(* RouteSelector: for any nodes, scores, thresholds and cooldowns, and any *)
(* order of calls, select answers neither a failing node nor one that is   *)
(* clearly worse than the best, unless the dwell time holds it back.       *)
(***************************************************************************)
THEOREM SelectorInvariance == SelectorSpec => []SelectorInv
<1>1. SelectorInit => SelectorInv
  <2>1. SelectorInit => CircuitInv
    BY SelectorAssumption, ScoreAssumption
       DEF SelectorInit, CircuitInv, SelectorTypeOK, CircuitsFollow, CooldownEnds, NoRoute,
           ClosedCircuit, NothingListed
  <2> QED BY <2>1, SelectorAssumption, SMTT(30)
         DEF SelectorInit, SelectorInv, FailingNodeExcluded, AnswerNearBest
<1>2. SelectorInv /\ [SelectorNext]_selectorStateVars => SelectorInv'
  BY CircuitsKept, AnswersJustified DEF SelectorInv
<1> QED BY <1>1, <1>2, PTL DEF SelectorSpec

(* record_failure and select: a node with an open circuit is left out.     *)
THEOREM FailingNodesLeftOut == SelectorSpec => []FailingNodeExcluded
BY SelectorInvariance, PTL DEF SelectorInv

(* select: the answer is within the margin of the best, or dwelling.       *)
THEOREM AnswersNearBest == SelectorSpec => []AnswerNearBest
BY SelectorInvariance, PTL DEF SelectorInv

(***************************************************************************)
(* RouteSelector::select: for every margin and dwell time, a route that    *)
(* works is only given up for a clear gain after its dwell time; the       *)
(* saturating addition of the margin never weakens the comparison, since   *)
(* scores stay below the largest u32.                                      *)
(***************************************************************************)
THEOREM RoutesDoNotFlap == SelectorSpec => NoFlapping
<1> DEFINE Held ==
      (current.id \in Nodes /\ current'.id # current.id
        /\ Available(candidates', current.id) /\ ~Failing(current.id))
      => /\ clock >= current.selectedAt + MinimumDwellTime
         /\ ScoreOf(candidates', current'.id)
              >= ScoreOf(candidates', current.id) + SwitchMargin
<1>1. SelectorInv /\ [SelectorNext]_selectorStateVars => [Held]_selectorStateVars
  <2> SUFFICES ASSUME SelectorInv, SelectorNext,
                      current.id \in Nodes, current'.id # current.id,
                      Available(candidates', current.id), ~Failing(current.id)
               PROVE  /\ clock >= current.selectedAt + MinimumDwellTime
                      /\ ScoreOf(candidates', current'.id)
                           >= ScoreOf(candidates', current.id) + SwitchMargin
    BY DEF Held
  <2>1. PICK c \in [Nodes -> Observations \cup {NotListed}] : Select(c)
    BY Zenon DEF SelectorNext, Return, Tick, RecordFailure, RecordSuccess, SelectFails, selectorVars
  <2>2. /\ candidates' = c /\ current'.id = answer' /\ answer' \in Eligible(c)
        /\ \A n \in Eligible(c) : ScoreOf(c, n) \in 0 .. QualityMax
        /\ current.id \in Eligible(c) /\ answer' # current.id => MayReplace(c, answer')
    BY <2>1, SelectAnswers DEF SelectorInv
  <2>3. current.id \in Eligible(c)
    BY <2>2, EligibleAreWorking, Zenon DEF SelectorInv
  <2> DEFINE s == ScoreOf(c, answer')
             u == ScoreOf(c, current.id)
  <2>4. s \in 0 .. QualityMax /\ u \in 0 .. QualityMax
    BY <2>2, <2>3, Zenon
  <2>5. clock - current.selectedAt >= MinimumDwellTime /\ s >= Narrow(u + SwitchMargin)
    BY <2>2, <2>3, Zenon DEF MayReplace
  <2>6. current \in [id : Nodes \cup {NoNode}, selectedAt : 0 .. MaxTime] /\ clock \in 0 .. MaxTime
    BY DEF SelectorInv, CircuitInv, SelectorTypeOK
  <2> HIDE DEF s, u
  <2>7. clock >= current.selectedAt + MinimumDwellTime /\ s >= u + SwitchMargin
    BY <2>4, <2>5, <2>6, SelectorAssumption, ScoreAssumption DEF Narrow
  <2> QED BY <2>2, <2>7, SMTT(30) DEF s, u
<1> QED BY <1>1, SelectorInvariance, PTL DEF SelectorSpec, NoFlapping

-----------------------------------------------------------------------------
(* The parts of a network, a route or an interface address.                *)
LEMMA PrefixedTypes ==
  ASSUME NEW n \in Prefixed
  PROVE  /\ n.family \in Families /\ n.prefix \in Nat
         /\ n.address \in Nat /\ n.address \in Addresses(n.family)
         /\ n = [family |-> n.family, address |-> n.address, prefix |-> n.prefix]
         /\ Width[n.family] \in Nat \ {0}
         /\ 0 \in Addresses(n.family)
<1>1. PICK f \in Families : n \in [family : {f}, address : Addresses(f), prefix : PrefixLengths(f)]
  BY Zenon DEF Prefixed
<1>2. Width[f] \in Nat \ {0}
  BY AddressAssumption
<1>3. Pow2[Width[f]] \in Nat \ {0}
  BY <1>2, PowersPositive
<1>4. n.family = f /\ n.address \in Addresses(f) /\ n.prefix \in PrefixLengths(f)
  BY <1>1
<1>5. n.prefix \in Nat
  BY <1>2, <1>4 DEF PrefixLengths
<1>6. n.address \in Nat /\ 0 \in Addresses(f)
  BY <1>3, <1>4 DEF Addresses
<1>7. n = [family |-> n.family, address |-> n.address, prefix |-> n.prefix]
  BY <1>1
<1> QED BY <1>2, <1>4, <1>5, <1>6, <1>7

(* Dividing by m and then by k is dividing by m * k, so numbers in one     *)
(* block are in one block of any multiple of its size.                     *)
LEMMA DividedTwice ==
  ASSUME NEW a \in Nat, NEW m \in Nat \ {0}, NEW k \in Nat \ {0}
  PROVE  (a \div m) \div k = a \div (m * k)
BY SMTT(30)

(* Addresses in one block are in one block of any shorter prefix.          *)
LEMMA LargerBlocks ==
  ASSUME NEW f \in Families, NEW a \in Nat, NEW b \in Nat, NEW p \in Nat, NEW q \in Nat,
         p =< q, q =< Width[f],
         a \div Pow2[Width[f] - q] = b \div Pow2[Width[f] - q]
  PROVE  a \div Pow2[Width[f] - p] = b \div Pow2[Width[f] - p]
<1> DEFINE m == Pow2[Width[f] - q]
           k == Pow2[q - p]
<1>1. Width[f] \in Nat
  BY AddressAssumption
<1>2. Width[f] - q \in Nat /\ q - p \in Nat /\ Width[f] - p = (Width[f] - q) + (q - p)
  BY <1>1
<1>3. m \in Nat \ {0} /\ k \in Nat \ {0}
  BY <1>2, PowersPositive
<1>4. Pow2[Width[f] - p] = m * k
  BY <1>2, PowersMultiply, Zenon
<1> HIDE DEF k
<1>5. a \div (m * k) = (a \div m) \div k /\ b \div (m * k) = (b \div m) \div k
  <2> HIDE DEF m
  <2> QED BY <1>3, DividedTwice, Zenon
<1> QED BY <1>4, <1>5, SMTT(30)

(* The shift of a valid prefix other than 0 is not reduced.                *)
LEMMA BlockOf ==
  ASSUME NEW f \in Families, NEW a \in Nat, NEW p \in Nat, p # 0, p =< Width[f]
  PROVE  Block(f, a, p) = a \div Pow2[Width[f] - p]
<1>1. Width[f] \in Nat
  BY AddressAssumption
<1>2. (Width[f] - p) % Width[f] = Width[f] - p
  BY <1>1
<1> QED BY <1>2 DEF Block

(* networks_overlap finds every two client networks that share an address. *)
LEMMA OverlapFound ==
  ASSUME NEW m \in Prefixed, NEW n \in Prefixed, ValidClientNetwork(m), ValidClientNetwork(n),
         HostsOf(m) \cap HostsOf(n) # {}
  PROVE  NetworksOverlap(m, n)
<1>1. PICK h : h \in HostsOf(m) /\ h \in HostsOf(n)
  OBVIOUS
<1>2. m.family = n.family /\ h[2] \in Members(m) /\ h[2] \in Members(n)
  BY <1>1 DEF HostsOf
<1> DEFINE f == m.family
           a == h[2]
           shorter == IF m.prefix < n.prefix THEN m.prefix ELSE n.prefix
<1>3. /\ f \in Families /\ m.address \in Nat /\ n.address \in Nat
      /\ m.prefix \in Nat /\ n.prefix \in Nat
      /\ Width[f] \in Nat \ {0}
  BY PrefixedTypes, SMTT(30)
<1>4. m.prefix # 0 /\ m.prefix =< Width[f] /\ n.prefix # 0 /\ n.prefix =< Width[f]
  BY <1>2, SMTT(30) DEF ValidClientNetwork, ValidNetwork
<1>5. Pow2[Width[f]] \in Nat \ {0}
  BY <1>3, PowersPositive
<1>6. /\ a \in Addresses(f)
      /\ a \div Pow2[Width[f] - m.prefix] = m.address \div Pow2[Width[f] - m.prefix]
      /\ a \div Pow2[Width[f] - n.prefix] = n.address \div Pow2[Width[f] - n.prefix]
  BY <1>2, Zenon DEF Members
<1>7. a \in Nat
  <2>1. a \in 0 .. Pow2[Width[f]] - 1
    BY <1>6, Zenon DEF Addresses
  <2> QED BY <1>5, <2>1
<1> HIDE DEF f, a
<1>8. shorter \in Nat /\ shorter # 0 /\ shorter =< m.prefix /\ shorter =< n.prefix
      /\ shorter =< Width[f]
  BY <1>3, <1>4, SMTT(30)
<1> HIDE DEF shorter
<1>9. a \div Pow2[Width[f] - shorter] = m.address \div Pow2[Width[f] - shorter]
  BY <1>3, <1>4, <1>6, <1>7, <1>8, LargerBlocks, SMTT(30)
<1>10. a \div Pow2[Width[f] - shorter] = n.address \div Pow2[Width[f] - shorter]
  BY <1>3, <1>4, <1>6, <1>7, <1>8, LargerBlocks, SMTT(30)
<1>11. Block(f, m.address, shorter) = Block(f, n.address, shorter)
  BY <1>3, <1>8, <1>9, <1>10, BlockOf, SMTT(30)
<1> QED BY <1>2, <1>11 DEF NetworksOverlap, f, shorter

(* A client network leaves out the address zero of its family.             *)
LEMMA ZeroLeftOut ==
  ASSUME NEW n \in Prefixed, ValidClientNetwork(n)
  PROVE  Members(n) # Addresses(n.family)
<1> DEFINE size == Pow2[Width[n.family] - n.prefix]
<1>1. /\ n.address # 0 /\ n.address % size = 0
      /\ n.address \in Nat /\ 0 \in Addresses(n.family)
  BY PrefixedTypes, SMTT(30) DEF ValidClientNetwork, ValidNetwork, Unspecified
<1>2. Width[n.family] - n.prefix \in Nat
  <2>1. n.prefix \in Nat /\ n.prefix =< Width[n.family] /\ Width[n.family] \in Nat
    BY PrefixedTypes DEF ValidClientNetwork, ValidNetwork
  <2>2. \A w, p \in Nat : p =< w => w - p \in Nat
    OBVIOUS
  <2> QED BY <2>1, <2>2, Zenon
<1>3. size \in Nat \ {0}
  BY <1>2, PowersPositive, Zenon
<1>4. \A a \in Members(n) : a \div size = n.address \div size
  BY Zenon DEF Members
<1> HIDE DEF size
<1>5. 0 \div size = 0 /\ n.address \div size # 0
  BY <1>1, <1>3
<1> QED BY <1>1, <1>4, <1>5, Zenon

PlanTyped == networks \in Seq(Prefixed) /\ addresses \in Seq(Prefixed)

(* WireGuardNodeGatewayPolicy::validate: the networks are disjoint.        *)
LEMMA GatewayDisjoint ==
  ASSUME PlanTyped, ValidGatewayPolicy(networks),
         NEW i \in DOMAIN networks, NEW j \in DOMAIN networks, i # j
  PROVE  HostsOf(networks[i]) \cap HostsOf(networks[j]) = {}
<1>1. /\ DOMAIN networks = 1 .. Len(networks) /\ Len(networks) \in Nat
      /\ \A k \in DOMAIN networks : networks[k] \in Prefixed
  BY DEF PlanTyped
<1>2. ASSUME NEW k \in DOMAIN networks, NEW l \in DOMAIN networks, k < l
      PROVE  HostsOf(networks[k]) \cap HostsOf(networks[l]) = {}
  <2>1. k \in 1 .. l - 1
    BY <1>1, <1>2
  <2>2. ~NetworksOverlap(networks[k], networks[l])
    BY <2>1 DEF ValidGatewayPolicy
  <2>3. ValidClientNetwork(networks[k]) /\ ValidClientNetwork(networks[l])
    BY DEF ValidGatewayPolicy
  <2> QED BY <1>1, <2>2, <2>3, OverlapFound
<1>3. i < j \/ j < i
  BY <1>1
<1>4. CASE i < j
  BY <1>2, <1>4
<1>5. CASE j < i
  BY <1>2, <1>5
<1> QED BY <1>3, <1>4, <1>5

(* The host that an interface address is.                                  *)
HostAt(a) == <<addresses[a].family, addresses[a].address>>

(* An address that network_matches_address accepts is in the network.      *)
LEMMA MatchedIsMember ==
  ASSUME PlanTyped, ValidGatewayPolicy(networks),
         NEW i \in DOMAIN networks, NEW a \in DOMAIN addresses,
         NetworkMatchesAddress(networks[i], addresses[a])
  PROVE  HostAt(a) \in HostsOf(networks[i])
<1> DEFINE n == networks[i]
           b == addresses[a]
<1>1. n \in Prefixed /\ b \in Prefixed
  BY DEF PlanTyped
<1>2. n.prefix # 0 /\ n.prefix =< Width[n.family]
  BY Zenon DEF ValidGatewayPolicy, ValidClientNetwork, ValidNetwork
<1>3. /\ n.family = b.family
      /\ Block(n.family, n.address, n.prefix) = Block(n.family, b.address, n.prefix)
  BY DEF NetworkMatchesAddress
<1>4. HostAt(a) = <<b.family, b.address>>
  BY DEF HostAt
<1> HIDE DEF n, b
<1>5. /\ n.family \in Families /\ n.address \in Nat /\ n.prefix \in Nat
      /\ b.address \in Nat /\ b.address \in Addresses(n.family)
  BY <1>1, <1>3, PrefixedTypes, SMTT(30)
<1>6. n.address \div Pow2[Width[n.family] - n.prefix]
        = b.address \div Pow2[Width[n.family] - n.prefix]
  BY <1>2, <1>3, <1>5, BlockOf, SMTT(30)
<1>7. b.address \in Members(n)
  BY <1>5, <1>6, SMTT(30) DEF Members
<1>8. HostAt(a) \in HostsOf(n)
  BY <1>3, <1>4, <1>7 DEF HostsOf
<1> QED BY <1>8, SMTT(30) DEF n

(***************************************************************************)
(* WireGuardNodeGatewayPolicy::validate_for_node: choosing an address for  *)
(* every network is an injection between lists of one length, so it        *)
(* reaches every address.                                                  *)
(***************************************************************************)
LEMMA AddressInOneNetwork ==
  ASSUME PlanTyped, ValidForNode(networks, addresses), NEW a \in DOMAIN addresses
  PROVE  Cardinality({i \in DOMAIN networks : HostAt(a) \in HostsOf(networks[i])}) = 1
<1>1. /\ ValidGatewayPolicy(networks) /\ Len(networks) = Len(addresses)
      /\ \A i \in DOMAIN networks : \E j \in DOMAIN addresses :
           NetworkMatchesAddress(networks[i], addresses[j])
  BY DEF ValidForNode
<1> DEFINE size == Len(networks)
           S == 1 .. size
           chosen == [i \in S |-> CHOOSE j \in S : NetworkMatchesAddress(networks[i], addresses[j])]
<1>2. DOMAIN networks = S /\ DOMAIN addresses = S /\ size \in Nat
  BY <1>1 DEF PlanTyped
<1>3. \A i \in S : chosen[i] \in S /\ NetworkMatchesAddress(networks[i], addresses[chosen[i]])
  BY <1>1, <1>2
<1> HIDE DEF chosen
<1>4. \A i \in S : HostAt(chosen[i]) \in HostsOf(networks[i])
  BY <1>1, <1>2, <1>3, MatchedIsMember, Zenon
<1>5. \A i, j \in S : i # j => HostsOf(networks[i]) \cap HostsOf(networks[j]) = {}
  BY <1>1, <1>2, GatewayDisjoint, Zenon
<1>6. \A i, j \in S : chosen[i] = chosen[j] => i = j
  BY <1>4, <1>5
<1>7. chosen \in Injection(S, S)
  <2>1. chosen \in [S -> S]
    BY <1>3 DEF chosen
  <2> QED BY <1>6, <2>1 DEF Injection, IsInjective
<1>8. IsFiniteSet(S)
  BY <1>2, FS_Interval
<1>9. chosen \in Surjection(S, S)
  BY <1>7, <1>8, FS_Injection
<1>10. PICK i \in S : chosen[i] = a
  BY <1>2, <1>9 DEF Surjection
<1>11. {k \in DOMAIN networks : HostAt(a) \in HostsOf(networks[k])} = {i}
  BY <1>2, <1>4, <1>5, <1>10
<1> QED BY <1>11, FS_Singleton, Zenon

(***************************************************************************)
(* WireGuardNodePeer::validate: a host route is one address, and different *)
(* routes are different addresses.                                         *)
(***************************************************************************)
LEMMA RoutesAreHosts ==
  ASSUME PlanTyped, ValidPeerRoutes(networks)
  PROVE  Cardinality(UNION {HostsOf(networks[i]) : i \in DOMAIN networks}) = Len(networks)
<1> DEFINE S == 1 .. Len(networks)
           host == [i \in S |-> <<networks[i].family, networks[i].address>>]
           T == UNION {HostsOf(networks[i]) : i \in S}
<1>1. /\ DOMAIN networks = S /\ Len(networks) \in Nat
      /\ \A i \in S : networks[i] \in Prefixed
  BY DEF PlanTyped
<1>2. \A i \in S : /\ networks[i].prefix = Width[networks[i].family]
                    /\ \A j \in 1 .. i - 1 : networks[j] # networks[i]
  BY <1>1 DEF ValidPeerRoutes, HostPrefix
<1>3. ASSUME NEW i \in S PROVE HostsOf(networks[i]) = {host[i]}
  <2>1. /\ Width[networks[i].family] \in Nat
        /\ networks[i].address \in Nat /\ networks[i].address \in Addresses(networks[i].family)
    BY <1>1, PrefixedTypes
  <2>2. Width[networks[i].family] - networks[i].prefix = 0 /\ Pow2[0] = 1
    <3>1. networks[i].prefix = Width[networks[i].family]
      BY <1>2, SMTT(30)
    <3>2. Width[networks[i].family] - Width[networks[i].family] = 0
      BY <2>1, SMTT(30)
    <3> QED BY <3>1, <3>2, PowersDefined, Zenon
  <2>3. Addresses(networks[i].family) \subseteq Nat
    <3>1. Pow2[Width[networks[i].family]] \in Nat
      BY <2>1, PowersPositive, SMTT(30)
    <3> QED BY <3>1, SMTT(30) DEF Addresses
  <2>4. Members(networks[i]) = {networks[i].address}
    <3>1. \A b \in Nat : b \div 1 = b
      BY SMTT(30)
    <3>2. Members(networks[i])
            = {b \in Addresses(networks[i].family) : b \div 1 = networks[i].address \div 1}
      BY <2>2, SMTT(30) DEF Members
    <3> QED BY <2>1, <2>3, <3>1, <3>2
  <2> QED BY <2>4 DEF HostsOf
<1>4. T = {host[i] : i \in S}
  BY <1>3
<1>5. ASSUME NEW i \in S, NEW j \in S, host[i] = host[j] PROVE i = j
  <2>1. networks[i].family = networks[j].family /\ networks[i].address = networks[j].address
    BY <1>5
  <2>2. networks[i] = networks[j]
    BY <1>1, <1>2, <2>1, PrefixedTypes
  <2>3. ~(i < j) /\ ~(j < i)
    <3>1. i < j => i \in 1 .. j - 1
      BY <1>1
    <3>2. j < i => j \in 1 .. i - 1
      BY <1>1
    <3> QED BY <1>2, <2>2, <3>1, <3>2
  <2> QED BY <1>1, <2>3
<1> HIDE DEF T, host
<1>6. host \in Bijection(S, T)
  <2>1. host \in [S -> T]
    BY <1>4 DEF host
  <2> QED BY <1>4, <1>5, <2>1 DEF Bijection, Injection, Surjection, IsInjective
<1>7. IsFiniteSet(S) /\ Cardinality(S) = Len(networks)
  BY <1>1, FS_Interval
<1>8. Cardinality(T) = Cardinality(S)
  BY <1>6, <1>7, FS_Bijection DEF ExistsBijection
<1> QED BY <1>1, <1>7, <1>8, Zenon DEF T

(***************************************************************************)
(* The validation of a node's plan: for every width, list length and       *)
(* multicast range, the networks, interface addresses and peer routes that *)
(* it accepts give no address to two parties.                              *)
(***************************************************************************)
THEOREM PlanAssignsOnce == PlanSpec => []AddressesAssignedOnce
<1>1. PlanInit => PlanTyped
  BY DEF PlanInit, PlanTyped
<1>2. PlanTyped /\ [PlanNext]_planVars => PlanTyped'
  <2> SUFFICES ASSUME PlanTyped, [PlanNext]_planVars PROVE PlanTyped'
    OBVIOUS
  <2>1. ASSUME NEW n \in Prefixed, networks' = Append(networks, n), UNCHANGED addresses
        PROVE  PlanTyped'
    BY <2>1 DEF PlanTyped
  <2>2. ASSUME NEW a \in Prefixed, addresses' = Append(addresses, a), UNCHANGED networks
        PROVE  PlanTyped'
    BY <2>2 DEF PlanTyped
  <2>3. CASE UNCHANGED planVars
    BY <2>3 DEF PlanTyped, planVars
  <2> QED BY <2>1, <2>2, <2>3 DEF PlanNext
<1>3. PlanTyped => AddressesAssignedOnce
  <2> SUFFICES ASSUME PlanTyped PROVE AddressesAssignedOnce
    OBVIOUS
  <2>1. ValidGatewayPolicy(networks) =>
          \A i, j \in DOMAIN networks :
            /\ Members(networks[i]) # Addresses(networks[i].family)
            /\ i # j => HostsOf(networks[i]) \cap HostsOf(networks[j]) = {}
    <3> SUFFICES ASSUME ValidGatewayPolicy(networks), NEW i \in DOMAIN networks
                 PROVE  Members(networks[i]) # Addresses(networks[i].family)
      BY GatewayDisjoint
    <3>1. networks[i] \in Prefixed /\ ValidClientNetwork(networks[i])
      BY DEF PlanTyped, ValidGatewayPolicy
    <3> QED BY <3>1, ZeroLeftOut
  <2> QED BY <2>1, AddressInOneNetwork, RoutesAreHosts, Zenon DEF AddressesAssignedOnce, HostAt
<1> QED BY <1>1, <1>2, <1>3, PTL DEF PlanSpec

-----------------------------------------------------------------------------
(* The configurations a deserialized file gives, as far as types go.       *)
WellTyped(c) == c.key \in Seq(TextByte) /\ c.timeout \in Nat

(* What --check answers for c.                                             *)
VerdictOf(c) ==
  IF LoadsAndLeases(c) /\ SettingsPanic(c) THEN "panicked"
  ELSE IF LoadsAndLeases(c) /\ Validates(c) THEN "ok" ELSE "err"

(***************************************************************************)
(* How far a run has come tells which inputs it has looked at, and an exit *)
(* which of them it did not accept.                                        *)
(***************************************************************************)
ProfileInv ==
  /\ WellTyped(config)
  /\ verdict \in {"none", VerdictOf(config)}
  /\ armed \/ stage \in {"settings", "built"} =>
       LoadsAndLeases(config) /\ ConnectionSettings(config)
  /\ armed => Builds(config)
  /\ stage = "err" =>
       ~LoadsAndLeases(config) \/ ~ConnectionSettings(config) \/ ~Builds(config)
  /\ stage = "panicked" =>
       (LoadsAndLeases(config) /\ SettingsPanic(config)) \/ config.timeout > LongestTimeout

(***************************************************************************)
(* --check and run (apps/linux-client/src): for every configuration, the   *)
(* invariant that the three results below rest on.                         *)
(***************************************************************************)
THEOREM ProfileInvariance ==
  ASSUME NEW configs, \A c \in configs : WellTyped(c)
  PROVE  ProfileSpec(configs) => []ProfileInv
<1>1. ProfileInit(configs) => ProfileInv
  BY DEF ProfileInit, ProfileInv
<1>2. ProfileInv /\ [ProfileNext]_profileVars => ProfileInv'
  <2> SUFFICES ASSUME ProfileInv, [ProfileNext]_profileVars PROVE ProfileInv'
    BY SMTT(30)
  <2> USE DEF ProfileInv
  <2>1. CASE Check
    BY <2>1 DEF Check, VerdictOf
  <2>2. CASE Run
    BY <2>2 DEF Run
  <2>3. CASE Build
    BY <2>3 DEF Build
  <2>4. CASE Connect
    BY <2>4, ProfileAssumption, SMTT(30) DEF Connect, WellTyped
  <2>5. CASE UNCHANGED profileVars
    BY <2>5 DEF profileVars
  <2> QED BY <2>1, <2>2, <2>3, <2>4, <2>5, Zenon DEF ProfileNext
<1> QED BY <1>1, <1>2, PTL DEF ProfileSpec

(***************************************************************************)
(* LinuxWireGuardConnection::system looks again at every input that        *)
(* validate_client_configuration looks at: whatever the configuration, one *)
(* that --check refuses never arms filtering.                              *)
(***************************************************************************)
THEOREM RefusedStaysOut ==
  ASSUME NEW configs, \A c \in configs : WellTyped(c)
  PROVE  ProfileSpec(configs) => []RefusedNeverArms
<1>1. ProfileInv => RefusedNeverArms
  BY Zenon DEF ProfileInv, RefusedNeverArms, VerdictOf, Validates, Builds, SettingsPanic,
     ConnectionSettings
<1> QED BY <1>1, ProfileInvariance, PTL

(***************************************************************************)
(* validate_client_configuration: whatever the configuration, a run of one *)
(* that --check accepts, but for the two exceptions, is not refused.       *)
(***************************************************************************)
THEOREM AcceptedIsRun ==
  ASSUME NEW configs, \A c \in configs : WellTyped(c)
  PROVE  ProfileSpec(configs) => []AcceptedStarts
<1>1. ProfileInv => AcceptedStarts
  BY Zenon DEF ProfileInv, AcceptedStarts, VerdictOf, Validates, Builds, SettingsPanic,
     ConnectionSettings, BeyondTheCheck
<1> QED BY <1>1, ProfileInvariance, PTL

(* decode_key succeeds only if every pair of characters converts.          *)
LEMMA AllPairsConvert ==
  ASSUME NEW text, DecodeStatus(text) = "ok"
  PROVE  /\ Len(text) = 2 * KeyLength
         /\ \A n \in 1 .. KeyLength : PairStatus(text[2 * n - 1], text[2 * n]) = "ok"
<1> DEFINE bad == {n \in 1 .. KeyLength : PairStatus(text[2 * n - 1], text[2 * n]) # "ok"}
<1>1. Len(text) = 2 * KeyLength
  BY DEF DecodeStatus
<1>2. ASSUME bad # {} PROVE FALSE
  <2>1. PICK n \in bad : \A m \in bad : n =< m
    <3>1. bad \subseteq Nat
      BY KeyAssumption
    <3> HIDE DEF bad
    <3> QED BY <1>2, <3>1, LeastElement, Zenon
  <2>2. Min(bad) \in bad
    <3> HIDE DEF bad
    <3> QED BY <2>1, SMTT(30) DEF Min
  <2>3. DecodeStatus(text) = PairStatus(text[2 * Min(bad) - 1], text[2 * Min(bad)])
    BY <1>1, <1>2 DEF DecodeStatus
  <2> QED BY <2>2, <2>3
<1> QED BY <1>1, <1>2

(* Without a plus sign, only digits convert.                               *)
LEMMA OnlyDigits ==
  ASSUME NEW text \in Seq(TextByte), DecodeStatus(text) = "ok",
         \A n \in DOMAIN text : text[n].kind # "plus"
  PROVE  WellFormed(text)
<1>1. /\ Len(text) = 2 * KeyLength /\ DOMAIN text = 1 .. 2 * KeyLength
      /\ \A n \in 1 .. KeyLength : PairStatus(text[2 * n - 1], text[2 * n]) = "ok"
  BY AllPairsConvert, SMTT(30)
<1>2. \A n \in 1 .. KeyLength :
        /\ text[2 * n - 1].kind \in {"digit", "plus"}
        /\ text[2 * n].kind = "digit"
  BY <1>1 DEF PairStatus
<1>3. ASSUME NEW n \in DOMAIN text PROVE text[n].kind = "digit"
  <2>1. n \in Nat /\ n # 0 /\ n =< 2 * KeyLength
    BY <1>1, SMTT(30)
  <2>2. CASE n % 2 = 0
    <3>1. n = 2 * (n \div 2) /\ n \div 2 \in Nat
      BY <2>1, <2>2
    <3>2. n \div 2 \in 1 .. KeyLength
      BY <2>1, <3>1, KeyAssumption
    <3> QED BY <1>2, <3>1, <3>2
  <2>3. CASE n % 2 = 1
    <3> DEFINE h == n \div 2
    <3>1. n = 2 * h + 1 /\ h \in Nat
      BY <2>1, <2>3
    <3> HIDE DEF h
    <3>2. h + 1 \in 1 .. KeyLength
      BY <2>1, <3>1, KeyAssumption
    <3>3. n = 2 * (h + 1) - 1
      BY <3>1
    <3> QED BY <1>2, <3>2, <3>3
  <2> QED BY <2>1, <2>2, <2>3
<1> QED BY <1>1, <1>3 DEF WellFormed

(* The small powers that pick a bit of a sextet or of a digit.             *)
LEMMA SmallPowers ==
  /\ Pow2[0] = 1 /\ Pow2[1] = 2 /\ Pow2[2] = 4
  /\ Pow2[3] = 8 /\ Pow2[4] = 16 /\ Pow2[5] = 32
<1>1. Pow2[0] = 1 /\ \A n \in Nat : Pow2[n + 1] = 2 * Pow2[n]
  BY PowersDefined
<1>2. Pow2[0 + 1] = 2
  BY <1>1
<1>3. Pow2[1 + 1] = 4
  BY <1>1, <1>2
<1>4. Pow2[2 + 1] = 8
  BY <1>1, <1>3
<1>5. Pow2[3 + 1] = 16
  BY <1>1, <1>4
<1>6. Pow2[4 + 1] = 32
  BY <1>1, <1>5, SMTT(30)
<1> QED BY <1>1, <1>2, <1>3, <1>4, <1>5, <1>6

(* A sextet of a whole digit and the upper half of the next one.           *)
LEMMA HighBits ==
  ASSUME NEW a \in 0 .. 15, NEW b \in 0 .. 15, NEW r \in 0 .. 5
  PROVE  ((4 * a + b \div 4) \div Pow2[5 - r]) % 2 =
           IF r < 4 THEN (a \div Pow2[3 - r]) % 2 ELSE (b \div Pow2[7 - r]) % 2
<1>1. CASE r = 0
  <2>1. ((4 * a + b \div 4) \div 32) % 2 = (a \div 8) % 2
    OBVIOUS
  <2> QED BY <1>1, <2>1, SmallPowers
<1>2. CASE r = 1
  <2>1. ((4 * a + b \div 4) \div 16) % 2 = (a \div 4) % 2
    OBVIOUS
  <2> QED BY <1>2, <2>1, SmallPowers
<1>3. CASE r = 2
  <2>1. ((4 * a + b \div 4) \div 8) % 2 = (a \div 2) % 2
    OBVIOUS
  <2> QED BY <1>3, <2>1, SmallPowers
<1>4. CASE r = 3
  <2>1. ((4 * a + b \div 4) \div 4) % 2 = (a \div 1) % 2
    OBVIOUS
  <2> QED BY <1>4, <2>1, SmallPowers
<1>5. CASE r = 4
  <2>1. ((4 * a + b \div 4) \div 2) % 2 = (b \div 8) % 2
    OBVIOUS
  <2> QED BY <1>5, <2>1, SmallPowers
<1>6. CASE r = 5
  <2>1. ((4 * a + b \div 4) \div 1) % 2 = (b \div 4) % 2
    BY SMTT(30)
  <2> QED BY <1>6, <2>1, SmallPowers
<1> QED BY <1>1, <1>2, <1>3, <1>4, <1>5, <1>6

(* A sextet of the lower half of a digit and the whole next one.           *)
LEMMA LowBits ==
  ASSUME NEW b \in 0 .. 15, NEW c \in 0 .. 15, NEW r \in 0 .. 5
  PROVE  ((16 * (b % 4) + c) \div Pow2[5 - r]) % 2 =
           IF r < 2 THEN (b \div Pow2[1 - r]) % 2 ELSE (c \div Pow2[5 - r]) % 2
<1>1. CASE r = 0
  <2>1. ((16 * (b % 4) + c) \div 32) % 2 = (b \div 2) % 2
    OBVIOUS
  <2> QED BY <1>1, <2>1, SmallPowers
<1>2. CASE r = 1
  <2>1. ((16 * (b % 4) + c) \div 16) % 2 = (b \div 1) % 2
    OBVIOUS
  <2> QED BY <1>2, <2>1, SmallPowers
<1>3. CASE r = 2
  <2>1. ((16 * (b % 4) + c) \div 8) % 2 = (c \div 8) % 2
    OBVIOUS
  <2> QED BY <1>3, <2>1, SmallPowers
<1>4. CASE r = 3
  <2>1. ((16 * (b % 4) + c) \div 4) % 2 = (c \div 4) % 2
    OBVIOUS
  <2> QED BY <1>4, <2>1, SmallPowers
<1>5. CASE r = 4
  <2>1. ((16 * (b % 4) + c) \div 2) % 2 = (c \div 2) % 2
    OBVIOUS
  <2> QED BY <1>5, <2>1, SmallPowers
<1>6. CASE r = 5
  <2>1. ((16 * (b % 4) + c) \div 1) % 2 = (c \div 1) % 2
    OBVIOUS
  <2> QED BY <1>6, <2>1, SmallPowers
<1> QED BY <1>1, <1>2, <1>3, <1>4, <1>5, <1>6

(* Digit n of a text, zero past its end.                                   *)
DigitAt(text, n) == IF n =< Len(text) THEN text[n].digit ELSE 0

(* Byte m of a decoded key is two digits of the text.                      *)
LEMMA DigitsOfByte ==
  ASSUME NEW text \in Seq(TextByte), WellFormed(text), NEW m \in Nat, m # 0
  PROVE  /\ Len(DecodedKey(text)) = KeyLength
         /\ DigitAt(text, m) \in 0 .. 15
         /\ m =< KeyLength =>
              DecodedKey(text)[m] = 16 * DigitAt(text, 2 * m - 1) + DigitAt(text, 2 * m)
         /\ m > KeyLength => DigitAt(text, 2 * m - 1) = 0 /\ DigitAt(text, 2 * m) = 0
<1>1. /\ Len(text) = 2 * KeyLength /\ DOMAIN text = 1 .. 2 * KeyLength
      /\ Len(text) \in Nat
  BY DEF WellFormed
<1>2. Len(DecodedKey(text)) = KeyLength
  BY KeyAssumption DEF DecodedKey
<1>3. DigitAt(text, m) \in 0 .. 15
  <2>1. CASE m =< Len(text)
    <3>1. text[m] \in TextByte
      BY <1>1, <2>1
    <3>2. \A b \in TextByte : b.digit \in 0 .. 15
      <4>1. \A d \in 0 .. 15 : Digit(d).digit \in 0 .. 15
        BY DEF Digit
      <4>2. \A kind : Other(kind).digit \in 0 .. 15
        BY DEF Other
      <4> QED BY <4>1, <4>2, Zenon DEF TextByte
    <3> QED BY <2>1, <3>1, <3>2 DEF DigitAt
  <2>2. CASE ~(m =< Len(text))
    BY <2>2 DEF DigitAt
  <2> QED BY <2>1, <2>2
<1>4. ASSUME m =< KeyLength
      PROVE  DecodedKey(text)[m] = 16 * DigitAt(text, 2 * m - 1) + DigitAt(text, 2 * m)
  <2>1. m \in 1 .. KeyLength /\ 2 * m - 1 =< Len(text) /\ 2 * m =< Len(text)
    BY <1>1, <1>4, KeyAssumption
  <2> QED BY <2>1 DEF DecodedKey, PairValue, DigitAt
<1>5. ASSUME m > KeyLength PROVE DigitAt(text, 2 * m - 1) = 0 /\ DigitAt(text, 2 * m) = 0
  <2>1. ~(2 * m - 1 =< Len(text)) /\ ~(2 * m =< Len(text))
    BY <1>1, <1>5, KeyAssumption
  <2> QED BY <2>1 DEF DigitAt
<1> QED BY <1>2, <1>3, <1>4, <1>5

(* A byte of two digits, split as the sextets split it.                    *)
LEMMA SplitByte ==
  ASSUME NEW a \in 0 .. 15, NEW b \in 0 .. 15
  PROVE  /\ (16 * a + b) \div 4 = 4 * a + b \div 4
         /\ (16 * a + b) % 4 = b % 4
         /\ (16 * a + b) \div 16 = a
         /\ (16 * a + b) % 16 = b
         /\ (16 * a + b) \div 64 = a \div 4
         /\ (16 * a + b) % 64 = 16 * (a % 4) + b
<1>1. (16 * a + b) \div 4 = 4 * a + b \div 4 /\ (16 * a + b) % 4 = b % 4
  OBVIOUS
<1>2. (16 * a + b) \div 16 = a /\ (16 * a + b) % 16 = b
  OBVIOUS
<1>3. (16 * a + b) \div 64 = a \div 4 /\ (16 * a + b) % 64 = 16 * (a % 4) + b
  BY SMTT(30)
<1> QED BY <1>1, <1>2, <1>3

(***************************************************************************)
(* encode_key on a decoded key: the sextets of a chunk, as the digits that *)
(* the text writes for it.                                                 *)
(***************************************************************************)
LEMMA SextetsOfDigits ==
  ASSUME NEW text \in Seq(TextByte), WellFormed(text), NEW c \in Nat, 3 * c < KeyLength
  PROVE  LET x == Sextets(DecodedKey(text), c + 1)
             d(n) == DigitAt(text, 6 * c + n)
         IN /\ x[1] = 4 * d(1) + d(2) \div 4
            /\ x[2] = 16 * (d(2) % 4) + d(3)
            /\ x[3] = IF 3 * c + 2 =< KeyLength THEN 4 * d(4) + d(5) \div 4 ELSE Padding
            /\ x[4] = IF 3 * c + 3 =< KeyLength THEN 16 * (d(5) % 4) + d(6) ELSE Padding
<1> DEFINE key == DecodedKey(text)
           d(n) == DigitAt(text, 6 * c + n)
           byte(n) == IF 3 * (c + 1) - 3 + n =< Len(key) THEN key[3 * (c + 1) - 3 + n] ELSE 0
<1>1. \A n \in 1 .. 6 : d(n) \in 0 .. 15
  BY DigitsOfByte
<1>2. Len(key) = KeyLength
  <2>1. 1 \in Nat /\ 1 # 0
    BY SMTT(30)
  <2> QED BY <2>1, DigitsOfByte
<1>3. ASSUME NEW n \in 1 .. 3 PROVE byte(n) = 16 * d(2 * n - 1) + d(2 * n)
  <2> DEFINE m == 3 * c + n
  <2>1. /\ m \in Nat /\ m # 0 /\ 3 * (c + 1) - 3 + n = m
        /\ 6 * c + (2 * n - 1) = 2 * m - 1 /\ 6 * c + 2 * n = 2 * m
    BY SMTT(30)
  <2>2. /\ m =< KeyLength => key[m] = 16 * DigitAt(text, 2 * m - 1) + DigitAt(text, 2 * m)
        /\ m > KeyLength => DigitAt(text, 2 * m - 1) = 0 /\ DigitAt(text, 2 * m) = 0
    <3> HIDE DEF m
    <3> QED BY <2>1, DigitsOfByte
  <2>3. d(2 * n - 1) = DigitAt(text, 2 * m - 1) /\ d(2 * n) = DigitAt(text, 2 * m)
    BY <2>1
  <2>4. byte(n) = IF m =< KeyLength THEN key[m] ELSE 0
    BY <1>2, <2>1
  <2> HIDE DEF m, key, d, byte
  <2> QED BY <2>1, <2>2, <2>3, <2>4, KeyAssumption
<1>4. /\ byte(1) = 16 * d(1) + d(2)
      /\ byte(2) = 16 * d(3) + d(4)
      /\ byte(3) = 16 * d(5) + d(6)
  <2>1. /\ 1 \in 1 .. 3 /\ 2 \in 1 .. 3 /\ 3 \in 1 .. 3
        /\ 2 * 1 - 1 = 1 /\ 2 * 1 = 2 /\ 2 * 2 - 1 = 3 /\ 2 * 2 = 4 /\ 2 * 3 - 1 = 5 /\ 2 * 3 = 6
    OBVIOUS
  <2> HIDE DEF d, byte
  <2> QED BY <1>3, <2>1
<1>5. 3 * (c + 1) - 3 + 2 = 3 * c + 2 /\ 3 * (c + 1) - 3 + 3 = 3 * c + 3
  BY SMTT(30)
<1>6. Sextets(key, c + 1) =
        << byte(1) \div 4,
           (byte(1) % 4) * 16 + byte(2) \div 16,
           IF 3 * c + 2 =< KeyLength THEN (byte(2) % 16) * 4 + byte(3) \div 64 ELSE Padding,
           IF 3 * c + 3 =< KeyLength THEN byte(3) % 64 ELSE Padding >>
  <2> HIDE DEF key
  <2> QED BY <1>2, <1>5, SMTT(30) DEF Sextets
<1>7. /\ byte(1) \div 4 = 4 * d(1) + d(2) \div 4
      /\ (byte(1) % 4) * 16 + byte(2) \div 16 = 16 * (d(2) % 4) + d(3)
      /\ (byte(2) % 16) * 4 + byte(3) \div 64 = 4 * d(4) + d(5) \div 4
      /\ byte(3) % 64 = 16 * (d(5) % 4) + d(6)
  <2>1. d(1) \in 0 .. 15 /\ d(2) \in 0 .. 15 /\ d(3) \in 0 .. 15
    BY <1>1
  <2>2. d(4) \in 0 .. 15 /\ d(5) \in 0 .. 15 /\ d(6) \in 0 .. 15
    BY <1>1
  <2> HIDE DEF d, byte
  <2>3. /\ byte(1) \div 4 = 4 * d(1) + d(2) \div 4
        /\ byte(1) % 4 = d(2) % 4
    <3>1. byte(1) = 16 * d(1) + d(2)
      BY <1>4
    <3>2. (16 * d(1) + d(2)) \div 4 = 4 * d(1) + d(2) \div 4
      BY <2>1, SplitByte, Zenon
    <3>3. (16 * d(1) + d(2)) % 4 = d(2) % 4
      BY <2>1, SplitByte, Zenon
    <3> QED BY <3>1, <3>2, <3>3, Zenon
  <2>4. byte(2) \div 16 = d(3) /\ byte(2) % 16 = d(4)
    <3>1. byte(2) = 16 * d(3) + d(4)
      BY <1>4
    <3>2. (16 * d(3) + d(4)) \div 16 = d(3)
      BY <2>1, <2>2, SplitByte, Zenon
    <3>3. (16 * d(3) + d(4)) % 16 = d(4)
      BY <2>1, <2>2, SplitByte, Zenon
    <3> QED BY <3>1, <3>2, <3>3, Zenon
  <2>5. /\ byte(3) \div 64 = d(5) \div 4
        /\ byte(3) % 64 = 16 * (d(5) % 4) + d(6)
    <3>1. byte(3) = 16 * d(5) + d(6)
      BY <1>4
    <3>2. (16 * d(5) + d(6)) \div 64 = d(5) \div 4
      BY <2>2, SplitByte, Zenon
    <3>3. (16 * d(5) + d(6)) % 64 = 16 * (d(5) % 4) + d(6)
      BY <2>2, SplitByte, Zenon
    <3> QED BY <3>1, <3>2, <3>3, Zenon
  <2>6. d(2) % 4 \in Int /\ d(3) \in Int /\ d(4) \in Int /\ d(5) \div 4 \in Int
    BY <2>1, <2>2
  <2> QED BY <2>3, <2>4, <2>5, <2>6
<1> HIDE DEF key, byte, d
<1>8. LET x == Sextets(key, c + 1)
      IN /\ x[1] = 4 * d(1) + d(2) \div 4
         /\ x[2] = 16 * (d(2) % 4) + d(3)
         /\ x[3] = IF 3 * c + 2 =< KeyLength THEN 4 * d(4) + d(5) \div 4 ELSE Padding
         /\ x[4] = IF 3 * c + 3 =< KeyLength THEN 16 * (d(5) % 4) + d(6) ELSE Padding
  BY <1>6, <1>7
<1> QED BY <1>8 DEF key, d

(* Bit j + 1 of the text, in the digit it belongs to, zero past the end.   *)
LEMMA BitOfDigit ==
  ASSUME NEW text \in Seq(TextByte), NEW j \in Nat
  PROVE  (DigitAt(text, j \div 4 + 1) \div Pow2[3 - (j % 4)]) % 2 =
           IF j + 1 =< 4 * Len(text) THEN WrittenBit(text, j + 1) ELSE 0
<1> DEFINE n == j \div 4 + 1
           digits == [m \in DOMAIN text |-> text[m].digit]
<1>1. n \in Nat /\ n # 0 /\ j % 4 \in 0 .. 3
  BY SMTT(30)
<1>2. WrittenBit(text, j + 1) = (digits[n] \div Pow2[3 - (j % 4)]) % 2
  <2>1. (j + 1) - 1 = j /\ 4 - 1 = 3
    OBVIOUS
  <2> QED BY <2>1 DEF WrittenBit, Bit
<1>3. Len(text) \in Nat /\ DOMAIN text = 1 .. Len(text)
  OBVIOUS
<1>4. j + 1 =< 4 * Len(text) <=> n =< Len(text)
  <2> DEFINE q == j \div 4
  <2>1. q \in Nat /\ 4 * q =< j /\ j < 4 * q + 4
    OBVIOUS
  <2>2. ASSUME NEW l \in Nat PROVE j + 1 =< 4 * l <=> q + 1 =< l
    <3> HIDE DEF q
    <3> QED BY <2>1, SMTT(30)
  <2> QED BY <1>3, <2>2
<1>5. CASE n =< Len(text)
  <2>1. n \in DOMAIN text
    <3> HIDE DEF n
    <3> QED BY <1>1, <1>3, <1>5
  <2>2. digits[n] = text[n].digit
    BY <2>1
  <2> QED BY <1>2, <1>4, <1>5, <2>2 DEF DigitAt
<1>6. CASE ~(n =< Len(text))
  <2>1. 3 - (j % 4) \in 0 .. 3
    BY <1>1
  <2>2. Pow2[3 - (j % 4)] \in {1, 2, 4, 8}
    <3> DEFINE p == 3 - (j % 4)
    <3>1. p \in 0 .. 3
      BY <2>1
    <3> HIDE DEF p
    <3>2. p = 0 \/ p = 1 \/ p = 2 \/ p = 3
      BY <3>1
    <3>3. Pow2[p] \in {1, 2, 4, 8}
      BY <3>2, SmallPowers
    <3> QED BY <3>3 DEF p
  <2>3. \A p \in {1, 2, 4, 8} : (0 \div p) % 2 = 0
    OBVIOUS
  <2>4. DigitAt(text, n) = 0
    BY <1>6, SMTT(30) DEF DigitAt
  <2> QED BY <1>4, <1>6, <2>2, <2>3, <2>4
<1> QED BY <1>5, <1>6

(***************************************************************************)
(* Bit r of sextet s of a chunk is the bit at that place of the text.      *)
(***************************************************************************)
LEMMA ChunkBits ==
  ASSUME NEW text \in Seq(TextByte), WellFormed(text), NEW c \in Nat, 3 * c < KeyLength,
         NEW s \in 0 .. 3, NEW r \in 0 .. 5,
         Sextets(DecodedKey(text), c + 1)[s + 1] # Padding
  PROVE  LET j == 24 * c + 6 * s + r
         IN (Sextets(DecodedKey(text), c + 1)[s + 1] \div Pow2[5 - r]) % 2 =
              (DigitAt(text, j \div 4 + 1) \div Pow2[3 - (j % 4)]) % 2
<1> DEFINE x == Sextets(DecodedKey(text), c + 1)[s + 1]
           d(n) == DigitAt(text, 6 * c + n)
           j == 24 * c + 6 * s + r
<1> SUFFICES (x \div Pow2[5 - r]) % 2 =
               (DigitAt(text, j \div 4 + 1) \div Pow2[3 - (j % 4)]) % 2
  BY Zenon
<1>1. /\ s = 0 => x = 4 * d(1) + d(2) \div 4
      /\ s = 1 => x = 16 * (d(2) % 4) + d(3)
      /\ s = 2 => x = 4 * d(4) + d(5) \div 4
      /\ s = 3 => x = 16 * (d(5) % 4) + d(6)
  <2> DEFINE y(n) == Sextets(DecodedKey(text), c + 1)[n]
  <2>1. /\ y(1) = 4 * d(1) + d(2) \div 4
        /\ y(2) = 16 * (d(2) % 4) + d(3)
        /\ y(3) = IF 3 * c + 2 =< KeyLength THEN 4 * d(4) + d(5) \div 4 ELSE Padding
        /\ y(4) = IF 3 * c + 3 =< KeyLength THEN 16 * (d(5) % 4) + d(6) ELSE Padding
    BY SextetsOfDigits, Zenon
  <2>2. x = y(s + 1) /\ x # Padding
    OBVIOUS
  <2>3. 0 + 1 = 1 /\ 1 + 1 = 2 /\ 2 + 1 = 3 /\ 3 + 1 = 4
    BY SMTT(30)
  <2> HIDE DEF x, y, d
  <2> QED BY <2>1, <2>2, <2>3
<1>2. \A n \in 1 .. 6 : d(n) \in 0 .. 15
  BY DigitsOfByte, SMTT(30)
<1>3. CASE s = 0
  <2>1. x = 4 * d(1) + d(2) \div 4
    BY <1>1, <1>3
  <2>2. (x \div Pow2[5 - r]) % 2 =
          IF r < 4 THEN (d(1) \div Pow2[3 - r]) % 2 ELSE (d(2) \div Pow2[7 - r]) % 2
    <3>1. d(1) \in 0 .. 15 /\ d(2) \in 0 .. 15
      BY <1>2, SMTT(30)
    <3> HIDE DEF x, d
    <3> QED BY <2>1, <3>1, HighBits, Zenon
  <2>3. CASE r < 4
    <3>1. j \div 4 + 1 = 6 * c + 1 /\ 3 - (j % 4) = 3 - r
      BY <1>3, <2>3, SMTT(30)
    <3> QED BY <2>2, <2>3, <3>1
  <2>4. CASE ~(r < 4)
    <3>1. j \div 4 + 1 = 6 * c + 2 /\ 3 - (j % 4) = 7 - r
      BY <1>3, <2>4, SMTT(30)
    <3> QED BY <2>2, <2>4, <3>1
  <2> QED BY <2>3, <2>4, SMTT(30)
<1>4. CASE s = 1
  <2>1. x = 16 * (d(2) % 4) + d(3)
    BY <1>1, <1>4
  <2>2. (x \div Pow2[5 - r]) % 2 =
          IF r < 2 THEN (d(2) \div Pow2[1 - r]) % 2 ELSE (d(3) \div Pow2[5 - r]) % 2
    <3>1. d(2) \in 0 .. 15 /\ d(3) \in 0 .. 15
      BY <1>2, SMTT(30)
    <3> HIDE DEF x, d
    <3> QED BY <2>1, <3>1, LowBits, Zenon
  <2>3. CASE r < 2
    <3>1. j \div 4 + 1 = 6 * c + 2 /\ 3 - (j % 4) = 1 - r
      BY <1>4, <2>3, SMTT(30)
    <3> QED BY <2>2, <2>3, <3>1
  <2>4. CASE ~(r < 2)
    <3>1. j \div 4 + 1 = 6 * c + 3 /\ 3 - (j % 4) = 5 - r
      BY <1>4, <2>4, SMTT(30)
    <3> QED BY <2>2, <2>4, <3>1
  <2> QED BY <2>3, <2>4, SMTT(30)
<1>5. CASE s = 2
  <2>1. x = 4 * d(4) + d(5) \div 4
    BY <1>1, <1>5
  <2>2. (x \div Pow2[5 - r]) % 2 =
          IF r < 4 THEN (d(4) \div Pow2[3 - r]) % 2 ELSE (d(5) \div Pow2[7 - r]) % 2
    <3>1. d(4) \in 0 .. 15 /\ d(5) \in 0 .. 15
      BY <1>2, SMTT(30)
    <3> HIDE DEF x, d
    <3> QED BY <2>1, <3>1, HighBits, Zenon
  <2>3. CASE r < 4
    <3>1. j \div 4 + 1 = 6 * c + 4 /\ 3 - (j % 4) = 3 - r
      BY <1>5, <2>3, SMTT(30)
    <3> QED BY <2>2, <2>3, <3>1
  <2>4. CASE ~(r < 4)
    <3>1. j \div 4 + 1 = 6 * c + 5 /\ 3 - (j % 4) = 7 - r
      BY <1>5, <2>4, SMTT(30)
    <3> QED BY <2>2, <2>4, <3>1
  <2> QED BY <2>3, <2>4
<1>6. CASE s = 3
  <2>1. x = 16 * (d(5) % 4) + d(6)
    BY <1>1, <1>6
  <2>2. (x \div Pow2[5 - r]) % 2 =
          IF r < 2 THEN (d(5) \div Pow2[1 - r]) % 2 ELSE (d(6) \div Pow2[5 - r]) % 2
    <3>1. d(5) \in 0 .. 15 /\ d(6) \in 0 .. 15
      BY <1>2, SMTT(30)
    <3> HIDE DEF x, d
    <3> QED BY <2>1, <3>1, LowBits, Zenon
  <2>3. CASE r < 2
    <3>1. j \div 4 + 1 = 6 * c + 5 /\ 3 - (j % 4) = 1 - r
      BY <1>6, <2>3, SMTT(30)
    <3> QED BY <2>2, <2>3, <3>1
  <2>4. CASE ~(r < 2)
    <3>1. j \div 4 + 1 = 6 * c + 6 /\ 3 - (j % 4) = 5 - r
      BY <1>6, <2>4
    <3> QED BY <2>2, <2>4, <3>1
  <2> QED BY <2>3, <2>4
<1> QED BY <1>3, <1>4, <1>5, <1>6

(* A sextet is the padding character exactly where no bit is left.         *)
LEMMA ChunkPadding ==
  ASSUME NEW text \in Seq(TextByte), WellFormed(text), NEW c \in Nat, 3 * c < KeyLength,
         NEW s \in 0 .. 3
  PROVE  Sextets(DecodedKey(text), c + 1)[s + 1] = Padding <=>
           6 * (4 * c + s) >= 8 * KeyLength
<1> DEFINE x(n) == Sextets(DecodedKey(text), c + 1)[n]
           d(n) == DigitAt(text, 6 * c + n)
<1>1. /\ x(1) = 4 * d(1) + d(2) \div 4
      /\ x(2) = 16 * (d(2) % 4) + d(3)
      /\ x(3) = IF 3 * c + 2 =< KeyLength THEN 4 * d(4) + d(5) \div 4 ELSE Padding
      /\ x(4) = IF 3 * c + 3 =< KeyLength THEN 16 * (d(5) % 4) + d(6) ELSE Padding
  BY SextetsOfDigits
<1>2. \A n \in 1 .. 6 : d(n) \in 0 .. 15
  BY DigitsOfByte
<1>3. ASSUME NEW a \in 0 .. 15, NEW b \in 0 .. 15
      PROVE  4 * a + b \div 4 # 64 /\ 16 * (a % 4) + b # 64
  OBVIOUS
<1>4. d(1) \in 0 .. 15 /\ d(2) \in 0 .. 15 /\ d(3) \in 0 .. 15
  BY <1>2
<1>5. d(4) \in 0 .. 15 /\ d(5) \in 0 .. 15 /\ d(6) \in 0 .. 15
  BY <1>2, SMTT(30)
<1> HIDE DEF x, d
<1>6. /\ x(1) # Padding /\ x(2) # Padding
      /\ x(3) = Padding <=> ~(3 * c + 2 =< KeyLength)
      /\ x(4) = Padding <=> ~(3 * c + 3 =< KeyLength)
  <2>1. 4 * d(1) + d(2) \div 4 # 64 /\ 16 * (d(2) % 4) + d(3) # 64
    BY <1>3, <1>4, Zenon
  <2>2. 4 * d(4) + d(5) \div 4 # 64 /\ 16 * (d(5) % 4) + d(6) # 64
    BY <1>3, <1>5, Zenon
  <2> QED BY <1>1, <2>1, <2>2 DEF Padding
<1>7. x(s + 1) = Padding <=> 6 * (4 * c + s) >= 8 * KeyLength
  <2>1. CASE s = 0
    BY <1>6, <2>1, KeyAssumption
  <2>2. CASE s = 1
    BY <1>6, <2>2, KeyAssumption
  <2>3. CASE s = 2
    BY <1>6, <2>3, KeyAssumption
  <2>4. CASE s = 3
    BY <1>6, <2>4, KeyAssumption, SMTT(30)
  <2> QED BY <2>1, <2>2, <2>3, <2>4
<1> QED BY <1>7, SMTT(30) DEF x

(* Quotient and remainder, by the four characters of a chunk.              *)
LEMMA DividedByFour ==
  \A m \in Nat : m \div 4 \in Nat /\ m % 4 \in 0 .. 3 /\ m = 4 * (m \div 4) + (m % 4)
OBVIOUS

(* Character k + 1 of the code comes from chunk k \div 4 + 1.              *)
LEMMA CodeCharacter ==
  ASSUME NEW text \in Seq(TextByte), WellFormed(text)
  PROVE  LET code == EncodeKey(DecodedKey(text))
             length == 4 * ((KeyLength + 2) \div 3)
         IN /\ Len(code) = length /\ DOMAIN code = 1 .. length
            /\ length \in Nat /\ 8 * KeyLength =< 6 * length
            /\ \A c \in Nat, s \in 0 .. 3 :
                 4 * c + s < length =>
                   /\ 3 * c < KeyLength
                   /\ code[4 * c + s + 1] = Sextets(DecodedKey(text), c + 1)[s + 1]
<1> DEFINE key == DecodedKey(text)
           code == EncodeKey(key)
           chunks == (KeyLength + 2) \div 3
           length == 4 * chunks
<1>1. Len(key) = KeyLength
  <2>1. 1 \in Nat /\ 1 # 0
    OBVIOUS
  <2> QED BY <2>1, DigitsOfByte
<1>2. chunks \in Nat /\ KeyLength =< 3 * chunks /\ 3 * chunks =< KeyLength + 2
  BY KeyAssumption
<1>3. code = [k \in 1 .. length |-> Sextets(key, (k - 1) \div 4 + 1)[((k - 1) % 4) + 1]]
  BY <1>1 DEF EncodeKey
<1> HIDE DEF key, code, chunks
<1>4. length \in Nat /\ 8 * KeyLength =< 6 * length
  BY <1>2, KeyAssumption
<1>5. Len(code) = length /\ DOMAIN code = 1 .. length
  <2> HIDE DEF length
  <2> QED BY <1>3, <1>4, SMTT(30)
<1>6. ASSUME NEW c \in Nat, NEW s \in 0 .. 3, 4 * c + s < length
      PROVE  3 * c < KeyLength /\ code[4 * c + s + 1] = Sextets(key, c + 1)[s + 1]
  <2>1. c + 1 =< chunks
    BY <1>2, <1>6
  <2>2. 3 * c < KeyLength
    BY <1>2, <2>1, KeyAssumption
  <2>3. /\ 4 * c + s + 1 \in 1 .. length
        /\ (4 * c + s + 1) - 1 = 4 * c + s
    BY <1>2, <1>6
  <2>4. (4 * c + s) \div 4 = c /\ (4 * c + s) % 4 = s
    BY SMTT(30)
  <2> HIDE DEF length
  <2> QED BY <1>3, <2>2, <2>3, <2>4
<1> QED BY <1>4, <1>5, <1>6 DEF key, code, chunks

(***************************************************************************)
(* decode_key (apps/linux-client/src/lib.rs) and encode_key                *)
(* (core/transport/src/linux.rs): for every key length and every           *)
(* configuration without a plus sign in its key, the base64 that wg is     *)
(* given carries, bit for bit, the key that the configuration writes, and  *)
(* padding exactly where no bit is left.                                   *)
(***************************************************************************)
THEOREM KeyIsHandedOver ==
  ASSUME NEW configs, \A c \in configs : WellTyped(c)
  PROVE  ProfileSpec(configs) => []KeyHandedOver
<1>1. ASSUME NEW text \in Seq(TextByte), DecodeStatus(text) = "ok",
             \A n \in DOMAIN text : text[n].kind # "plus"
      PROVE  LET code == EncodeKey(DecodedKey(text))
                 written == 4 * Len(text)
             IN /\ WellFormed(text)
                /\ written =< 6 * Len(code)
                /\ \A k \in DOMAIN code : code[k] = Padding <=> 6 * (k - 1) >= written
                /\ \A i \in 1 .. 6 * Len(code) :
                     code[(i - 1) \div 6 + 1] # Padding =>
                       Bit(code, 6, i) = IF i =< written THEN WrittenBit(text, i) ELSE 0
  <2> DEFINE code == EncodeKey(DecodedKey(text))
             written == 4 * Len(text)
             length == 4 * ((KeyLength + 2) \div 3)
  <2>1. WellFormed(text)
    BY <1>1, OnlyDigits
  <2>2. written = 8 * KeyLength
    <3>1. Len(text) = 2 * KeyLength
      BY <2>1 DEF WellFormed
    <3> QED BY <3>1, KeyAssumption
  <2>3. /\ Len(code) = length /\ DOMAIN code = 1 .. length
        /\ length \in Nat /\ 8 * KeyLength =< 6 * length
        /\ \A c \in Nat, s \in 0 .. 3 :
             4 * c + s < length =>
               /\ 3 * c < KeyLength
               /\ code[4 * c + s + 1] = Sextets(DecodedKey(text), c + 1)[s + 1]
    BY <2>1, CodeCharacter, Zenon
  <2> HIDE DEF code, written, length
  <2>4. ASSUME NEW k \in DOMAIN code PROVE code[k] = Padding <=> 6 * (k - 1) >= written
    <3>1. k \in Int /\ k - 1 \in Nat /\ k - 1 < length
      <4>1. k \in 1 .. length /\ length \in Nat
        BY <2>3, Zenon
      <4> QED BY <4>1
    <3> DEFINE c == (k - 1) \div 4
               s == (k - 1) % 4
    <3>2. c \in Nat /\ s \in 0 .. 3 /\ k - 1 = 4 * c + s
      BY <3>1, DividedByFour, Zenon
    <3> HIDE DEF c, s
    <3>3. k = 4 * c + s + 1
      BY <3>1, <3>2
    <3>4. 3 * c < KeyLength /\ code[k] = Sextets(DecodedKey(text), c + 1)[s + 1]
      BY <2>3, <3>1, <3>2, <3>3, Zenon
    <3> QED BY <2>1, <2>2, <3>2, <3>4, ChunkPadding, Zenon
  <2>5. ASSUME NEW i \in 1 .. 6 * Len(code), code[(i - 1) \div 6 + 1] # Padding
        PROVE  Bit(code, 6, i) = IF i =< written THEN WrittenBit(text, i) ELSE 0
    <3> DEFINE j == i - 1
               k == j \div 6
               r == j % 6
               c == k \div 4
               s == k % 4
    <3>1. j \in Nat /\ j < 6 * length /\ i = j + 1
      <4>1. i \in 1 .. 6 * length /\ length \in Nat
        BY <2>3, Zenon
      <4> QED BY <4>1
    <3>2. k \in Nat /\ r \in 0 .. 5 /\ j = 6 * k + r
      <4> HIDE DEF j
      <4> QED BY <3>1
    <3>3. c \in Nat /\ s \in 0 .. 3 /\ k = 4 * c + s
      <4> HIDE DEF k
      <4> QED BY <3>2
    <3>4. Bit(code, 6, i) = (code[k + 1] \div Pow2[5 - r]) % 2
      <4>1. 6 - 1 = 5
        OBVIOUS
      <4> QED BY <4>1 DEF Bit
    <3>5. code[k + 1] # Padding
      BY <2>5, SMTT(30)
    <3> HIDE DEF j, k, r, c, s
    <3>6. k < length
      BY <2>3, <3>1, <3>2, SMTT(30)
    <3>7. 3 * c < KeyLength /\ code[k + 1] = Sextets(DecodedKey(text), c + 1)[s + 1]
      BY <2>3, <3>3, <3>6, Zenon
    <3>8. 24 * c + 6 * s + r = j
      BY <3>2, <3>3, SMTT(30)
    <3>9. (code[k + 1] \div Pow2[5 - r]) % 2 =
            (DigitAt(text, j \div 4 + 1) \div Pow2[3 - (j % 4)]) % 2
      <4>1. Sextets(DecodedKey(text), c + 1)[s + 1] # Padding
        BY <3>5, <3>7, SMTT(30)
      <4>2. LET q == 24 * c + 6 * s + r
            IN (Sextets(DecodedKey(text), c + 1)[s + 1] \div Pow2[5 - r]) % 2 =
                 (DigitAt(text, q \div 4 + 1) \div Pow2[3 - (q % 4)]) % 2
        BY <2>1, <3>2, <3>3, <3>7, <4>1, ChunkBits, Zenon
      <4> QED BY <3>7, <3>8, <4>2, SMTT(30)
    <3>10. (DigitAt(text, j \div 4 + 1) \div Pow2[3 - (j % 4)]) % 2 =
             IF j + 1 =< written THEN WrittenBit(text, j + 1) ELSE 0
      BY <3>1, BitOfDigit, SMTT(30) DEF written
    <3> QED BY <3>1, <3>4, <3>9, <3>10
  <2>6. written =< 6 * Len(code)
    BY <2>2, <2>3
  <2> QED BY <2>1, <2>4, <2>5, <2>6 DEF code, written
<1>2. ProfileInv => KeyHandedOver
  <2> SUFFICES ASSUME ProfileInv, armed, \A n \in DOMAIN config.key : config.key[n].kind # "plus"
               PROVE  KeyHandedOver
    BY Zenon DEF KeyHandedOver
  <2>1. config.key \in Seq(TextByte) /\ DecodeStatus(config.key) = "ok"
    BY Zenon DEF ProfileInv, WellTyped, ConnectionSettings
  <2> QED BY <1>1, <2>1, Zenon DEF KeyHandedOver
<1> QED BY <1>2, ProfileInvariance, PTL

=============================================================================

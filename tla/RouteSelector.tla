--------------------------- MODULE RouteSelector ---------------------------
(***************************************************************************)
(* RouteSelector (core/routing/src/selector.rs): a route is kept for a     *)
(* dwell time and replaced only for a clear gain, and a node that keeps    *)
(* failing is left out while its circuit is open.                          *)
(*                                                                         *)
(* The candidates a caller passes to select have distinct ids, so the list *)
(* is a function on the nodes it has.  Node ids are compared by <, and     *)
(* every call is made at the present time.                                 *)
(***************************************************************************)
EXTENDS RouteScore

CONSTANTS
  Nodes,               \* node ids
  Observations,        \* what probes may measure
  NotListed,           \* a node the caller passes no measurements for
  NoNode,              \* current is None
  RoutingError,        \* select returned an error
  NotOpen,             \* open_until is None; no instant
  Scoring,             \* RouteSelector::scoring
  MinimumDwellTime, SwitchMargin, FailureThreshold, CircuitCooldown,
  InstantMax,          \* the last representable Instant
  MaxTime              \* bound: the clock stops here

ASSUME SelectorAssumption ==
  /\ Nodes \subseteq Nat
  /\ NoNode \notin Nodes /\ RoutingError \notin Nodes /\ NoNode # RoutingError
  /\ Observations \subseteq Measurements
  /\ NotListed \notin Observations
  /\ Scoring \in RoutingPolicy
  /\ MinimumDwellTime \in Nat /\ CircuitCooldown \in Nat
  /\ SwitchMargin \in 0 .. U32Max
  /\ FailureThreshold \in 0 .. U32Max
  /\ InstantMax \in Nat
  /\ MaxTime \in 0 .. InstantMax
  /\ NotOpen \notin Nat

VARIABLES
  current,     \* the route in use: [id, selectedAt]
  circuits,    \* CircuitState of every node; an absent entry is closed
  clock,
  candidates,  \* the measurements the select that just returned was given
  answer,      \* what it returned: a node or an error, or NoNode
  streak,      \* ghost: failures recorded since the last success, up to the
               \* threshold
  failedAt     \* ghost: when the latest of them was recorded, if one was

selectorVars == <<current, circuits>>
selectorStateVars == <<selectorVars, clock, candidates, answer, streak, failedAt>>

ClosedCircuit == [consecutiveFailures |-> 0, openUntil |-> NotOpen]
NoRoute == [id |-> NoNode, selectedAt |-> 0]

SelectorTypeOK ==
  /\ current \in [id : Nodes \cup {NoNode}, selectedAt : 0 .. MaxTime]
  /\ circuits \in [Nodes -> [consecutiveFailures : 0 .. U32Max,
                             openUntil : 0 .. InstantMax \cup {NotOpen}]]
  /\ clock \in 0 .. MaxTime
  /\ candidates \in [Nodes -> Observations \cup {NotListed}]
  /\ answer \in Nodes \cup {NoNode, RoutingError}
  /\ streak \in [Nodes -> 0 .. FailureThreshold]
  /\ failedAt \in [Nodes -> 0 .. MaxTime \cup {NotOpen}]

NothingListed == [n \in Nodes |-> NotListed]

SelectorInit ==
  /\ current = NoRoute
  /\ circuits = [n \in Nodes |-> ClosedCircuit]
  /\ clock = 0
  /\ candidates = NothingListed
  /\ answer = NoNode
  /\ streak = [n \in Nodes |-> 0]
  /\ failedAt = [n \in Nodes |-> NotOpen]

-----------------------------------------------------------------------------
CircuitIsOpen(n) == circuits[n].openUntil # NotOpen /\ clock < circuits[n].openUntil

Available(c, n) == c[n] # NotListed /\ c[n].available

(* The candidates RoutingPolicy::select ranks.                             *)
Eligible(c) == {n \in Nodes : Available(c, n) /\ ~CircuitIsOpen(n)}

ScoreOf(c, n) == Score(Scoring, c[n])

(* compare_rank: the higher score, then the smaller id.                    *)
Outranks(c, n, m) ==
  ScoreOf(c, n) > ScoreOf(c, m) \/ (ScoreOf(c, n) = ScoreOf(c, m) /\ n < m)

(* Mutant: the dwell time is ignored.                                      *)
MayReplaceWithoutDwell(c, best) ==
  ScoreOf(c, best) >= Narrow(ScoreOf(c, current.id) + SwitchMargin)

(* Mutant: the margin is counted twice.                                    *)
MayReplaceDoubleMargin(c, best) ==
  /\ clock - current.selectedAt >= MinimumDwellTime
  /\ ScoreOf(c, best) >= Narrow(ScoreOf(c, current.id) + 2 * SwitchMargin)

MayReplace(c, best) ==
  /\ clock - current.selectedAt >= MinimumDwellTime
  /\ ScoreOf(c, best) >= Narrow(ScoreOf(c, current.id) + SwitchMargin)

(* select fails: nothing to choose from, or a score that cannot be taken.  *)
SelectFails(c) ==
  /\ Eligible(c) = {} \/ \E n \in Eligible(c) : ~Scorable(Scoring, c[n])
  /\ candidates' = c
  /\ answer' = RoutingError
  /\ UNCHANGED <<selectorVars, clock, streak, failedAt>>

Select(c) ==
  /\ \A n \in Eligible(c) : Scorable(Scoring, c[n])
  /\ \E best \in Eligible(c) :
       /\ \A n \in Eligible(c) : ~Outranks(c, n, best)
       /\ \/ /\ current.id \in Eligible(c) /\ ~MayReplace(c, best)
             /\ answer' = current.id
             /\ UNCHANGED current
          \/ /\ ~(current.id \in Eligible(c) /\ ~MayReplace(c, best))
             /\ answer' = best
             /\ current' = IF current.id = best THEN current
                           ELSE [id |-> best, selectedAt |-> clock]
  /\ candidates' = c
  /\ UNCHANGED <<circuits, clock, streak, failedAt>>

(* now.checked_add(circuit_cooldown).                                      *)
OpenUntil ==
  IF clock + CircuitCooldown =< InstantMax THEN clock + CircuitCooldown ELSE NotOpen

(* Mutant: the cooldown is not extended by further failures.               *)
RecordFailureOnce(n) ==
  LET failures == Narrow(circuits[n].consecutiveFailures + 1) IN
  /\ circuits' = [circuits EXCEPT ![n] =
       [consecutiveFailures |-> failures,
        openUntil |-> IF failures = FailureThreshold THEN OpenUntil ELSE @.openUntil]]
  /\ streak' = [streak EXCEPT ![n] = IF @ < FailureThreshold THEN @ + 1 ELSE @]
  /\ failedAt' = [failedAt EXCEPT ![n] = clock]
  /\ UNCHANGED <<current, clock, candidates, answer>>

RecordFailure(n) ==
  LET failures == Narrow(circuits[n].consecutiveFailures + 1) IN
  /\ circuits' = [circuits EXCEPT ![n] =
       [consecutiveFailures |-> failures,
        openUntil |-> IF failures >= FailureThreshold THEN OpenUntil ELSE @.openUntil]]
  /\ streak' = [streak EXCEPT ![n] = IF @ < FailureThreshold THEN @ + 1 ELSE @]
  /\ failedAt' = [failedAt EXCEPT ![n] = clock]
  /\ UNCHANGED <<current, clock, candidates, answer>>

RecordSuccess(n) ==
  /\ circuits' = [circuits EXCEPT ![n] = ClosedCircuit]
  /\ streak' = [streak EXCEPT ![n] = 0]
  /\ failedAt' = [failedAt EXCEPT ![n] = NotOpen]
  /\ UNCHANGED <<current, clock, candidates, answer>>

Tick ==
  /\ clock < MaxTime
  /\ clock' = clock + 1
  /\ UNCHANGED <<selectorVars, candidates, answer, streak, failedAt>>

(* The caller has its answer.                                              *)
Return ==
  /\ answer # NoNode
  /\ candidates' = NothingListed
  /\ answer' = NoNode
  /\ UNCHANGED <<selectorVars, clock, streak, failedAt>>

SelectorNext ==
  \/ Return
  \/ /\ answer = NoNode
     /\ \/ Tick
        \/ \E n \in Nodes : RecordFailure(n) \/ RecordSuccess(n)
        \/ \E c \in [Nodes -> Observations \cup {NotListed}] : SelectFails(c) \/ Select(c)

SelectorSpec == SelectorInit /\ [][SelectorNext]_selectorStateVars

-----------------------------------------------------------------------------
(* The node has failed as often as the policy allows, not long ago, and    *)
(* the end of its cooldown can be represented: now.checked_add leaves the  *)
(* circuit closed when it cannot.                                          *)
Failing(n) ==
  /\ streak[n] >= FailureThreshold /\ failedAt[n] # NotOpen
  /\ clock < failedAt[n] + CircuitCooldown
  /\ failedAt[n] + CircuitCooldown =< InstantMax

(***************************************************************************)
(* "Records a failed connection and opens the node's circuit after the     *)
(* configured number of consecutive failures" (record_failure): whatever   *)
(* was selected or recorded of other nodes in between, select never        *)
(* answers with a node that failed that often and whose last failure is    *)
(* within the cooldown, nor with one that is not available; and it fails   *)
(* only when no other node is left, or when a measurement is impossible.   *)
(***************************************************************************)
FailingNodeExcluded ==
  LET working == {n \in Nodes : Available(candidates, n) /\ ~Failing(n)}
  IN /\ answer \in Nodes => answer \in working
     /\ answer = RoutingError =>
          \/ working = {}
          \/ \E n \in working : ~Scorable(Scoring, candidates[n])

(***************************************************************************)
(* The answer is worse than the best available node by less than the       *)
(* switch margin, unless the route in use has not had its dwell time; and  *)
(* the selector remembers exactly the route it answered.                   *)
(***************************************************************************)
AnswerNearBest ==
  answer \in Nodes =>
    /\ current.id = answer
    /\ \A n \in Eligible(candidates) :
         \/ ScoreOf(candidates, n) =< ScoreOf(candidates, answer)
         \/ ScoreOf(candidates, n) < ScoreOf(candidates, answer) + SwitchMargin
         \/ clock < current.selectedAt + MinimumDwellTime

(***************************************************************************)
(* "prevents route flapping" (RouteSelector): a route that is available    *)
(* and does not fail is given up only after its dwell time, and only for   *)
(* one better by the margin.                                               *)
(***************************************************************************)
NoFlapping ==
  [][ (current.id \in Nodes /\ current'.id # current.id
        /\ Available(candidates', current.id) /\ ~Failing(current.id))
      => /\ clock >= current.selectedAt + MinimumDwellTime
         /\ ScoreOf(candidates', current'.id)
              >= ScoreOf(candidates', current.id) + SwitchMargin ]_selectorStateVars
=============================================================================

---------------------------- MODULE MCDecisions ----------------------------
(***************************************************************************)
(* What the client and the node decide from their inputs, in one run: a    *)
(* client configuration checked and run, the networks, addresses and       *)
(* routes of a node, the score of a path that gets worse, the selector     *)
(* over changing paths, and the waits between attempts to reconnect.       *)
(* These share no state, so each behaviour moves one of them and leaves    *)
(* the others at their start.                                              *)
(***************************************************************************)
EXTENDS ClientProfile, NodePlan, PathScore, RouteSelector, Backoff

CONSTANTS Weights, Limits   \* of the policies a path is scored under

VARIABLE part   \* the machine this behaviour is about

vars == <<part, planVars, scoreVars, profileVars, selectorStateVars, backoffVars>>

MCWidth == [f \in Families |-> IF f = "V4" THEN 2 ELSE 3]
MCMulticast == [f \in Families |-> IF f = "V4" THEN {3} ELSE {7}]

-----------------------------------------------------------------------------
(* Configurations that differ from a good one in at most two fields, or in *)
(* up to two characters of the key.                                        *)
Address(f, a) == [family |-> f, address |-> a]
Network(f, a, p) == [family |-> f, address |-> a, prefix |-> p]

(* ::ffff:a.b.c.d is the upper half of the small IPv6.                     *)
MCMapped == [m \in {Address("V6", a) : a \in 4 .. 7} |-> Address("V4", m.address - 4)]

GoodKey == [n \in 1 .. 2 * KeyLength |-> Digit(n)]
ZeroKey == [n \in 1 .. 2 * KeyLength |-> Digit(0)]
Characters == {Digit(0), Digit(15), Other("plus"), Other("ascii")}
Keys ==
  {[GoodKey EXCEPT ![i] = c, ![j] = d] : i, j \in DOMAIN GoodKey, c, d \in Characters}
    \cup {[GoodKey EXCEPT ![i] = Other("lead"), ![i + 1] = Other("tail")] :
            i \in 1 .. 2 * KeyLength - 1}

Values == [
  interface |-> {"wg0", "wg.0", "wg/0"},
  port      |-> {1, 0},
  mark      |-> {1, 0},
  key       |-> {GoodKey, ZeroKey, Tail(GoodKey), [GoodKey EXCEPT ![2] = Other("lead"), ![3] = Other("tail")]},
  addresses |-> {<<Network("V4", 1, 1)>>, <<>>, <<Network("V4", 1, 3)>>, <<Network("V6", 0, 1)>>,
                 <<Network("V4", 1, 1), Network("V4", 1, 2)>>},
  allowed   |-> {<<Network("V4", 0, 0)>>, <<>>, <<Network("V4", 1, 1)>>, <<Network("V6", 0, 4)>>,
                 <<Network("V4", 2, 1), Network("V4", 2, 1)>>, <<Network("V4", 2, 1), Network("V4", 2, 2)>>},
  dns       |-> {<<Address("V4", 1)>>, <<>>, <<Address("V4", 1), Address("V6", 5)>>,
                 <<Address("V6", 7)>>, <<Address("V4", 1), Address("V6", 1)>>},
  keepalive |-> {NoKeepalive, 0, MaximumKeepalive, MaximumKeepalive + 1},
  mtu       |-> {MinimumMtu, MinimumMtu - 1, MaximumMtu, MaximumMtu + 1},
  timeout   |-> {1, 0, LongestTimeout + 1},
  unsafe    |-> {{}, {"directory"}, {"ip"}, {"wg"}, {"private_key"}, {"resolvectl"}, {"nft"}}]

Good == [
  interface |-> "wg0", port |-> 1, mark |-> 1, key |-> GoodKey,
  addresses |-> <<Network("V4", 1, 1)>>, allowed |-> <<Network("V4", 0, 0)>>,
  dns |-> <<Address("V4", 1)>>, keepalive |-> NoKeepalive, mtu |-> MinimumMtu,
  timeout |-> 1, unsafe |-> {}]

Configs ==
  UNION {{[Good EXCEPT ![f] = v, ![g] = w] : v \in Values[f], w \in Values[g]} :
           f, g \in DOMAIN Good}
    \cup {[Good EXCEPT !.key = k] : k \in Keys}

-----------------------------------------------------------------------------
(* Every small policy a path may be scored under.                          *)
Policies ==
  {p \in [weights : [latency : Weights, jitter : {1}, loss : Weights, bandwidth : Weights],
          limits : [latency : Limits, jitter : {1}, bandwidth : Limits]] : ValidPolicy(p)}

(* Probe results: down, three qualities one margin or less apart, and a    *)
(* loss beyond 100 percent.                                                *)
MCScoring == [weights |-> [latency |-> 1, jitter |-> 0, loss |-> 0, bandwidth |-> 0],
              limits |-> [latency |-> 2, jitter |-> 1, bandwidth |-> 1]]
Observed(available, latency, loss) ==
  [available |-> available, latency |-> latency, jitter |-> 0, loss |-> loss, bandwidth |-> 1]
MCObservations ==
  {Observed(FALSE, 0, 0), Observed(TRUE, 0, 0), Observed(TRUE, 1, 0),
   Observed(TRUE, 2, 0), Observed(TRUE, 0, QualityMax + 1)}

-----------------------------------------------------------------------------
(* The initial values of a machine's own inputs, one of them if the        *)
(* behaviour is about another machine.                                     *)
Inputs(name, set) == IF part = name THEN set ELSE {CHOOSE x \in set : TRUE}

Init ==
  /\ part \in {"profile", "plan", "score", "selector", "backoff"}
  /\ ProfileInit(Inputs("profile", Configs))
  /\ PlanInit
  /\ ScoreInit(Inputs("score", Policies))
  /\ SelectorInit
  /\ BackoffInit(Inputs("backoff", {p \in BackoffPolicy : ValidBackoff(p)}))

Next ==
  /\ UNCHANGED part
  /\ \/ /\ part = "profile" /\ ProfileNext
        /\ UNCHANGED <<planVars, scoreVars, selectorStateVars, backoffVars>>
     \/ /\ part = "plan" /\ PlanNext
        /\ UNCHANGED <<profileVars, scoreVars, selectorStateVars, backoffVars>>
     \/ /\ part = "score" /\ ScoreNext
        /\ UNCHANGED <<profileVars, planVars, selectorStateVars, backoffVars>>
     \/ /\ part = "selector" /\ SelectorNext
        /\ UNCHANGED <<profileVars, planVars, scoreVars, backoffVars>>
     \/ /\ part = "backoff" /\ BackoffNext
        /\ UNCHANGED <<profileVars, planVars, scoreVars, selectorStateVars>>

Spec == Init /\ [][Next]_vars
=============================================================================

SPECIFICATION Spec
CONSTANTS
  Families = {"V4", "V6"}
  Width <- MCWidth
  Multicast <- MCMulticast
  MaximumCount = 2
  KeyLength = 5
  LeaseNames = {"wg0", "wg.0"}
  AdapterNames = {"wg0"}
  MaximumAllowed = 2
  MaximumResolvers = 2
  MaximumKeepalive = 2
  MinimumMtu = 2
  MaximumMtu = 3
  Mapped <- MCMapped
  NoKeepalive = nokeepalive
  LongestTimeout = 2
  QualityMax = 2
  U32Max = 3
  Weights = {0, 1, 3}
  Limits = {1, 2, 3}
  MaxValue = 4
  MaxJitter = 1
  Nodes = {1, 2}
  NotListed = notlisted
  NoNode = nonode
  RoutingError = error
  NotOpen = notopen
  Scoring <- MCScoring
  Observations <- MCObservations
  MinimumDwellTime = 2
  SwitchMargin = 2
  FailureThreshold = 2
  CircuitCooldown = 2
  InstantMax = 4
  MaxTime = 3
  BASIS_POINTS = 4
  MaximumPolicyDelay = 40
  U32Bits = 4
  DurationMax = 50
  Delays = {0, 1, 3, 7, 20, 40, 41}
INVARIANTS
  RefusedNeverArms
  AcceptedStarts
  KeyHandedOver
  AddressesAssignedOnce
  FailingNodeExcluded
  AnswerNearBest
  DelayWithinJitter
PROPERTIES
  NoFlapping
  WorseNeverScoresHigher
CHECK_DEADLOCK FALSE

SPECIFICATION Spec
CONSTANTS
  ValidInterfaces = {wg0, wg1}
  NoInterface = none
  Endpoints = {e1, e2}
  Elsewhere = elsewhere
  Loopback = lo
  Uplink = eth0
  BadInterface = bad
  SessionIds = {wg0, wg1}
  LateFailure = FALSE
  Directories = {run}
  Families = {"V4"}
  Width <- MCWidth
  Multicast <- MCMulticast
  MaximumCount = 2
  Plans <- MCPlans
  Hosts <- MCHosts
  NoForwarding = noforwarding
  NoPlan = noplan
  MaxTracked = 2
  MaxAge = 2
  MaxFailures = 2
  MaxTime = 5
INVARIANTS
  PolicyDecidesAlone
  AdmittedIsManaged
  ForwardedAsConfigured
  HealthyIsRecent

SPECIFICATION ApiSpec
CONSTANTS
  ValidInterfaces = {wg0}
  NoInterface = none
  NoRule = norule
  Interface = wg0
  Rules <- PolicyRule
  Setup <- MCSetup
  LateFailure = FALSE
INVARIANTS
  ReleasedOnlyWhenClean
  FlagCoversResources
  RulesTracked
  DnsOnlyOverTunnel
  BlockedWhileChanging
PROPERTIES
  AdmitsOnlyCompleteTunnel
  ConnectOkMeansProtected
  ForeignUntouched
  OperationsReturn

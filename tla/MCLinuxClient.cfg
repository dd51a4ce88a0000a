SPECIFICATION ClientSpec
CONSTANTS
  ValidInterfaces = {wg0}
  NoInterface = none
  NoRule = norule
  Interface = wg0
  Rules <- PolicyRule
  Setup <- MCSetup
  LateFailure = TRUE
INVARIANTS
  ExitOkMeansClean
PROPERTIES
  OnlyReleaseLifts
  SignalStopsClient
  ClientSettles
  ImplementsFailSecure

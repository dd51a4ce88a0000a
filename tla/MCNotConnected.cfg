SPECIFICATION ApiSpec
CONSTANTS
  ValidInterfaces = {wg0}
  NoInterface = none
  NoRule = norule
  Interface = wg0
  Rules <- PolicyRule
  Setup <- MCSetup
  LateFailure = FALSE
INVARIANT NotConnectedIsTrue

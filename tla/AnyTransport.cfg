SPECIFICATION Spec
CONSTANTS
  ValidInterfaces = {wg0, wg1, wg2}
  NoInterface = none
  SessionIds = {wg0, wg1, wg2, bad}
  LateFailure = TRUE
INVARIANTS
  AlwaysOnNeverReleased
PROPERTY ImplementsFailSecure

SPECIFICATION Spec
CONSTANTS
  Keys = {k1, k2, k3}
  Routes = {r1, r2}
  NoKey = nokey
  ConfigureCommands = 3
  MaximumNodePeers = 2
  MaximumFailures = 2
INVARIANT StopCanBeRetried

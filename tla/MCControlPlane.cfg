SPECIFICATION ControlSpec
CONSTANTS
  NoFile = nofile
  Accounts = {a1, a2}
  Devices = {d1, d2}
  PublicKeys = {k1, k2}
  Capacity = 2
  Ttl = 1
  MaxTime = 2
  MaxChallenges = 3
  NoSnapshot = nosnapshot
  Device = r1
  Recipients = {r1, r2}
  MaxEnvelopes = 2
  NoEnvelope = noenvelope
  MaxVersion = 3
SYMMETRY MCSymmetry
INVARIANTS
  AcknowledgedSurvives
  ChallengeUsedOnce
  MemoryIsTheFile
  AlwaysRestorable
  PublishedSurvives
  DeviceNotAhead
PROPERTY AppliedOnlyIncreases

SPECIFICATION Spec
CONSTANTS
  r1 = r1
  r2 = r2
  n1 = n1
  e1 = e1
  e2 = e2
  e3 = e3
  Replicas <- OneReplica
  Names <- OneName
  Events <- ThreeEvents
  NameOf <- SameRule
  HostOf <- FirstUnlabelled
  ProcessOf <- FirstUnlabelled
  Quiet = 2
  ReminderEvery = 2
  SweepEvery = 2
  OutboxMax = 1
  BatchSize = 1
  VIPHolder <- VIP1
  MaxDelay = 1
  MaxSweep = 1
  MaxMoves = 0
  MaxFaults = 1
  MaxTime = 6
INVARIANT TypeOK
PROPERTY AggregatedBehindNotification
SYMMETRY RecordSymmetry

SPECIFICATION Spec
CONSTANTS
  r1 = r1
  r2 = r2
  n1 = n1
  e1 = e1
  e2 = e2
  e3 = e3
  Replicas <- TwoReplicas
  Names <- OneName
  Events <- TwoEvents
  NameOf <- SameRule
  HostOf <- AllLabelled
  ProcessOf <- AllLabelled
  Quiet = 3
  ReminderEvery = 2
  SweepEvery = 2
  OutboxMax = 2
  BatchSize = 1
  VIPHolder <- VIP1
  MaxDelay = 1
  MaxSweep = 1
  MaxMoves = 1
  MaxFaults = 1
  MaxTime = 13
INVARIANTS QuietNoticeKept NoIncidentForgotten
PROPERTY ClosedOnlyWhenQuiet
SYMMETRY OutboxSymmetry

SPECIFICATION WatchdogSpec
CONSTANTS
  r1 = r1
  r2 = r2
  Replicas <- TwoReplicas
  ThresholdMinutes = 1
  Holders <- Replica1
  MaxMoves = 1
  MaxRestarts = 1
  MaxMinutes = 6
INVARIANT OutageToldOrCounted
PROPERTY AlertsOncePerOutage

SPECIFICATION FairSpec
CONSTANTS
  Writers <- MainAndSnapshotter
  Budgets <- TwoBudgets
INVARIANTS LogsStayOpen SnapshotReadable
PROPERTIES LogsFollowRotation HealthyOnlyWhenServing

SPECIFICATION FairSpec
CONSTANTS
  r1 = r1
  r2 = r2
  x = x
  y = y
  q1 = q1
  q2 = q2
  Replicas <- OneReplica
  Excludes <- TwoExcludes
  Requests <- TwoRequests
  ReplicaOf <- OnlyReplica1
  ExcludeOf <- MuteYUnmuteX
  Mutes <- Mute1
  MaxRetries = 2
  InitialSets <- OnlyX
  MaxRestarts = 1
  MaxLosses = 1
  MaxFaults = 1
INVARIANT GivesUpOnlyUnderContention
PROPERTIES EachCommitIsItsOwn UpdatesAreAtomic Converges

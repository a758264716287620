SPECIFICATION FairSpec
CONSTANTS
  f1 = f1
  f2 = f2
  w1 = w1
  w2 = w2
  Files <- TwoFiles
  Workers <- TwoWorkers
  QueueSize = 2
  MaxLines = 2
  MaxRotations = 0
  MaxRestarts = 0
  MaxTaken = 2
INVARIANTS LineAccounting StartedInOrder NoSendOnClosedChannel StoreClosedOnlyWhenDrained
PROPERTIES DeliversLines EveryLineSettled

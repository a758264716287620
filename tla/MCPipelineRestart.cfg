SPECIFICATION HungWorkersSpec
CONSTANTS
  f1 = f1
  f2 = f2
  w1 = w1
  w2 = w2
  Files <- OneFile
  Workers <- TwoWorkers
  QueueSize = 1
  MaxLines = 3
  MaxRotations = 1
  MaxRestarts = 2
  MaxTaken = 4
INVARIANT NoLineSkipped
PROPERTY ShutdownCompletes

SPECIFICATION Spec
CONSTANTS
  l1 = l1
  l2 = l2
  l3 = l3
  f1 = f1
  r1 = r1
  p1 = p1
  p2 = p2
  Loads <- AllLoads
  MonitorCount = 2
  Excludes <- BothMutes
  Fingerprints = {f1}
  Rules = {r1}
  NoRule = NoRule
  Processes = {p1, p2}
  NoProcess = NoProcess
  NotAnObject = NotAnObject
  ProcessExcludes = {p2}
  Fields = {"complete", "failures"}
  JSONConfigs <- JSONRules
  ReminderEvery = 2
  Configs <- AllConfigs
  MaxFaults = 1
  MaxExpiries = 1
  MaxCloses = 1
  MaxChanges = 1
SYMMETRY LineSymmetry
INVARIANTS MutedForAllOrNone NoiseNeedsEvidence DuplicatesExplained NothingSwallowed

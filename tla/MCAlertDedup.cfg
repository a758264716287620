SPECIFICATION Spec
CONSTANTS
  r1 = r1
  r2 = r2
  a1 = a1
  a2 = a2
  a3 = a3
  a4 = a4
  p1 = p1
  Replicas <- TwoReplicas
  Alerts <- FourAlerts
  ReplicaOf <- FourOnBoth
  Fingerprints <- OneFingerprint
  TTLs = {2, 3}
  MaxSend = 1
  Outages = {FALSE, TRUE}
  MaxFaults = 1
  MaxTime = 4
SYMMETRY AlertSymmetry
INVARIANTS TypeOK FaultsExplainDuplicates
PROPERTIES NoDuplicateInCooldown SuppressedOnlyInCooldown

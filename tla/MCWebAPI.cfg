SPECIFICATION Spec
CONSTANTS
  q1 = q1
  q2 = q2
  q3 = q3
  q4 = q4
  q5 = q5
  q6 = q6
  c1 = c1
  Loads <- AllLoads
  Clients <- OneClient
  Limit = 2
  Duration = 3
  MaxDelay = 1
  MaxTime = 8
SYMMETRY RequestSymmetry
INVARIANTS AtMostTwiceLimit RefusedOnlyOverLimit HandlersAgree

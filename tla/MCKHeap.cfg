CONSTANTS
  k1 = k1
  k2 = k2
  k3 = k3
  k4 = k4
  k5 = k5
  k6 = k6
  k7 = k7
  KNodes = {k1, k2, k3, k4, k5, k6, k7}
  Rank <- MCRank
  Limit = 4
  NoK = NoK
SPECIFICATION FairSpec
INVARIANT HoldsGreatest
INVARIANT Sorted
PROPERTY Terminates
CHECK_DEADLOCK FALSE

SPECIFICATION FairSpec
CONSTANTS
  c1 = c1
  c2 = c2
  c3 = c3
  c4 = c4
  plough = plough
  spray = spray
  Clusters = {c1, c2, c3, c4}
  Operations = {plough, spray}
  o1 = o1
  o2 = o2
  Operators = {o1, o2}
  Certified <- MCCertified
  NoOperator = NoOperator
  Slots = {1, 2}
  Demands <- MCDemands
  Sharing = TRUE
  Workers = 1
  MaxDeaths = 1
INVARIANT OperatorSingleTasking
INVARIANT PoolAnswers
PROPERTY PoolReturns
CHECK_DEADLOCK FALSE

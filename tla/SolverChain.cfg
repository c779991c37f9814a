SPECIFICATION FairSpec
CONSTANTS
  a = a
  b = b
  c = c
  d = d
  g = g
  k1 = k1
  k2 = k2
  d1 = d1
  d2 = d2
  Tasks = {a, b, c, d}
  NoTask = NoTask
  Groups = {g}
  NoGroup = NoGroup
  Clusters = {k1, k2}
  NoCluster = NoCluster
  Depots = {d1, d2}
  DepotOf <- MCDepotOf
  Inventory <- MCInventory
  Inputs <- MCInputs
INVARIANT Accounted
INVARIANT RelationsServed
INVARIANT MaterialSettled
PROPERTY ChainEnds
CHECK_DEADLOCK FALSE

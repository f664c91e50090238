SPECIFICATION FairSpec
CONSTANTS
  r1 = r1 r2 = r2 r3 = r3 n1 = n1 n2 = n2
  Nodes = {n1, n2}
  Replicas = {r1, r2, r3}
  NodeOf <- TwoNodes
  None = None
  UnlistedChecks = 2
  MaxLookups = 2
  Faults <- TwoFaults
INVARIANTS OneLoaderPerNode
PROPERTIES EveryoneLoads
CHECK_DEADLOCK FALSE

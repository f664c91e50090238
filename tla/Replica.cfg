SPECIFICATION FairSpec
CONSTANTS
  Requests = {a, b}
  Streams = {a}
  Watchable = {a}
  None = none
  MaxItems = 1
  MaxFaults = 1
  Replicas = {p, q}
  First = p
  MaxTransientFailures = 2
  DeathsPerReplica = 1
  MaxRequests = 2
  MaxLosses = 1
INVARIANTS NoOrphanWork NoBackendLeft
PROPERTIES FailuresToldApart RequestsSettle EveryBringUpEnds DeadBackendExits
CHECK_DEADLOCK FALSE

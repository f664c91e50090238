SPECIFICATION FairSpec
CONSTANTS
  m1 = m1 m2 = m2 x = x y = y
  Models = {m1, m2}
  Variants = {x, y}
  Scalings <- TwoScalings
  Absent = Absent
  NoVersion = NoVersion
  MaxRequests = 2
  Inputs <- Changes
  Replicas = {g1}
  Initial <- FromTwo
  ServeKept = {"kept"}
  MaxTries = 2
  Faults = {"lost_reply", "coordinator", "store_write", "serve", "store_read", "recovery_read"}
  MaxFaults = 2
INVARIANTS QuietIsCommitted
CHECK_DEADLOCK FALSE
PROPERTIES EveryRequestEnds
ACTION_CONSTRAINT Bounded

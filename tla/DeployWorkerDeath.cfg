SPECIFICATION Spec
CONSTANTS
  m1 = m1 m2 = m2 x = x y = y
  Models = {m1}
  Variants = {x, y}
  Scalings <- OneScaling
  Absent = Absent
  NoVersion = NoVersion
  MaxRequests = 2
  Inputs <- ReplaceOrBare
  Replicas = {g1}
  Initial <- FromX
  ServeKept = {"kept", "lost"}
  MaxTries = 1
  Faults = {"worker"}
  MaxFaults = 1
INVARIANTS TypeOK CancelExcludesCommit OutcomeMatchesLedger
PROPERTIES DeletesOnlySpare CommitsSound
CHECK_DEADLOCK FALSE

SPECIFICATION Spec
CONSTANTS
  Turns = 4
  Background <- Third
  None = None
  Faults = {"store", "expire"}
  MaxFaults = 1
INVARIANTS HistoryIsLineage
PROPERTIES RefusesOnlyLost SettledOnce
CHECK_DEADLOCK FALSE

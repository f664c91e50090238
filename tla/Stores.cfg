SPECIFICATION Spec
CONSTANTS
  Callers = {a, b}
  Positions = {1, 2}
  NoOne = none
  Idle = idle
  MaxCalls = 4
  MaxFaults = 1
INVARIANTS LogsExpire
PROPERTIES IsAtomicStore
CHECK_DEADLOCK FALSE

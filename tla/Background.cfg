SPECIFICATION FairSpec
CONSTANTS
  t1 = t1 t2 = t2
  Tailers = {t1}
  MaxEvents = 1
  StaleTicks = 4
  Faults = {"gateway", "first_beat", "beat", "registry", "signal", "write", "append", "read"}
  MaxFaults = 2
INVARIANTS TailsInOrder
PROPERTIES OrphansOnlyStopped EveryTailEnds SignalStopsRun
CHECK_DEADLOCK FALSE

SPECIFICATION FairSpec
CONSTANTS
  p1 = p1 p2 = p2
  Procs = {p1, p2}
  LeaseTicks = 6
  RenewTicks = 3
  IdleTicks = 12
  MaxLookups = 3
  NoLease = NoLease
  Faults = {"actor", "process", "rpc", "clean"}
  MaxFaults = 2
INVARIANTS OneDownloader
PROPERTIES EveryWaitEnds

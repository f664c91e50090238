SPECIFICATION McpFairSpec
CONSTANTS
  auto = auto guarded = guarded client = client
  NoName = NoName NoLimit = NoLimit
  Guarded = {guarded}
  ClientTools = {client}
  Listings = {{auto, guarded}, {auto}, {auto, client}}
  Allowed = {{auto, guarded, client}, {auto}}
  Limits = {1, NoLimit}
  TurnCap = 2
  Chunks <- AllChunks
  MaxRequests = 2
  MaxChunks = 3
  Faults = {"client", "server", "expiry", "loader", "store", "unknown"}
  MaxFaults = 1
INVARIANTS OutputMatchesStream CallsGrantedOnce
PROPERTIES EveryResponseEnds
CHECK_DEADLOCK FALSE

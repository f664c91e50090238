SPECIFICATION McpSpec
CONSTANTS
  auto = auto guarded = guarded client = client
  NoName = NoName NoLimit = NoLimit
  Guarded = {guarded}
  ClientTools = {client}
  Listings = {{auto, guarded}}
  Allowed = {{auto, guarded}}
  Limits = {NoLimit}
  TurnCap = 2
  Chunks <- FewChunks
  MaxRequests = 3
  MaxChunks = 3
  Faults = {}
  MaxFaults = 0
INVARIANTS ApprovalsRunOnce
CHECK_DEADLOCK FALSE

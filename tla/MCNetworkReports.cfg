SPECIFICATION PartSpec
CONSTANTS
  PeerOrder <- MCPeerOrder
  target_num_for_peers = 2
  Scenarios <- MCReports
  BufferSize = 0
  Calls = {c1, c2}
  NoCall = NoCall
  max_retries = 1
  DiscoveryBounds <- MCDiscoveryBounds
INVARIANT WaitingSessionsWake
CHECK_DEADLOCK FALSE

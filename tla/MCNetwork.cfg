SPECIFICATION PartSpec
CONSTANTS
  PeerOrder <- MCPeerOrder
  target_num_for_peers = 2
  Scenarios <- MCScenarios
  BufferSize = 0
  Calls = {c1, c2}
  NoCall = NoCall
  max_retries = 1
  DiscoveryBounds <- MCDiscoveryBounds
INVARIANTS QueriesSentOnce ClosedAfterLastResponse ResponsesInOrder SessionsNotLost GatewayAnswers MessagesAgree HashesBind
PROPERTIES SessionsEnd DiscoveryGoesOn
CHECK_DEADLOCK FALSE

SPECIFICATION FairSpec
CONSTANTS
  None = None
  Content <- AllContent
  Peers = {p1, p2}
  num_headers_per_query = 2
  num_block_state_diffs_per_query = 2
  StopsConfigured = {None, 1}
  OldVersions = {"v1"}
  MaxLength = 3
  MaxDisconnects = 1
INVARIANTS FollowsChain FailsOnlyWhenCutOff
PROPERTIES CatchesUp

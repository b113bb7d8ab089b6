SPECIFICATION Spec
CONSTANTS
  None = None
  Content <- AllContent
  Peers = {p1}
  num_headers_per_query = 2
  num_block_state_diffs_per_query = 2
  StopsConfigured = {None}
  OldVersions = {"v1"}
  MaxLength = 2
  MaxDisconnects = 0
INVARIANT NoncesFollowChain

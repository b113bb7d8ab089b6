SPECIFICATION RpcSpec
CONSTANTS
  None = None
  Malformed = Malformed
  Content <- RpcContent
  DeprecatedClasses = {12}
  BlockHashBuffer = 2
  max_events_chunk_size = 2
  max_events_keys = 1
  CompiledClassHash <- CompiledHashes
  KnownVersions = {"v1"}
  Scenarios <- StoredExecutions
CHECK_DEADLOCK FALSE
INVARIANT ReadsOneState

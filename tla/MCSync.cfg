SPECIFICATION PartSpec
CONSTANTS
  None = None
  Content <- Blocks
  DeprecatedClasses = {10}
  Scenarios <- AllScenarios
  UpdateChains <- SomeChains
  StreamConfigs <- SomeConfigs
  Cairo0Classes = {10, 11}
  MaxMissing = 1
INVARIANTS BlocksAsDownloaded ReadsMatchDiffs NeverFails StateDiffsOfChain BaseLayerVerified UpdatesWithTheirClasses StreamNotStuck
PROPERTIES SyncConverges ActsAsOrderedStream

SPECIFICATION StorageSpec
CONSTANTS
  OffsetKind = {state_diff}
  Keys = {k1, k2}
  Values = {v1, v2}
  Readers = {r1}
  max_size = 4
  growth_step = 2
  max_object_size = 2
  OffsetLimit = 4
  LenLimit = 3
  Releases <- SomeReleases
  NoVersion = NoVersion
  MainKeys <- TwoMainKeys
  SubKeys = {0, 1}
  DupValues = {0, 2}
  MaxByte = 2
INVARIANTS CommittedObjectsDurable SnapshotsReadable LocationsDisjoint OpenStorageMatches StateOnlyIsForever OneEntryPerKey
PROPERTIES ActsAsSimpleTable

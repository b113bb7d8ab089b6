CONSTANTS
  a = a
  b = b
  c = c
  d = d
  x = x
  y = y
  None = None
  Hashes <- OneHash
  Validators <- Three
  Proposer = a
  Faulty <- Nobody
  StoredBlocks <- SameBlocks
  MaxHeight = 1
  MaxDuplicates = 1
SPECIFICATION Spec
CHECK_DEADLOCK FALSE
INVARIANTS
  ReplaysHandled

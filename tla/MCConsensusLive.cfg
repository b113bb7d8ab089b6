CONSTANTS
  a = a
  b = b
  c = c
  d = d
  x = x
  y = y
  None = None
  Hashes <- OneHash
  Validators <- Three
  Proposer = a
  Faulty <- Nobody
  StoredBlocks <- SameBlocks
  MaxHeight = 2
  MaxDuplicates = 0
SPECIFICATION FairSpec
CHECK_DEADLOCK FALSE
INVARIANTS NoPanic
PROPERTIES EveryoneDecides

CONSTANTS
  a = a
  b = b
  c = c
  d = d
  x = x
  y = y
  None = None
  Hashes <- TwoHashes
  Validators <- Four
  Proposer = a
  Faulty <- FaultyProposer
  StoredBlocks <- ForkedBlocks
  MaxHeight = 1
  MaxDuplicates = 1
SPECIFICATION Spec
CHECK_DEADLOCK FALSE
SYMMETRY SameForkSymmetry
INVARIANTS
  VotesCountedOnce
  NoQuorumMissed
PROPERTIES
  ImplementsVoting

SPECIFICATION Spec
CONSTANTS
  None = None
  Content <- Blocks
  DeprecatedClasses = {10}
  Scenarios <- Small
INVARIANT SignaturesOfBlocks

CONSTANTS
  NUM_BUFFERS = 3
  Sizes <- TwoOrThree
  Pictures = 2
  FlushFrom <- Anywhere
SPECIFICATION Spec
INVARIANTS FlushLeavesNoInvalidReference

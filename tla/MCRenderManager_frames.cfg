CONSTANTS
  NUM_BUFFERS = 3
  Sizes <- TwoOrThree
  Pictures = 2
  FlushFrom <- WhenModeSwitches
SPECIFICATION Spec
INVARIANTS EachBufferOnce FillingIsNext ShownInOrder
PROPERTIES OutputReturns QueueDrains PlayerCloses

CONSTANTS
  garbage = garbage
  Garbage <- garbage
  m_size = 4
  m_size_back = 1
  SeekAhead = 2
  Length = 5
  m_chunkSize = 2
  Target <- Positions
SPECIFICATION Spec
CHECK_DEADLOCK FALSE
INVARIANTS CacheBounds CacheHoldsTheFile SourceFollowsCache EndOfInputIsTrue
PROPERTIES BackIsKept ReadsTheFile OperationsReturn

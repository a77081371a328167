CONSTANTS
  c1 = c1 c2 = c2 NULL = NULL
  Client <- TwoClients
  Message <- ThreeMessages
  MaxQueued = 1
  MaxLost = 1
SPECIFICATION Spec
INVARIANTS ReferencesCounted
PROPERTIES MessagesComeBack
CHECK_DEADLOCK FALSE

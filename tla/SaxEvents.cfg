SPECIFICATION Spec
CONSTANTS
  StartTags <- Tags
  MaxCalls = 4
  NULL = NULL
  p = p
  u = u
  v = v
INVARIANTS TypeOK StackMatchesTags NamesResolved StreamWellFormed TextInOrder
PROPERTY TextArrives
CHECK_DEADLOCK FALSE

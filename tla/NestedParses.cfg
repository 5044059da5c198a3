SPECIFICATION FairSpec
CONSTANTS
  Parsers = {p, q}
  CallbackGroups = {disk, memory, net}
  Groups <- OfParsers
  RefuseInside = FALSE
  MaxNesting = 2
  MaxParses = 3
  MaxInputs = 2
  NULL = NULL
  p = p
  q = q
  disk = disk
  memory = memory
  net = net
INVARIANTS TypeOK DepthExact ScopesExact BusyExact NothingLeft
PROPERTIES ParsesEnd ImplementsScopes
CHECK_DEADLOCK FALSE

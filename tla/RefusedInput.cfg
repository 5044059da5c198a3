SPECIFICATION Spec
CONSTANTS
  Parsers = {p, q}
  CallbackGroups = {disk, memory, net}
  Groups <- OfParsers
  RefuseInside = TRUE
  MaxNesting = 1
  MaxParses = 1
  MaxInputs = 2
  NULL = NULL
  p = p
  q = q
  disk = disk
  memory = memory
  net = net
INVARIANT ReadByOpener
CHECK_DEADLOCK FALSE

SPECIFICATION XsSpec
CONSTANTS
  Parsers = {n, o}
  NoNet = {n}
  Handling = {}
  SaxParsers = {o}
  MaxNesting = 2
  MaxParses = 2
  NULL = NULL
  n = n
  o = o
INVARIANT ErrorsThrown

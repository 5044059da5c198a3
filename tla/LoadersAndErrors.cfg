SPECIFICATION XsSpec
CONSTANTS
  Parsers = {n, o}
  NoNet = {n}
  Handling = {}
  SaxParsers = {o}
  MaxNesting = 3
  MaxParses = 3
  NULL = NULL
  n = n
  o = o
INVARIANTS XsTypeOK GlobalLoaderStays NoErrorFurtherOut UndisturbedErrorsThrown

SPECIFICATION Spec
CONSTANTS
  a = a
  b = b
  c = c
  p = p
  u = u
  v = v
  NULL = NULL
  Nodes = {a, b, c}
  NsPrefixes = {NULL, p}
  URIs = {u, v}
  MaxDecls = 3
  MaxEdits = 2
  Careful = TRUE
SYMMETRY Alike
INVARIANTS TypeOK NamesInScope DeclaredOnce
PROPERTIES MovesKeepNamespaces MovesKeepNames

SPECIFICATION Spec
CONSTANTS
  Trees = {a, b}
  Uses = {}
  MaxNesting = 2
  NULL = NULL
SYMMETRY Symmetry
INVARIANTS NodesAlive ContextsKept

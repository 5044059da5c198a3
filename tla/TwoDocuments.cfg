SPECIFICATION Spec
CONSTANTS
  Docs = {d1, d2}
  Frags = {f1, f2}
  Elems = {e1, e2}
  Attrs = {}
  NULL = NULL
  MaxHandles = 1
  Uses = {}
SYMMETRY Symmetry
INVARIANTS TypeOK CountsExact HandlesLive OwnersLive LinksAlive

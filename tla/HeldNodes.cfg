SPECIFICATION Spec
CONSTANTS
  Docs = {d1}
  Frags = {f1, f2, f3}
  Elems = {e1, e2, e3}
  Attrs = {a1, a2}
  NULL = NULL
  MaxHandles = 1
  Uses = {}
SYMMETRY Symmetry
CONSTRAINT SmallTrees
INVARIANTS NoDangling NothingLeaks RootOwned

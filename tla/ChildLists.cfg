SPECIFICATION Spec
CONSTANTS
  Elems = {e1, e2, e3, e4}
  Frags = {f1, f2, f3, f4}
  NULL = NULL
  Uses = {}
SYMMETRY Symmetry
INVARIANTS TypeOK WellLinked NoCycles
PROPERTY ImplementsDOM

SPECIFICATION Spec
CONSTANTS
  Threads = {t1, t2, t3}
  Main = t1
  Doc = d
  Nodes = {n1, n2}
  NULL = NULL
  MaxObjects = 2
  Uses = {}
SYMMETRY Symmetry
INVARIANTS ObjectsInMemory CountsExact RegistryExact NothingLeaks

CONSTANTS
  p1 = p1
  p2 = p2
  Producers = {p1}
  Consumers = {c1}
  Running = {p1, c1}
  Nodes = {n1, n2, n3, n4}
  null = null
  Items <- OneProducer
  Reuse = TRUE
  Spurious = FALSE
SYMMETRY Symmetry
SPECIFICATION Spec
INVARIANTS
  DereferencesLive
  HeapAccounted
PROPERTY RefinesFifo

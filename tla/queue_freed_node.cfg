CONSTANTS
  p1 = p1
  p2 = p2
  Producers = {p1, p2}
  Consumers = {c1}
  Running = {}
  Nodes = {n1, n2, n3}
  null = null
  Items <- OneEach
  Reuse = FALSE
  Spurious = FALSE
SYMMETRY Symmetry
SPECIFICATION Spec
INVARIANT DereferencesLive

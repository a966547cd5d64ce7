CONSTANTS
  p1 = p1
  p2 = p2
  Producers = {p1, p2}
  Consumers = {c1, c2}
  Running = {}
  Nodes = {n1, n2, n3, n4}
  null = null
  Items <- TwoProducers
  Reuse = FALSE
  Spurious = TRUE
SYMMETRY Symmetry
SPECIFICATION Spec
INVARIANTS
  ChainIntact
  EmptyAnswersTrue
PROPERTY RefinesFifo

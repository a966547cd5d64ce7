CONSTANTS
  p1 = p1
  p2 = p2
  Producers = {p1, p2}
  Consumers = {c1}
  Running = {p1, c1}
  Nodes = {n1, n2, n3, n4}
  null = null
  Items <- TwoProducers
  Reuse = FALSE
  Spurious = FALSE
SPECIFICATION FairSpec
PROPERTIES
  EnqueueReturns
  Delivered

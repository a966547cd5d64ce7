-------------------------- MODULE MCConcurrentQueue --------------------------
(***************************************************************************)
(* Instances of the queue for TLC.  Addresses are compared for equality    *)
(* and nothing else, and the consumers of one run are alike.               *)
(***************************************************************************)
EXTENDS QueueProperties

CONSTANTS p1, p2

OneProducer  == p1 :> 5
TwoProducers == p1 :> 2 @@ p2 :> 1
OneEach      == p1 :> 1 @@ p2 :> 1

Symmetry == Permutations(Nodes) \cup Permutations(Consumers)

=============================================================================

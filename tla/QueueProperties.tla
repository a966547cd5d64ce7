--------------------------- MODULE QueueProperties ---------------------------
(***************************************************************************)
(* What ConcurrentQueue has to get right.                                  *)
(***************************************************************************)
EXTENDS ConcurrentQueue

(* No thread ever follows a pointer to a deleted node: not the producer    *)
(* that reads or links behind the tail it loaded (lines 78 and 86), not    *)
(* the consumer that reads behind the head it loaded, reads the value of   *)
(* the next node, or deletes the old sentinel (lines 118, 136, 144).       *)
DereferencesLive ==
  /\ \A p \in Producers : pc[p] \in {"next", "link"} => local[p].tail \in live
  /\ \A c \in Consumers :
       /\ pc[c] \in {"next", "free"} => local[c].head \in live
       /\ pc[c] = "value" => local[c].next \in live

(* The pointers in memory spell the queue: from head_ the nodes follow     *)
(* each other in the order they were linked, the last points nowhere, and  *)
(* tail_ is at the last node or at the one before, from which a producer is *)
(* about to move it or, spuriously, failed to (line 92).                   *)
ChainIntact ==
  /\ head = Head(linked)
  /\ \A i \in 1 .. Len(linked) - 1 : next[linked[i]] = linked[i + 1]
  /\ next[Last(linked)] = null
  /\ IsInjective(linked)
  /\ \/ tail = Last(linked)
     \/ /\ Len(linked) > 1
        /\ tail = linked[Len(linked) - 1]
        /\ \/ \E p \in Producers : pc[p] = "swing" /\ local[p].node = Last(linked)
           \/ Spurious

(* Nothing leaks: an allocated node is in the queue, or belongs to one     *)
(* producer that has yet to link it, or to the one consumer about to       *)
(* delete it, and when the queue is destroyed none is left (lines 54-62).  *)
Unlinked == {p \in Producers : pc[p] \in {"tail", "next", "recheck", "link", "help"}}
Freeing  == {c \in Consumers : pc[c] = "free"}
HeapAccounted ==
  IF Destroyed THEN live = {}
  ELSE /\ live = ToSet(linked) \cup {local[p].node : p \in Unlinked}
                              \cup {local[c].head : c \in Freeing}
       /\ Cardinality(live) = Len(linked) + Cardinality(Unlinked) + Cardinality(Freeing)

(* dequeue() answers that the queue is empty only if it was, at the moment *)
(* it read the next pointer of the sentinel (lines 118 to 127).            *)
EmptyAnswersTrue == \A c \in Consumers : pc[c] = "empty" => sawEmpty[c]

(* The queue is a FIFO queue: enqueue() takes effect when the node is      *)
(* linked (line 86), dequeue() when head_ moves (line 139), no value is    *)
(* lost, duplicated or overtaken.                                          *)
Fifo == INSTANCE FifoQueue WITH
  items    <- [i \in 1 .. Len(linked) - 1 |-> value[linked[i + 1]]],
  accepted <- [p \in Producers |-> IF p \in Unlinked THEN sent[p] - 1 ELSE sent[p]]
RefinesFifo == Fifo!Spec

(* Lock-freedom, as header lines 16 and 17 give it, for calls of finite    *)
(* number: whichever threads are delayed for ever, and wherever, a running *)
(* producer's enqueue() returns ...                                        *)
EnqueueReturns ==
  \A p \in Producers \cap Running : pc[p] \notin {"out", "gone"} ~> pc[p] = "out"

(* ... and what is in the queue comes out, while some consumer runs and    *)
(* nobody destroys the queue.                                              *)
Delivered ==
  \A n \in Nodes :
    n \in ToSet(Tail(linked)) ~> n \notin ToSet(Tail(linked)) \/ Destroyed

=============================================================================

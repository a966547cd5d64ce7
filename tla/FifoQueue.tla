----------------------------- MODULE FifoQueue ------------------------------
(***************************************************************************)
(* What ConcurrentQueue promises its users: a queue shared by producers    *)
(* and consumers, in which enqueue() and dequeue() take effect at once.    *)
(* The i-th value that producer p enqueues is <<p, i>>.                    *)
(***************************************************************************)
EXTENDS Integers, Sequences

CONSTANTS
  Producers,   (* threads that call enqueue() *)
  Consumers    (* threads that call dequeue() *)

VARIABLES
  items,       (* what is in the queue, the front first    *)
  accepted,    (* how many values of each producer got in  *)
  received     (* what each consumer got out, in order     *)

fifoVars == <<items, accepted, received>>

Init ==
  /\ items    = <<>>
  /\ accepted = [p \in Producers |-> 0]
  /\ received = [c \in Consumers |-> <<>>]

Enqueue(p) ==
  /\ items'    = Append(items, <<p, accepted[p] + 1>>)
  /\ accepted' = [accepted EXCEPT ![p] = @ + 1]
  /\ UNCHANGED received

Dequeue(c) ==
  /\ items # <<>>
  /\ items'    = Tail(items)
  /\ received' = [received EXCEPT ![c] = Append(@, Head(items))]
  /\ UNCHANGED accepted

Next ==
  \/ \E p \in Producers : Enqueue(p)
  \/ \E c \in Consumers : Dequeue(c)

Spec == Init /\ [][Next]_fifoVars

=============================================================================

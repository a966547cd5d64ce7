--------------------------- MODULE ConcurrentQueue ---------------------------
(***************************************************************************)
(* The lock-free queue of benchmark/concurrent_queue.h, between threads    *)
(* that enqueue and threads that dequeue.                                  *)
(*                                                                         *)
(* A step is one access to memory that other threads see: a load, a store, *)
(* a compare-and-swap, new or delete.  pc[t] names the access that thread  *)
(* t makes next, with the line of the source it is at:                     *)
(*                                                                         *)
(*   enqueue():  out 74, tail 77, next 78, recheck 81, link 86,            *)
(*               swing 92, help 100                                        *)
(*   dequeue():  head 116, tail 117, next 118, recheck 121, empty 127,     *)
(*               help 130, value 136, take 139, free 144                   *)
(*   afterwards: gone                                                      *)
(*                                                                         *)
(* Accesses of all threads are interleaved: memory is sequentially         *)
(* consistent.  A deleted node keeps its contents until its address is     *)
(* allocated again, which is one outcome of reading it; whether a thread   *)
(* ever does is DereferencesLive.                                          *)
(***************************************************************************)
EXTENDS Integers, FiniteSets, SequencesExt

CONSTANTS
  Producers,   (* threads that call enqueue()                                *)
  Consumers,   (* threads that call dequeue()                                *)
  Nodes,       (* the addresses new may return                               *)
  null,        (* nullptr, and the value of a node made without one          *)
  Items,       (* bound: how many values the producers enqueue, each         *)
  Reuse,       (* new may return an address that was deleted                 *)
  Spurious,    (* compare_exchange_weak may fail where it could succeed      *)
  Running      (* the threads that are never delayed for ever                *)

ASSUME ThreadsAssumption == Producers \cap Consumers = {}
ASSUME NodesAssumption   == null \notin Nodes /\ Nodes # {}
ASSUME ItemsAssumption   == Items \in [Producers -> Nat]
ASSUME BuildAssumption   == Reuse \in BOOLEAN /\ Spurious \in BOOLEAN
ASSUME RunningAssumption == Running \subseteq Producers \cup Consumers

Threads == Producers \cup Consumers

VARIABLES
  head, tail,  (* head_ and tail_                                            *)
  next, value, (* the fields of the node at each address                     *)
  live,        (* the addresses allocated and not deleted                    *)
  deleted,     (* the addresses deleted and not allocated since              *)
  pc,          (* what each thread does next                                 *)
  local,       (* the local variables of each thread                         *)
  sent,        (* how many calls of enqueue() each producer has begun        *)
  linked,      (* history: the nodes from the sentinel on, as they were linked *)
  received,    (* history: what each consumer got out, in order              *)
  sawEmpty     (* history: the queue was empty when the consumer read next   *)

heap    == <<next, value, live, deleted>>
history == <<linked, received, sawEmpty>>
vars    == <<head, tail, heap, pc, local, sent, history>>

(* The locals of a thread at the start of an attempt. *)
Blank == [node |-> null, head |-> null, tail |-> null, next |-> null, value |-> null]

Init ==
  \E sentinel \in Nodes :
    /\ head     = sentinel
    /\ tail     = sentinel
    /\ next     = [n \in Nodes |-> null]
    /\ value    = [n \in Nodes |-> null]
    /\ live     = {sentinel}
    /\ deleted  = {}
    /\ pc       = [t \in Threads |-> IF t \in Producers THEN "out" ELSE "head"]
    /\ local    = [t \in Threads |-> Blank]
    /\ sent     = [p \in Producers |-> 0]
    /\ linked   = <<sentinel>>
    /\ received = [c \in Consumers |-> <<>>]
    /\ sawEmpty = [c \in Consumers |-> FALSE]

-----------------------------------------------------------------------------
(* Steps of a thread.  (Where a definition is followed by another whose    *)
(* name it lengthens, it is that one with a slip: see OrderBook.)          *)

Goto(t, from, to) ==
  /\ pc[t] = from
  /\ pc' = [pc EXCEPT ![t] = to]

Set(t, field, v) == local' = [local EXCEPT ![t][field] = v]

FirstAccess(t) == IF t \in Producers THEN "tail" ELSE "head"

(* The next round of the loop: only the node to be linked outlives a round. *)
Retry(t) == local' = [local EXCEPT ![t] = [Blank EXCEPT !.node = local[t].node]]
Leave(t) == local' = [local EXCEPT ![t] = Blank]

(* compare_exchange_weak on tail_, whose result nobody looks at. *)
SwingTail(t, new) ==
  \/ tail = local[t].tail /\ tail' = new
  \/ (tail # local[t].tail \/ Spurious) /\ tail' = tail

(* tail_ is loaded: the first access of enqueue(), the second of dequeue(). *)
LoadTail(t) ==
  /\ Goto(t, "tail", "next")
  /\ Set(t, "tail", tail)
  /\ UNCHANGED <<head, tail, heap, sent, history>>

(* The tail lags behind: it is moved on, and the loop goes round again. *)
HelpBySpinning(t) ==
  /\ Goto(t, "help", FirstAccess(t))
  /\ Retry(t)
  /\ UNCHANGED <<head, tail, heap, sent, history>>
HelpByProducersOnly(t) ==
  /\ Goto(t, "help", FirstAccess(t))
  /\ IF t \in Producers THEN SwingTail(t, local[t].next) ELSE UNCHANGED tail
  /\ Retry(t)
  /\ UNCHANGED <<head, heap, sent, history>>
Help(t) ==
  /\ Goto(t, "help", FirstAccess(t))
  /\ SwingTail(t, local[t].next)
  /\ Retry(t)
  /\ UNCHANGED <<head, heap, sent, history>>

-----------------------------------------------------------------------------
(* enqueue() *)

(* The value is put into a node of its own. *)
NewNode(p, n) ==
  /\ Goto(p, "out", "tail")
  /\ sent[p] < Items[p]
  /\ n \notin live
  /\ n \in deleted => Reuse
  /\ live'    = live \cup {n}
  /\ deleted' = deleted \ {n}
  /\ value'   = [value EXCEPT ![n] = <<p, sent[p] + 1>>]
  /\ next'    = [next EXCEPT ![n] = null]
  /\ sent'    = [sent EXCEPT ![p] = @ + 1]
  /\ Set(p, "node", n)
  /\ UNCHANGED <<head, tail, history>>

LoadNextOfTail(p) ==
  /\ p \in Producers
  /\ Goto(p, "next", "recheck")
  /\ Set(p, "next", next[local[p].tail])
  /\ UNCHANGED <<head, tail, heap, sent, history>>

RecheckTail(p) ==
  /\ p \in Producers
  /\ \/ Goto(p, "recheck", "tail") /\ tail # local[p].tail /\ Retry(p)
     \/ /\ Goto(p, "recheck", IF local[p].next = null THEN "link" ELSE "help")
        /\ tail = local[p].tail
        /\ UNCHANGED local
  /\ UNCHANGED <<head, tail, heap, sent, history>>

(* The node is linked behind the last one, unless another was before it. *)
LinkByStore(p) ==
  /\ Goto(p, "link", "swing")
  /\ next'   = [next EXCEPT ![local[p].tail] = local[p].node]
  /\ linked' = Append(linked, local[p].node)
  /\ UNCHANGED <<local, head, tail, value, live, deleted, sent, received, sawEmpty>>
Link(p) ==
  /\ \/ /\ Goto(p, "link", "swing")
        /\ next[local[p].tail] = null
        /\ next'   = [next EXCEPT ![local[p].tail] = local[p].node]
        /\ linked' = Append(linked, local[p].node)
        /\ UNCHANGED local
     \/ /\ Goto(p, "link", "tail")
        /\ next[local[p].tail] # null \/ Spurious
        /\ Retry(p)
        /\ UNCHANGED <<next, linked>>
  /\ UNCHANGED <<head, tail, value, live, deleted, sent, received, sawEmpty>>

(* Best effort: where it fails, another thread moves tail_ on. *)
SwingToNodeForgotten(p) ==
  /\ Goto(p, "swing", "out")
  /\ Leave(p)
  /\ UNCHANGED <<head, tail, heap, sent, history>>
SwingToNode(p) ==
  /\ Goto(p, "swing", "out")
  /\ SwingTail(p, local[p].node)
  /\ Leave(p)
  /\ UNCHANGED <<head, heap, sent, history>>

-----------------------------------------------------------------------------
(* dequeue() *)

LoadHead(c) ==
  /\ Goto(c, "head", "tail")
  /\ Set(c, "head", head)
  /\ UNCHANGED <<head, tail, heap, sent, history>>

LoadNextOfHead(c) ==
  /\ c \in Consumers
  /\ Goto(c, "next", "recheck")
  /\ Set(c, "next", next[local[c].head])
  /\ sawEmpty' = [sawEmpty EXCEPT ![c] = Len(linked) = 1]
  /\ UNCHANGED <<head, tail, heap, sent, linked, received>>

(* Where the loop body goes once head_ is known to be unchanged. *)
BranchIgnoringNext(l) == IF l.head # l.tail THEN "value" ELSE "empty"
Branch(l) ==
  IF l.head # l.tail THEN "value" ELSE IF l.next = null THEN "empty" ELSE "help"

RecheckHead(c) ==
  /\ c \in Consumers
  /\ \/ Goto(c, "recheck", "head") /\ head # local[c].head /\ Retry(c)
     \/ /\ Goto(c, "recheck", Branch(local[c]))
        /\ head = local[c].head
        /\ UNCHANGED local
  /\ UNCHANGED <<head, tail, heap, sent, history>>

ReturnEmpty(c) ==
  /\ Goto(c, "empty", "head")
  /\ Leave(c)
  /\ UNCHANGED <<head, tail, heap, sent, history>>

(* The value is copied out before its node becomes the sentinel. *)
ReadValueOfHead(c) ==
  /\ Goto(c, "value", "take")
  /\ Set(c, "value", value[local[c].head])
  /\ UNCHANGED <<head, tail, heap, sent, history>>
ReadValue(c) ==
  /\ Goto(c, "value", "take")
  /\ Set(c, "value", value[local[c].next])
  /\ UNCHANGED <<head, tail, heap, sent, history>>

(* head_ moves on to the next node, unless another consumer moved it. *)
TakeByStore(c) ==
  /\ Goto(c, "take", "free")
  /\ head'     = local[c].next
  /\ linked'   = Tail(linked)
  /\ received' = [received EXCEPT ![c] = Append(@, local[c].value)]
  /\ UNCHANGED <<local, tail, heap, sent, sawEmpty>>
Take(c) ==
  /\ \/ /\ Goto(c, "take", "free")
        /\ head = local[c].head
        /\ head'     = local[c].next
        /\ linked'   = Tail(linked)
        /\ received' = [received EXCEPT ![c] = Append(@, local[c].value)]
        /\ UNCHANGED local
     \/ /\ Goto(c, "take", "head")
        /\ head # local[c].head \/ Spurious
        /\ Retry(c)
        /\ UNCHANGED <<head, linked, received>>
  /\ UNCHANGED <<tail, heap, sent, sawEmpty>>

(* The old sentinel is deleted and dequeue() returns true. *)
FreeNodeForgotten(c) ==
  /\ Goto(c, "free", "head")
  /\ Leave(c)
  /\ UNCHANGED <<head, tail, heap, sent, history>>
FreeNode(c) ==
  /\ Goto(c, "free", "head")
  /\ live'    = live \ {local[c].head}
  /\ deleted' = deleted \cup {local[c].head}
  /\ Leave(c)
  /\ UNCHANGED <<head, tail, next, value, sent, history>>

(* The destructor, when no thread is in a call: it deletes the nodes it    *)
(* comes by, from head_ on.  (It runs alone, and is one step.)             *)
Walk ==
  LET at[k \in 0 .. Cardinality(Nodes)] ==
        IF k = 0 THEN head ELSE IF at[k - 1] = null THEN null ELSE next[at[k - 1]]
  IN  {at[k] : k \in 0 .. Cardinality(Nodes)} \ {null}

Destroy ==
  /\ \A t \in Threads : pc[t] = IF t \in Producers THEN "out" ELSE "head"
  /\ pc'      = [t \in Threads |-> "gone"]
  /\ live'    = live \ Walk
  /\ deleted' = deleted \cup Walk
  /\ UNCHANGED <<head, tail, next, value, local, sent, history>>

Destroyed == \A t \in Threads : pc[t] = "gone"

-----------------------------------------------------------------------------
EnqueueStep(p) ==
  LoadTail(p) \/ LoadNextOfTail(p) \/ RecheckTail(p) \/ Link(p) \/ SwingToNode(p) \/ Help(p)

DequeueStep(c) ==
  \/ LoadHead(c) \/ LoadTail(c) \/ LoadNextOfHead(c) \/ RecheckHead(c)
  \/ ReturnEmpty(c) \/ Help(c)
  \/ ReadValue(c) \/ Take(c) \/ FreeNode(c)

Next ==
  \/ \E p \in Producers, n \in Nodes : NewNode(p, n)
  \/ \E p \in Producers : EnqueueStep(p)
  \/ \E c \in Consumers : DequeueStep(c)
  \/ Destroy
  \/ Destroyed /\ UNCHANGED vars     \* nothing is left to do

Spec == Init /\ [][Next]_vars

(* A running thread is never descheduled for good.  Any other may be left  *)
(* standing at any line of the code, for ever.                             *)
FairSpec ==
  /\ Spec
  /\ \A p \in Producers \cap Running : WF_vars(EnqueueStep(p))
  /\ \A c \in Consumers \cap Running : WF_vars(DequeueStep(c))

=============================================================================

----------------------------- MODULE QueueProofs ------------------------------
(***************************************************************************)
(* For any number of threads, nodes and values: the queue is a FIFO queue  *)
(* as long as no address is used twice, and, between one producer and one  *)
(* consumer, also when deleted addresses are used again.                   *)
(***************************************************************************)
EXTENDS QueueProperties, QueueLemmas, FiniteSetTheorems

(* One thread at each end, and a compare-and-swap that fails only where the *)
(* values differ: all that is left of reclamation is then in order.        *)
OneToOne ==
  /\ \E p \in Producers : Producers = {p}
  /\ \E c \in Consumers : Consumers = {c}
  /\ ~Spurious

Places == {"out", "head", "tail", "next", "recheck", "link", "swing", "help", "empty",
           "value", "take", "free", "gone"}
Local  == [node : Nodes \cup {null}, head : Nodes \cup {null}, tail : Nodes \cup {null},
           next : Nodes \cup {null}, value : {null} \cup (Producers \X Nat)]

QueueTypeOK ==
  /\ head \in Nodes /\ tail \in Nodes
  /\ next \in [Nodes -> Nodes \cup {null}]
  /\ value \in [Nodes -> {null} \cup (Producers \X Nat)]
  /\ pc \in [Threads -> Places]
  /\ \A p \in Producers : pc[p] \notin {"head", "empty", "value", "take", "free"}
  /\ \A c \in Consumers : pc[c] \notin {"out", "link", "swing"}
  /\ local \in [Threads -> Local]
  /\ sent \in [Producers -> Nat]
  /\ linked \in Seq(Nodes)
  /\ received \in [Consumers -> Seq({null} \cup (Producers \X Nat))]
  /\ sawEmpty \in [Consumers -> BOOLEAN]

(* The pointers spell the queue, and tail_ is at most one node behind. *)
Chained ==
  /\ linked # <<>>
  /\ IsInjective(linked)
  /\ head = linked[1]
  /\ \A i \in 1 .. Len(linked) - 1 : next[linked[i]] = linked[i + 1]
  /\ next[Last(linked)] = null
  /\ tail # Last(linked) => Len(linked) > 1 /\ tail = linked[Len(linked) - 1]

(* It is behind while the producer of the last node is about to swing it.  *)
Lagging ==
  tail # Last(linked) =>
    Spurious \/ \E p \in Producers : pc[p] = "swing" /\ local[p].node = Last(linked)

(* Every allocated node is at one place. *)
NewNodes == {local[p].node : p \in Unlinked}
OldHeads == {local[c].head : c \in Freeing}
Heap ==
  /\ live = ToSet(linked) \cup NewNodes \cup OldHeads
  /\ deleted \subseteq Nodes /\ deleted \cap live = {}
  /\ NewNodes \cap ToSet(linked) = {} /\ OldHeads \cap ToSet(linked) = {}
  /\ NewNodes \cap OldHeads = {}
  /\ NewNodes \subseteq Nodes /\ OldHeads \subseteq Nodes
  /\ \A p, q \in Unlinked : local[p].node = local[q].node => p = q
  /\ \A c, d \in Freeing : local[c].head = local[d].head => c = d

(* The node of a producer that has not linked it holds its last value. *)
Prepared ==
  \A p \in Unlinked : next[local[p].node] = null /\ value[local[p].node] = <<p, sent[p]>>

(* The nodes a thread may know of: all that were ever linked, if no address *)
(* is used twice, those in the queue otherwise.                             *)
Known == IF OneToOne THEN ToSet(linked) ELSE (live \cup deleted) \ NewNodes

KnownChain ==
  /\ \A n \in Known : next[n] = null => n = Last(linked)
  /\ \A n \in Known : next[n] # null => next[n] \in Known
  /\ \A m, n \in Known : next[m] = next[n] => m = n

ProducerKnows(p) ==
  /\ pc[p] \in {"next", "recheck", "link", "help"} => local[p].tail \in Known
  /\ pc[p] \in {"next", "recheck", "link"} /\ local[p].tail = Last(linked) => tail = Last(linked)
  /\ pc[p] = "recheck" => local[p].next \in {null, next[local[p].tail]}
  /\ pc[p] = "help" => local[p].next = next[local[p].tail] /\ local[p].next # null
  /\ pc[p] = "swing" =>
       /\ local[p].node \in Nodes
       /\ local[p].node = Last(linked) => tail \in {local[p].tail, Last(linked)}
       /\ tail = local[p].tail => local[p].node = next[tail]
       /\ ~OneToOne => local[p].tail \in Known /\ next[local[p].tail] = local[p].node
  /\ OneToOne =>
       /\ pc[p] # "help"
       /\ pc[p] \in {"next", "recheck", "link"} => local[p].tail = Last(linked)
       /\ pc[p] = "swing" => local[p].node = Last(linked) /\ local[p].tail # Last(linked)

ConsumerKnows(c) ==
  /\ pc[c] \in {"tail", "next", "recheck", "help", "value", "take"} =>
       local[c].head \in Known \ ToSet(Tail(linked))
  /\ pc[c] \in {"next", "recheck", "help", "value", "take"} =>
       (local[c].head = head /\ tail = head => local[c].tail = head)
  /\ pc[c] = "recheck" /\ local[c].next = null => sawEmpty[c] /\ local[c].tail = local[c].head
  /\ pc[c] = "recheck" /\ local[c].next # null => local[c].next = next[local[c].head]
  /\ pc[c] \in {"help", "value", "take"} =>
       local[c].next = next[local[c].head] /\ local[c].next # null
  /\ pc[c] = "help" => local[c].head = local[c].tail
  /\ pc[c] \in {"value", "take"} => local[c].head # local[c].tail
  /\ pc[c] = "take" => local[c].value = value[local[c].next]
  /\ pc[c] = "empty" => sawEmpty[c]
  /\ pc[c] = "free" /\ ~OneToOne => local[c].head \in Known

QueueInv ==
  /\ QueueTypeOK /\ Chained /\ Lagging
  /\ ~Destroyed =>
       /\ Heap /\ Prepared /\ KnownChain
       /\ \A p \in Producers : ProducerKnows(p)
       /\ \A c \in Consumers : ConsumerKnows(c)

-----------------------------------------------------------------------------
(* Reading the invariant *)

LEMMA ChainFacts ==
  ASSUME QueueTypeOK, Chained
  PROVE  /\ Len(linked) \in Nat \ {0} /\ DOMAIN linked = 1 .. Len(linked)
         /\ ToSet(linked) \subseteq Nodes
         /\ \A i \in 1 .. Len(linked) : linked[i] \in ToSet(linked)
         /\ \A n \in ToSet(linked) : \E i \in 1 .. Len(linked) : n = linked[i]
         /\ \A i, j \in 1 .. Len(linked) : linked[i] = linked[j] => i = j
         /\ Last(linked) = linked[Len(linked)]
         /\ {head, tail, Last(linked)} \subseteq ToSet(linked)
         /\ Tail(linked) \in Seq(Nodes) /\ ToSet(Tail(linked)) = ToSet(linked) \ {head}
         /\ \A n \in ToSet(linked) : n # Last(linked) => next[n] \in ToSet(linked) \ {head}
         /\ tail # Last(linked) => next[tail] = Last(linked)
         /\ head = Last(linked) <=> Len(linked) = 1
         /\ next[Last(linked)] = null
         /\ head # Last(linked) => next[head] = linked[2]
<1>1. /\ Len(linked) \in Nat \ {0} /\ DOMAIN linked = 1 .. Len(linked)
      /\ linked \in Seq(Nodes)
      /\ \A i \in 1 .. Len(linked) : linked[i] \in Nodes
  BY DEF QueueTypeOK, Chained
<1>2. /\ ToSet(linked) \subseteq Nodes
      /\ \A i \in 1 .. Len(linked) : linked[i] \in ToSet(linked)
      /\ \A n \in ToSet(linked) : \E i \in 1 .. Len(linked) : n = linked[i]
  BY <1>1 DEF ToSet
<1>3. \A i, j \in 1 .. Len(linked) : linked[i] = linked[j] => i = j
  BY <1>1 DEF Chained, IsInjective
<1>4. Last(linked) = linked[Len(linked)]
  BY DEF Last
<1>5. {head, tail, Last(linked)} \subseteq ToSet(linked)
  BY <1>1, <1>2, <1>4 DEF Chained
<1>6. ASSUME NEW n \in ToSet(linked), n # Last(linked)
      PROVE  next[n] \in ToSet(linked) \ {head}
  <2>1. PICK i \in 1 .. Len(linked) : n = linked[i]
    BY <1>2
  <2>2. i \in 1 .. Len(linked) - 1 /\ i + 1 \in 1 .. Len(linked) /\ i + 1 # 1 /\ 1 \in 1 .. Len(linked)
    BY <1>1, <1>4, <1>6, <2>1
  <2>3. next[n] = linked[i + 1]
    BY <2>1, <2>2 DEF Chained
  <2> QED BY <1>2, <1>3, <2>2, <2>3 DEF Chained
<1>7. tail # Last(linked) => next[tail] = Last(linked)
  <2> SUFFICES ASSUME tail # Last(linked) PROVE next[tail] = Last(linked)
    OBVIOUS
  <2>1. Len(linked) - 1 \in 1 .. Len(linked) - 1 /\ tail = linked[Len(linked) - 1]
    BY <1>1 DEF Chained
  <2>2. next[tail] = linked[(Len(linked) - 1) + 1]
    BY <2>1 DEF Chained
  <2> QED BY <1>1, <1>4, <2>2
<1>8. head = Last(linked) <=> Len(linked) = 1
  BY <1>1, <1>3, <1>4 DEF Chained
<1>9. head # Last(linked) => next[head] = linked[2]
  <2> SUFFICES ASSUME head # Last(linked) PROVE next[head] = linked[2]
    OBVIOUS
  <2>1. 1 \in 1 .. Len(linked) - 1
    BY <1>1, <1>8
  <2>2. next[linked[1]] = linked[1 + 1]
    BY <2>1 DEF Chained
  <2> QED BY <2>2 DEF Chained
<1>10. Tail(linked) \in Seq(Nodes) /\ ToSet(Tail(linked)) = ToSet(linked) \ {head}
  <2>1. linked # <<>> /\ IsInjective(linked) /\ Head(linked) = head
    BY <1>1 DEF Chained
  <2> QED BY <1>1, <2>1, PopQueue
<1> QED BY <1>1, <1>2, <1>3, <1>4, <1>5, <1>6, <1>7, <1>8, <1>9, <1>10 DEF Chained

(* The invariant while the queue exists, with what follows at once. *)
LEMMA InvFacts ==
  ASSUME QueueInv, ~Destroyed
  PROVE  /\ QueueTypeOK /\ Chained /\ Lagging /\ Heap /\ Prepared /\ KnownChain
         /\ \A p \in Producers : ProducerKnows(p)
         /\ \A c \in Consumers : ConsumerKnows(c)
         /\ Known \subseteq Nodes /\ ToSet(linked) \subseteq Known
         /\ null \notin Nodes /\ Producers \cap Consumers = {}
<1>1. /\ QueueTypeOK /\ Chained /\ Lagging /\ Heap /\ Prepared /\ KnownChain
      /\ \A p \in Producers : ProducerKnows(p)
      /\ \A c \in Consumers : ConsumerKnows(c)
  BY DEF QueueInv
<1>2. ToSet(linked) \subseteq Nodes
  BY <1>1, ChainFacts
<1>3. Known \subseteq Nodes /\ ToSet(linked) \subseteq Known
  BY <1>1, <1>2 DEF Heap, Known
<1> QED BY <1>1, <1>3, NodesAssumption, ThreadsAssumption

-----------------------------------------------------------------------------
(* What the helpers do to the local variables *)

OnlyAt(t) ==
  /\ local' \in [Threads -> Local]
  /\ \A u \in Threads \ {t} : local'[u] = local[u]

LEMMA SetLocal ==
  ASSUME local \in [Threads -> Local], NEW t \in Threads,
         NEW f \in {"node", "head", "tail", "next"}, NEW v \in Nodes \cup {null}, Set(t, f, v)
  PROVE  /\ OnlyAt(t)
         /\ local'[t].node  = IF f = "node" THEN v ELSE local[t].node
         /\ local'[t].head  = IF f = "head" THEN v ELSE local[t].head
         /\ local'[t].tail  = IF f = "tail" THEN v ELSE local[t].tail
         /\ local'[t].next  = IF f = "next" THEN v ELSE local[t].next
         /\ local'[t].value = local[t].value
<1>1. CASE f = "node"
  BY <1>1 DEF Set, OnlyAt, Local
<1>2. CASE f = "head"
  BY <1>2 DEF Set, OnlyAt, Local
<1>3. CASE f = "tail"
  BY <1>3 DEF Set, OnlyAt, Local
<1>4. CASE f = "next"
  BY <1>4 DEF Set, OnlyAt, Local
<1> QED BY <1>1, <1>2, <1>3, <1>4

LEMMA SetLocalValue ==
  ASSUME local \in [Threads -> Local], NEW t \in Threads,
         NEW v \in {null} \cup (Producers \X Nat), Set(t, "value", v)
  PROVE  /\ OnlyAt(t)
         /\ local'[t].node = local[t].node /\ local'[t].head = local[t].head
         /\ local'[t].tail = local[t].tail /\ local'[t].next = local[t].next
         /\ local'[t].value = v
BY DEF Set, OnlyAt, Local

LEMMA ResetLocal ==
  ASSUME local \in [Threads -> Local], NEW t \in Threads
  PROVE  /\ Retry(t) => OnlyAt(t) /\ local'[t] = [Blank EXCEPT !.node = local[t].node]
                                  /\ local'[t].node = local[t].node
         /\ Leave(t) => OnlyAt(t) /\ local'[t] = Blank
BY DEF Retry, Leave, OnlyAt, Local, Blank

LEMMA GotoFacts ==
  ASSUME pc \in [Threads -> Places], NEW t \in Threads, NEW from, NEW to \in Places,
         Goto(t, from, to)
  PROVE  /\ pc[t] = from /\ pc'[t] = to
         /\ \A u \in Threads \ {t} : pc'[u] = pc[u]
         /\ pc' \in [Threads -> Places]
BY DEF Goto

-----------------------------------------------------------------------------
(* Steps that leave the heap and the queue alone.  The tail may catch up.  *)
Quiet(t) ==
  /\ UNCHANGED <<head, next, value, live, deleted, sent, linked, received>>
  /\ tail' \in {tail, Last(linked)}
  /\ \A u \in Threads \ {t} : pc'[u] = pc[u] /\ local'[u] = local[u]
  /\ \A c \in Consumers \ {t} : sawEmpty'[c] = sawEmpty[c]
  /\ t \in Producers =>
       (t \in Unlinked <=> t \in Unlinked') /\ (t \in Unlinked => local'[t].node = local[t].node)
  /\ t \in Consumers => pc[t] # "free" /\ pc'[t] # "free"

(* They disturb neither the queue nor what the other threads know. *)
LEMMA QuietKeepsShared ==
  ASSUME QueueInv, ~Destroyed, NEW t \in Threads, Quiet(t)
  PROVE  /\ Chained' /\ Heap' /\ Prepared' /\ KnownChain' /\ Known' = Known
         /\ NewNodes' = NewNodes
<1>1. /\ Chained /\ Heap /\ Prepared /\ KnownChain
  BY InvFacts
<1>2. UNCHANGED <<head, next, value, live, deleted, sent, linked>>
  BY DEF Quiet
<1>3. Last(linked)' = Last(linked)
  BY <1>2 DEF Last
<1>4. Unlinked' = Unlinked /\ \A p \in Unlinked : local'[p].node = local[p].node
  <2>1. Unlinked \subseteq Producers /\ Unlinked' \subseteq Producers
    BY DEF Unlinked
  <2>2. ASSUME NEW p \in Producers
        PROVE  (p \in Unlinked <=> p \in Unlinked') /\ (p \in Unlinked => local'[p].node = local[p].node)
    <3>1. CASE p = t
      BY <3>1 DEF Quiet
    <3>2. CASE p # t
      BY <3>2 DEF Quiet, Unlinked, Threads
    <3> QED BY <3>1, <3>2
  <2> QED BY <2>1, <2>2
<1>5. Freeing' = Freeing /\ \A c \in Freeing : local'[c].head = local[c].head
  <2>1. ASSUME NEW c \in Consumers
        PROVE  (c \in Freeing <=> c \in Freeing') /\ (c \in Freeing => local'[c].head = local[c].head)
    BY DEF Quiet, Freeing, Threads
  <2> QED BY <2>1 DEF Freeing
<1>6. NewNodes' = NewNodes /\ OldHeads' = OldHeads
  BY <1>4, <1>5 DEF NewNodes, OldHeads
<1>7. Known' = Known
  BY <1>2, <1>6 DEF Known
<1>8. Chained'
  BY <1>1, <1>2, <1>3 DEF Quiet, Chained
<1>9. Heap'
  BY <1>1, <1>2, <1>4, <1>5, <1>6 DEF Heap
<1>10. Prepared'
  BY <1>1, <1>2, <1>4 DEF Prepared
<1>11. KnownChain'
  BY <1>1, <1>2, <1>3, <1>7 DEF KnownChain
<1> QED BY <1>6, <1>7, <1>8, <1>9, <1>10, <1>11

LEMMA QuietKeepsOthers ==
  ASSUME QueueInv, ~Destroyed, NEW t \in Threads, Quiet(t)
  PROVE  /\ \A p \in Producers \ {t} : ProducerKnows(p)'
         /\ \A c \in Consumers \ {t} : ConsumerKnows(c)'
<1>1. UNCHANGED <<head, next, value, live, deleted, sent, linked>> /\ tail' \in {tail, Last(linked)}
  BY DEF Quiet
<1>2. Last(linked)' = Last(linked)
  BY <1>1 DEF Last
<1>3. Known' = Known
  BY QuietKeepsShared
<1>4. /\ next[Last(linked)] = null /\ null \notin Nodes
      /\ tail' = tail \/ (tail' = Last(linked) /\ Last(linked) # head)
  BY <1>1, InvFacts, ChainFacts
<1>5. ASSUME NEW p \in Producers \ {t} PROVE ProducerKnows(p)'
  <2>1. ProducerKnows(p) /\ pc'[p] = pc[p] /\ local'[p] = local[p]
    BY InvFacts DEF Quiet, Threads
  <2>2. pc[p] = "swing" => local[p].tail # Last(linked)
    BY <1>4, <2>1 DEF ProducerKnows
  <2> QED BY <1>1, <1>2, <1>3, <1>4, <2>1, <2>2 DEF ProducerKnows
<1>6. ASSUME NEW c \in Consumers \ {t} PROVE ConsumerKnows(c)'
  <2>1. /\ ConsumerKnows(c) /\ pc'[c] = pc[c] /\ local'[c] = local[c]
        /\ sawEmpty'[c] = sawEmpty[c]
    BY InvFacts DEF Quiet, Threads
  <2> QED BY <1>1, <1>2, <1>3, <1>4, <2>1 DEF ConsumerKnows
<1> QED BY <1>5, <1>6

(* The tail does not fall behind, unless the producer that is to swing it  *)
(* leaves.                                                                 *)
LEMMA QuietKeepsLagging ==
  ASSUME QueueInv, ~Destroyed, NEW t \in Threads, Quiet(t), pc[t] # "swing" \/ tail' = Last(linked)
  PROVE  Lagging'
<1>1. Lagging /\ Last(linked)' = Last(linked) /\ tail' \in {tail, Last(linked)}
  BY InvFacts DEF Quiet, Last
<1>2. ASSUME tail' # Last(linked), ~Spurious
      PROVE  \E p \in Producers : pc'[p] = "swing" /\ local'[p].node = Last(linked)
  <2>1. PICK p \in Producers : pc[p] = "swing" /\ local[p].node = Last(linked)
    BY <1>1, <1>2 DEF Lagging
  <2> QED BY <1>2, <2>1 DEF Quiet, Threads
<1> QED BY <1>1, <1>2 DEF Lagging

-----------------------------------------------------------------------------
(* Hence of such a step only what it does to its own thread is left.       *)
LEMMA QuietKeeps ==
  ASSUME QueueInv, ~Destroyed, NEW t \in Threads, Quiet(t), pc[t] # "swing" \/ tail' = Last(linked),
         QueueTypeOK', t \in Producers => ProducerKnows(t)', t \in Consumers => ConsumerKnows(t)'
  PROVE  QueueInv'
<1>1. \A p \in Producers : ProducerKnows(p)'
  BY QuietKeepsOthers
<1>2. \A c \in Consumers : ConsumerKnows(c)'
  BY QuietKeepsOthers
<1> QED BY <1>1, <1>2, QuietKeepsShared, QuietKeepsLagging DEF QueueInv

(* A thread that stands somewhere stands in a queue that exists. *)
LEMMA AtWork ==
  ASSUME NEW t \in Threads, pc[t] # "gone"
  PROVE  ~Destroyed
BY DEF Destroyed

LEMMA LoadTailKeeps ==
  ASSUME QueueInv, NEW t \in Threads, LoadTail(t)
  PROVE  QueueInv' /\ Quiet(t)
<1>1. /\ UNCHANGED <<head, tail, next, value, live, deleted, sent, linked, received, sawEmpty>>
      /\ pc[t] = "tail" /\ ~Destroyed
  BY AtWork DEF LoadTail, Goto, heap, history
<1> USE <1>1, InvFacts
<1>2. pc'[t] = "next" /\ pc' \in [Threads -> Places] /\ \A u \in Threads \ {t} : pc'[u] = pc[u]
  BY GotoFacts DEF LoadTail, QueueTypeOK, Places
<1>3. /\ OnlyAt(t) /\ local'[t].tail = tail
      /\ local'[t].node = local[t].node /\ local'[t].head = local[t].head
  BY SetLocal DEF LoadTail, QueueTypeOK
<1>4. Quiet(t)
  BY <1>2, <1>3 DEF Quiet, OnlyAt, Unlinked
<1>5. QueueTypeOK'
  BY <1>2, <1>3 DEF QueueTypeOK, OnlyAt, Threads
<1>6. Known' = Known /\ tail \in Known /\ Last(linked)' = Last(linked)
  BY <1>4, QuietKeepsShared, ChainFacts DEF Last
<1>7. ASSUME t \in Producers PROVE ProducerKnows(t)'
  <2>1. OneToOne => tail = Last(linked)
    BY <1>7 DEF OneToOne, Lagging
  <2> QED BY <1>2, <1>3, <1>6, <1>7, <2>1 DEF ProducerKnows
<1>8. ASSUME t \in Consumers PROVE ConsumerKnows(t)'
  BY <1>2, <1>3, <1>6, <1>8 DEF ConsumerKnows
<1> QED BY <1>4, <1>5, <1>7, <1>8, QuietKeeps

LEMMA HelpKeeps ==
  ASSUME QueueInv, NEW t \in Threads, Help(t)
  PROVE  QueueInv' /\ Quiet(t)
<1>1. /\ UNCHANGED <<head, next, value, live, deleted, sent, linked, received, sawEmpty>>
      /\ pc[t] = "help" /\ ~Destroyed /\ Retry(t)
  BY AtWork DEF Help, Goto, heap, history
<1> USE <1>1, InvFacts
<1>2. /\ pc'[t] = FirstAccess(t) /\ pc' \in [Threads -> Places]
      /\ \A u \in Threads \ {t} : pc'[u] = pc[u]
  BY GotoFacts DEF Help, QueueTypeOK, Places, FirstAccess
<1>3. OnlyAt(t) /\ local'[t].node = local[t].node
  BY ResetLocal DEF QueueTypeOK
<1>4. tail' \in {tail, Last(linked)}
  <2>1. t \in Producers \/ t \in Consumers
    BY DEF Threads
  <2>2. local[t].next = next[local[t].tail] /\ local[t].next # null
    BY <2>1 DEF ProducerKnows, ConsumerKnows
  <2> QED BY <2>2, ChainFacts DEF Help, SwingTail
<1>5. Quiet(t)
  BY <1>2, <1>3, <1>4 DEF Quiet, OnlyAt, Unlinked, FirstAccess
<1>6. QueueTypeOK'
  <2>1. tail' \in Nodes
    BY <1>4, ChainFacts
  <2> QED BY <1>2, <1>3, <2>1 DEF QueueTypeOK, OnlyAt, Threads, FirstAccess
<1>7. t \in Producers => ProducerKnows(t)'
  BY <1>2 DEF ProducerKnows, FirstAccess
<1>8. t \in Consumers => ConsumerKnows(t)'
  BY <1>2 DEF ConsumerKnows, FirstAccess
<1> QED BY <1>5, <1>6, <1>7, <1>8, QuietKeeps

-----------------------------------------------------------------------------
(* enqueue() *)

LEMMA LoadNextOfTailKeeps ==
  ASSUME QueueInv, NEW p \in Producers, LoadNextOfTail(p)
  PROVE  QueueInv' /\ Quiet(p)
<1>1. /\ UNCHANGED <<head, tail, next, value, live, deleted, sent, linked, received, sawEmpty>>
      /\ pc[p] = "next" /\ ~Destroyed /\ p \in Threads
  BY AtWork DEF LoadNextOfTail, Goto, heap, history, Threads
<1> USE <1>1, InvFacts
<1>2. /\ pc'[p] = "recheck" /\ pc' \in [Threads -> Places]
      /\ \A u \in Threads \ {p} : pc'[u] = pc[u]
  BY GotoFacts DEF LoadNextOfTail, QueueTypeOK, Places
<1>3. local[p].tail \in Known /\ next[local[p].tail] \in Nodes \cup {null}
  BY DEF ProducerKnows, QueueTypeOK
<1>4. /\ OnlyAt(p) /\ local'[p].next = next[local[p].tail]
      /\ local'[p].node = local[p].node /\ local'[p].tail = local[p].tail
  BY <1>3, SetLocal DEF LoadNextOfTail, QueueTypeOK
<1>5. Quiet(p)
  BY <1>2, <1>4 DEF Quiet, OnlyAt, Unlinked
<1>6. QueueTypeOK'
  BY <1>2, <1>4 DEF QueueTypeOK, OnlyAt, Threads
<1>7. Known' = Known /\ Last(linked)' = Last(linked)
  BY <1>5, QuietKeepsShared DEF Last
<1>8. ProducerKnows(p)'
  BY <1>2, <1>4, <1>7 DEF ProducerKnows
<1> QED BY <1>5, <1>6, <1>8, QuietKeeps

LEMMA RecheckTailKeeps ==
  ASSUME QueueInv, NEW p \in Producers, RecheckTail(p)
  PROVE  QueueInv' /\ Quiet(p)
<1>1. /\ UNCHANGED <<head, tail, next, value, live, deleted, sent, linked, received, sawEmpty>>
      /\ pc[p] = "recheck" /\ ~Destroyed /\ p \in Threads
  BY AtWork DEF RecheckTail, Goto, heap, history, Threads
<1> USE <1>1, InvFacts
<1>2. /\ pc' \in [Threads -> Places] /\ \A u \in Threads \ {p} : pc'[u] = pc[u]
      /\ OnlyAt(p) /\ local'[p].node = local[p].node
      /\ \/ pc'[p] = "tail"
         \/ /\ pc'[p] = IF local[p].next = null THEN "link" ELSE "help"
            /\ local' = local
  <2>1. CASE Goto(p, "recheck", "tail") /\ Retry(p)
    BY <2>1, GotoFacts, ResetLocal DEF QueueTypeOK, Places
  <2>2. CASE Goto(p, "recheck", IF local[p].next = null THEN "link" ELSE "help") /\ local' = local
    BY <2>2, GotoFacts DEF QueueTypeOK, Places, OnlyAt
  <2> QED BY <2>1, <2>2 DEF RecheckTail
<1>3. Quiet(p)
  BY <1>2 DEF Quiet, OnlyAt, Unlinked
<1>4. QueueTypeOK'
  BY <1>2 DEF QueueTypeOK, OnlyAt, Threads
<1>5. Known' = Known /\ Last(linked)' = Last(linked) /\ next[Last(linked)] = null
  BY <1>3, QuietKeepsShared, ChainFacts DEF Last
<1>6. ProducerKnows(p)'
  BY <1>2, <1>5 DEF ProducerKnows
<1> QED BY <1>3, <1>4, <1>6, QuietKeeps

LEMMA SwingToNodeKeeps ==
  ASSUME QueueInv, NEW p \in Producers, SwingToNode(p)
  PROVE  QueueInv' /\ Quiet(p)
<1>1. /\ UNCHANGED <<head, next, value, live, deleted, sent, linked, received, sawEmpty>>
      /\ pc[p] = "swing" /\ ~Destroyed /\ p \in Threads /\ Leave(p)
  BY AtWork DEF SwingToNode, Goto, heap, history, Threads
<1> USE <1>1, InvFacts
<1>2. /\ pc'[p] = "out" /\ pc' \in [Threads -> Places]
      /\ \A u \in Threads \ {p} : pc'[u] = pc[u]
  BY GotoFacts DEF SwingToNode, QueueTypeOK, Places
<1>3. OnlyAt(p)
  BY ResetLocal DEF QueueTypeOK
<1>4. /\ tail' \in {tail, Last(linked)}
      /\ tail' = tail => tail # local[p].tail \/ Spurious
  <2>1. tail = local[p].tail => local[p].node = next[tail] /\ local[p].node \in Nodes
    BY DEF ProducerKnows
  <2> QED BY <2>1, ChainFacts DEF SwingToNode, SwingTail
<1>5. Quiet(p)
  BY <1>2, <1>3, <1>4 DEF Quiet, OnlyAt, Unlinked
<1>6. QueueTypeOK'
  <2>1. tail' \in Nodes
    BY <1>4, ChainFacts
  <2> QED BY <1>2, <1>3, <2>1 DEF QueueTypeOK, OnlyAt, Threads
<1>7. ProducerKnows(p)'
  BY <1>2 DEF ProducerKnows
<1>8. Lagging'
  <2>1. CASE tail' = Last(linked)
    BY <1>5, <2>1, QuietKeepsLagging
  <2>2. CASE tail' # Last(linked) /\ ~Spurious
    <3>1. PICK q \in Producers : pc[q] = "swing" /\ local[q].node = Last(linked)
      BY <1>4, <2>2 DEF Lagging
    <3>2. q # p
      BY <1>4, <2>2, <3>1 DEF ProducerKnows
    <3>3. pc'[q] = "swing" /\ local'[q].node = Last(linked)'
      BY <1>5, <3>1, <3>2 DEF Quiet, Threads, Last
    <3> QED BY <3>3 DEF Lagging
  <2> QED BY <2>1, <2>2 DEF Lagging
<1> QED BY <1>5, <1>6, <1>7, <1>8, QuietKeepsShared, QuietKeepsOthers DEF QueueInv

-----------------------------------------------------------------------------
(* dequeue() *)

LEMMA LoadHeadKeeps ==
  ASSUME QueueInv, NEW c \in Consumers, LoadHead(c)
  PROVE  QueueInv' /\ Quiet(c)
<1>1. /\ UNCHANGED <<head, tail, next, value, live, deleted, sent, linked, received, sawEmpty>>
      /\ pc[c] = "head" /\ ~Destroyed /\ c \in Threads /\ c \notin Producers
  BY AtWork, ThreadsAssumption DEF LoadHead, Goto, heap, history, Threads
<1> USE <1>1, InvFacts
<1>2. /\ pc'[c] = "tail" /\ pc' \in [Threads -> Places]
      /\ \A u \in Threads \ {c} : pc'[u] = pc[u]
  BY GotoFacts DEF LoadHead, QueueTypeOK, Places
<1>3. OnlyAt(c) /\ local'[c].head = head
  BY SetLocal DEF LoadHead, QueueTypeOK
<1>4. Quiet(c)
  BY <1>2, <1>3 DEF Quiet, OnlyAt
<1>5. QueueTypeOK'
  BY <1>2, <1>3 DEF QueueTypeOK, OnlyAt, Threads
<1>6. Known' = Known /\ head \in Known \ ToSet(Tail(linked))
  BY <1>4, QuietKeepsShared, ChainFacts
<1>7. ConsumerKnows(c)'
  BY <1>2, <1>3, <1>6 DEF ConsumerKnows
<1> QED BY <1>4, <1>5, <1>7, QuietKeeps

LEMMA LoadNextOfHeadKeeps ==
  ASSUME QueueInv, NEW c \in Consumers, LoadNextOfHead(c)
  PROVE  QueueInv' /\ Quiet(c)
<1>1. /\ UNCHANGED <<head, tail, next, value, live, deleted, sent, linked, received>>
      /\ pc[c] = "next" /\ ~Destroyed /\ c \in Threads /\ c \notin Producers
      /\ sawEmpty' = [sawEmpty EXCEPT ![c] = Len(linked) = 1]
  BY AtWork, ThreadsAssumption DEF LoadNextOfHead, Goto, heap, Threads
<1> USE <1>1, InvFacts
<1>2. /\ pc'[c] = "recheck" /\ pc' \in [Threads -> Places]
      /\ \A u \in Threads \ {c} : pc'[u] = pc[u]
  BY GotoFacts DEF LoadNextOfHead, QueueTypeOK, Places
<1>3. /\ local[c].head \in Known \ ToSet(Tail(linked))
      /\ local[c].head = head /\ tail = head => local[c].tail = head
      /\ next[local[c].head] \in Nodes \cup {null}
  BY DEF ConsumerKnows, QueueTypeOK
<1>4. /\ OnlyAt(c) /\ local'[c].next = next[local[c].head]
      /\ local'[c].head = local[c].head /\ local'[c].tail = local[c].tail
  BY <1>3, SetLocal DEF LoadNextOfHead, QueueTypeOK
<1>5. Quiet(c)
  BY <1>2, <1>4 DEF Quiet, OnlyAt, QueueTypeOK
<1>6. QueueTypeOK'
  BY <1>2, <1>4 DEF QueueTypeOK, OnlyAt, Threads
<1>7. Known' = Known
  BY <1>5, QuietKeepsShared
<1>8. next[local[c].head] = null =>
        local[c].head = head /\ local[c].tail = head /\ sawEmpty'[c]
  <2> SUFFICES ASSUME next[local[c].head] = null
               PROVE  local[c].head = head /\ local[c].tail = head /\ sawEmpty'[c]
    OBVIOUS
  <2>1. local[c].head = Last(linked)
    BY <1>3 DEF KnownChain
  <2>2. local[c].head = head
    BY <1>3, <2>1, ChainFacts
  <2>3. Len(linked) = 1 /\ tail = head
    BY <2>1, <2>2, ChainFacts DEF Chained
  <2>4. sawEmpty'[c] = (Len(linked) = 1)
    BY DEF QueueTypeOK
  <2> QED BY <1>3, <2>2, <2>3, <2>4
<1>9. ConsumerKnows(c)'
  BY <1>2, <1>3, <1>4, <1>7, <1>8 DEF ConsumerKnows
<1> QED BY <1>5, <1>6, <1>9, QuietKeeps

LEMMA RecheckHeadKeeps ==
  ASSUME QueueInv, NEW c \in Consumers, RecheckHead(c)
  PROVE  QueueInv' /\ Quiet(c)
<1>1. /\ UNCHANGED <<head, tail, next, value, live, deleted, sent, linked, received, sawEmpty>>
      /\ pc[c] = "recheck" /\ ~Destroyed /\ c \in Threads /\ c \notin Producers
  BY AtWork, ThreadsAssumption DEF RecheckHead, Goto, heap, history, Threads
<1> USE <1>1, InvFacts
<1>2. /\ pc' \in [Threads -> Places] /\ \A u \in Threads \ {c} : pc'[u] = pc[u]
      /\ OnlyAt(c)
      /\ \/ pc'[c] = "head"
         \/ pc'[c] = Branch(local[c]) /\ local' = local
  <2>1. CASE Goto(c, "recheck", "head") /\ Retry(c)
    BY <2>1, GotoFacts, ResetLocal DEF QueueTypeOK, Places
  <2>2. CASE Goto(c, "recheck", Branch(local[c])) /\ local' = local
    BY <2>2, GotoFacts DEF QueueTypeOK, Places, OnlyAt, Branch
  <2> QED BY <2>1, <2>2 DEF RecheckHead
<1>3. Quiet(c)
  BY <1>2 DEF Quiet, OnlyAt, Branch
<1>4. QueueTypeOK'
  BY <1>2 DEF QueueTypeOK, OnlyAt, Threads, Branch
<1>5. Known' = Known
  BY <1>3, QuietKeepsShared
<1>6. ConsumerKnows(c)'
  BY <1>2, <1>5 DEF ConsumerKnows, Branch
<1> QED BY <1>3, <1>4, <1>6, QuietKeeps

LEMMA ReturnEmptyKeeps ==
  ASSUME QueueInv, NEW c \in Consumers, ReturnEmpty(c)
  PROVE  QueueInv' /\ Quiet(c)
<1>1. /\ UNCHANGED <<head, tail, next, value, live, deleted, sent, linked, received, sawEmpty>>
      /\ pc[c] = "empty" /\ ~Destroyed /\ c \in Threads /\ c \notin Producers /\ Leave(c)
  BY AtWork, ThreadsAssumption DEF ReturnEmpty, Goto, heap, history, Threads
<1> USE <1>1, InvFacts
<1>2. /\ pc'[c] = "head" /\ pc' \in [Threads -> Places]
      /\ \A u \in Threads \ {c} : pc'[u] = pc[u]
  BY GotoFacts DEF ReturnEmpty, QueueTypeOK, Places
<1>3. OnlyAt(c)
  BY ResetLocal DEF QueueTypeOK
<1>4. Quiet(c)
  BY <1>2, <1>3 DEF Quiet, OnlyAt
<1>5. QueueTypeOK'
  BY <1>2, <1>3 DEF QueueTypeOK, OnlyAt, Threads
<1>6. ConsumerKnows(c)'
  BY <1>2 DEF ConsumerKnows
<1> QED BY <1>4, <1>5, <1>6, QuietKeeps

LEMMA ReadValueKeeps ==
  ASSUME QueueInv, NEW c \in Consumers, ReadValue(c)
  PROVE  QueueInv' /\ Quiet(c)
<1>1. /\ UNCHANGED <<head, tail, next, value, live, deleted, sent, linked, received, sawEmpty>>
      /\ pc[c] = "value" /\ ~Destroyed /\ c \in Threads /\ c \notin Producers
  BY AtWork, ThreadsAssumption DEF ReadValue, Goto, heap, history, Threads
<1> USE <1>1, InvFacts
<1>2. /\ pc'[c] = "take" /\ pc' \in [Threads -> Places]
      /\ \A u \in Threads \ {c} : pc'[u] = pc[u]
  BY GotoFacts DEF ReadValue, QueueTypeOK, Places
<1>3. local[c].next \in Nodes /\ value[local[c].next] \in {null} \cup (Producers \X Nat)
  <2>1. local[c].head \in Nodes /\ local[c].next = next[local[c].head] /\ local[c].next # null
    BY DEF ConsumerKnows
  <2>2. next[local[c].head] \in Nodes \cup {null}
    BY <2>1 DEF QueueTypeOK
  <2> QED BY <2>1, <2>2 DEF QueueTypeOK
<1>4. /\ OnlyAt(c) /\ local'[c].value = value[local[c].next]
      /\ local'[c].node = local[c].node /\ local'[c].head = local[c].head
      /\ local'[c].tail = local[c].tail /\ local'[c].next = local[c].next
  BY <1>3, SetLocalValue DEF ReadValue, QueueTypeOK
<1>5. Quiet(c)
  BY <1>2, <1>4 DEF Quiet, OnlyAt
<1>6. QueueTypeOK'
  BY <1>2, <1>4 DEF QueueTypeOK, OnlyAt, Threads
<1>7. Known' = Known
  BY <1>5, QuietKeepsShared
<1>8. ConsumerKnows(c)'
  BY <1>2, <1>4, <1>7 DEF ConsumerKnows
<1> QED BY <1>5, <1>6, <1>8, QuietKeeps

(* A compare-and-swap that failed sends its thread round the loop again. *)
LEMMA RetryKeeps ==
  ASSUME QueueInv, NEW t \in Threads, NEW from \in {"link", "take"}, Goto(t, from, FirstAccess(t)), Retry(t),
         UNCHANGED <<head, tail, next, value, live, deleted, sent, linked, received, sawEmpty>>
  PROVE  QueueInv' /\ Quiet(t)
<1>1. pc[t] = from /\ ~Destroyed
  BY AtWork DEF Goto
<1> USE <1>1, InvFacts
<1>2. /\ pc'[t] = FirstAccess(t) /\ pc' \in [Threads -> Places]
      /\ \A u \in Threads \ {t} : pc'[u] = pc[u]
  BY GotoFacts DEF QueueTypeOK, Places, FirstAccess
<1>3. OnlyAt(t) /\ local'[t].node = local[t].node
  BY ResetLocal DEF QueueTypeOK
<1>4. t \in Producers => pc[t] = "link"
  BY DEF QueueTypeOK
<1>5. Quiet(t)
  BY <1>2, <1>3, <1>4 DEF Quiet, OnlyAt, Unlinked, FirstAccess
<1>6. QueueTypeOK'
  BY <1>2, <1>3 DEF QueueTypeOK, OnlyAt, Threads, FirstAccess
<1>7. t \in Producers => ProducerKnows(t)'
  BY <1>2 DEF ProducerKnows, FirstAccess
<1>8. t \in Consumers => ConsumerKnows(t)'
  BY <1>2 DEF ConsumerKnows, FirstAccess
<1> QED BY <1>5, <1>6, <1>7, <1>8, QuietKeeps

-----------------------------------------------------------------------------
(* Steps that change the heap or the queue *)

(* A node no thread knows of is put aside for the producer. *)
LEMMA NewNodeKeeps ==
  ASSUME QueueInv, OneToOne \/ ~Reuse, NEW p \in Producers, NEW n \in Nodes, NewNode(p, n)
  PROVE  QueueInv'
<1>1. /\ UNCHANGED <<head, tail, linked, received, sawEmpty>>
      /\ pc[p] = "out" /\ ~Destroyed /\ p \in Threads /\ p \notin Consumers
      /\ n \notin live /\ (n \in deleted => Reuse)
      /\ live' = live \cup {n} /\ deleted' = deleted \ {n}
  BY AtWork, ThreadsAssumption DEF NewNode, Goto, history, Threads
<1> USE <1>1, InvFacts
<1>2. /\ pc'[p] = "tail" /\ pc' \in [Threads -> Places]
      /\ \A u \in Threads \ {p} : pc'[u] = pc[u]
  BY GotoFacts DEF NewNode, QueueTypeOK, Places
<1>3. OnlyAt(p) /\ local'[p].node = n
  BY SetLocal DEF NewNode, QueueTypeOK
<1>4. /\ sent' \in [Producers -> Nat] /\ sent'[p] = sent[p] + 1
      /\ \A q \in Producers \ {p} : sent'[q] = sent[q]
  BY DEF NewNode, QueueTypeOK
<1>5. /\ value' \in [Nodes -> {null} \cup (Producers \X Nat)] /\ value'[n] = <<p, sent'[p]>>
      /\ \A m \in Nodes \ {n} : value'[m] = value[m]
  <2>1. sent'[p] \in Nat
    BY <1>4
  <2>2. value' = [value EXCEPT ![n] = <<p, sent'[p]>>]
    BY <1>4 DEF NewNode
  <2> QED BY <2>1, <2>2 DEF QueueTypeOK
<1>6. /\ next' \in [Nodes -> Nodes \cup {null}] /\ next'[n] = null
      /\ \A m \in Nodes \ {n} : next'[m] = next[m]
  BY DEF NewNode, QueueTypeOK
<1>7. QueueTypeOK'
  BY <1>2, <1>3, <1>4, <1>5, <1>6 DEF QueueTypeOK, OnlyAt, Threads
<1>8. p \notin Unlinked /\ Unlinked' = Unlinked \cup {p} /\ Unlinked \subseteq Producers
  <2>1. \A q \in Producers \ {p} : pc'[q] = pc[q]
    BY <1>2 DEF Threads
  <2> QED BY <1>2, <2>1 DEF Unlinked
<1>9. \A q \in Unlinked : local'[q].node = local[q].node
  BY <1>3, <1>8 DEF OnlyAt, Threads
<1>10. NewNodes' = NewNodes \cup {n}
  BY <1>3, <1>8, <1>9 DEF NewNodes
<1>11. Freeing' = Freeing /\ \A c \in Freeing : local'[c].head = local[c].head
  BY <1>2, <1>3 DEF Freeing, OnlyAt, Threads
<1>12. OldHeads' = OldHeads
  BY <1>11 DEF OldHeads
<1>13. n \notin Known /\ Known' = Known
  <2>1. CASE OneToOne
    BY <2>1 DEF Known, Heap
  <2>2. CASE ~OneToOne
    BY <2>2, <1>10 DEF Known
  <2> QED BY <2>1, <2>2
<1>14. \A m \in Known : next'[m] = next[m] /\ value'[m] = value[m]
  BY <1>5, <1>6, <1>13
<1>15. Last(linked)' = Last(linked)
  BY DEF Last
<1>16. Chained' /\ Lagging'
  <2>1. \A i \in 1 .. Len(linked) : linked[i] \in Known
    BY ChainFacts
  <2>2. Last(linked) \in Known /\ Len(linked) \in Nat \ {0}
    BY ChainFacts
  <2>3. \A i \in 1 .. Len(linked) - 1 : next'[linked[i]] = linked[i + 1]
    BY <1>14, <2>1, <2>2 DEF Chained
  <2>4. Chained'
    BY <1>14, <1>15, <2>2, <2>3 DEF Chained
  <2>5. Lagging'
    BY <1>2, <1>3, <1>15 DEF Lagging, OnlyAt, Threads
  <2> QED BY <2>4, <2>5
<1>17. Heap'
  <2>1. n \notin ToSet(linked) /\ n \notin NewNodes /\ n \notin OldHeads
    BY DEF Heap
  <2>2. \A q \in Unlinked : local[q].node \in NewNodes
    BY DEF NewNodes
  <2>3. \A q, r \in Unlinked' : local'[q].node = local'[r].node => q = r
    BY <1>3, <1>8, <1>9, <2>1, <2>2 DEF Heap
  <2>4. \A c, d \in Freeing' : local'[c].head = local'[d].head => c = d
    BY <1>11 DEF Heap
  <2> QED BY <1>10, <1>12, <2>1, <2>3, <2>4 DEF Heap
<1>18. Prepared'
  <2>1. \A q \in Unlinked : local[q].node \in Nodes \ {n}
    BY DEF Heap, NewNodes
  <2>2. \A q \in Unlinked : sent'[q] = sent[q]
    BY <1>4, <1>8
  <2>3. \A q \in Unlinked : next'[local[q].node] = null /\ value'[local[q].node] = <<q, sent[q]>>
    BY <1>5, <1>6, <2>1 DEF Prepared
  <2>4. Prepared' = \A q \in Unlinked' :
                      next'[local'[q].node] = null /\ value'[local'[q].node] = <<q, sent'[q]>>
    BY DEF Prepared
  <2>5. ASSUME NEW q \in Unlinked'
        PROVE  next'[local'[q].node] = null /\ value'[local'[q].node] = <<q, sent'[q]>>
    <3>1. CASE q = p
      BY <1>3, <1>5, <1>6, <3>1
    <3>2. CASE q # p
      BY <1>8, <1>9, <2>2, <2>3, <3>2
    <3> QED BY <3>1, <3>2
  <2> QED BY <2>4, <2>5
<1>19. KnownChain'
  BY <1>13, <1>14, <1>15 DEF KnownChain
<1>20. ASSUME NEW q \in Producers PROVE ProducerKnows(q)'
  <2>1. CASE q = p
    BY <1>2, <2>1 DEF ProducerKnows
  <2>2. CASE q # p
    <3>1. ProducerKnows(q) /\ pc'[q] = pc[q] /\ local'[q] = local[q] /\ tail \in Known
      BY <1>2, <1>3, <2>2, ChainFacts DEF OnlyAt, Threads
    <3> QED BY <1>13, <1>14, <1>15, <3>1 DEF ProducerKnows
  <2> QED BY <2>1, <2>2
<1>21. ASSUME NEW c \in Consumers PROVE ConsumerKnows(c)'
  <2>1. ConsumerKnows(c) /\ pc'[c] = pc[c] /\ local'[c] = local[c]
    BY <1>2, <1>3 DEF OnlyAt, Threads
  <2>2. \A m \in Known : next[m] # null => next[m] \in Known
    BY DEF KnownChain
  <2> QED BY <1>13, <1>14, <2>1, <2>2 DEF ConsumerKnows
<1> QED BY <1>7, <1>16, <1>17, <1>18, <1>19, <1>20, <1>21 DEF QueueInv

(* The new node of a producer is linked behind the last one. *)
LinkSucceeds(p) ==
  /\ Goto(p, "link", "swing")
  /\ next[local[p].tail] = null
  /\ next'   = [next EXCEPT ![local[p].tail] = local[p].node]
  /\ linked' = Append(linked, local[p].node)
  /\ UNCHANGED <<local, head, tail, value, live, deleted, sent, received, sawEmpty>>

LEMMA LinkFacts ==
  ASSUME QueueInv, NEW p \in Producers, LinkSucceeds(p)
  PROVE  /\ local[p].tail = Last(linked) /\ tail = Last(linked)
         /\ p \in Unlinked /\ Unlinked' = Unlinked \ {p}
         /\ local[p].node \in NewNodes \ Known
         /\ value[local[p].node] = <<p, sent[p]>> /\ next[local[p].node] = null
         /\ linked' \in Seq(Nodes) /\ Len(linked') = Len(linked) + 1
         /\ \A i \in 1 .. Len(linked) : linked'[i] = linked[i]
         /\ linked'[Len(linked) + 1] = local[p].node /\ Last(linked') = local[p].node
         /\ IsInjective(linked') /\ ToSet(linked') = ToSet(linked) \cup {local[p].node}
<1>1. /\ pc[p] = "link" /\ ~Destroyed /\ p \in Threads
      /\ linked' = Append(linked, local[p].node)
  BY AtWork DEF LinkSucceeds, Goto, Threads
<1> USE <1>1, InvFacts
<1>2. local[p].tail = Last(linked) /\ tail = Last(linked)
  <2>1. local[p].tail \in Known /\ next[local[p].tail] = null
    BY DEF ProducerKnows, LinkSucceeds
  <2>2. local[p].tail = Last(linked)
    BY <2>1 DEF KnownChain
  <2> QED BY <2>2 DEF ProducerKnows
<1>3. p \in Unlinked /\ local[p].node \in NewNodes
  BY DEF Unlinked, NewNodes
<1>4. Unlinked' = Unlinked \ {p}
  BY GotoFacts DEF LinkSucceeds, Unlinked, QueueTypeOK, Threads, Places
<1>5. value[local[p].node] = <<p, sent[p]>> /\ next[local[p].node] = null
  BY <1>3 DEF Prepared
<1>6. local[p].node \notin Known /\ local[p].node \notin ToSet(linked) /\ local[p].node \in Nodes
  BY <1>3 DEF Known, Heap
<1>7. /\ linked' \in Seq(Nodes) /\ Len(linked') = Len(linked) + 1
      /\ \A i \in 1 .. Len(linked) : linked'[i] = linked[i]
      /\ linked'[Len(linked) + 1] = local[p].node
  BY <1>6, AppendProperties DEF QueueTypeOK
<1>8. IsInjective(linked') /\ ToSet(linked') = ToSet(linked) \cup {local[p].node}
  BY <1>6, PushQueue DEF QueueTypeOK, Chained
<1>9. Last(linked') = local[p].node
  BY <1>7 DEF Last
<1> QED BY <1>2, <1>3, <1>4, <1>5, <1>6, <1>7, <1>8, <1>9

LEMMA LinkKeeps ==
  ASSUME QueueInv, NEW p \in Producers, LinkSucceeds(p)
  PROVE  QueueInv'
<1> DEFINE N == local[p].node
           L == Last(linked)
<1>1. /\ UNCHANGED <<local, head, tail, value, live, deleted, sent, received, sawEmpty>>
      /\ pc[p] = "link" /\ ~Destroyed /\ p \in Threads /\ p \notin Consumers
      /\ linked' = Append(linked, N)
  BY AtWork, ThreadsAssumption DEF LinkSucceeds, Goto, Threads
<1> USE <1>1, InvFacts
<1>2. /\ pc'[p] = "swing" /\ pc' \in [Threads -> Places]
      /\ \A u \in Threads \ {p} : pc'[u] = pc[u]
  BY GotoFacts DEF LinkSucceeds, QueueTypeOK, Places
<1>3. local[p].tail = L /\ tail = L /\ L \in ToSet(linked) /\ next[L] = null
  BY LinkFacts, ChainFacts
<1>4. N \in NewNodes \ Known /\ N \in Nodes /\ next[N] = null /\ N \in live /\ N # L
  BY <1>3, LinkFacts DEF Heap
<1>5. /\ linked' \in Seq(Nodes) /\ Len(linked') = Len(linked) + 1 /\ Last(linked') = N
      /\ \A i \in 1 .. Len(linked) : linked'[i] = linked[i]
      /\ linked'[Len(linked) + 1] = N
      /\ IsInjective(linked') /\ ToSet(linked') = ToSet(linked) \cup {N}
  BY LinkFacts
<1>6. /\ next' \in [Nodes -> Nodes \cup {null}] /\ next'[L] = N /\ next'[N] = null
      /\ \A m \in Nodes \ {L} : next'[m] = next[m]
  BY <1>3, <1>4 DEF LinkSucceeds, QueueTypeOK
<1>7. QueueTypeOK'
  BY <1>2, <1>5, <1>6 DEF QueueTypeOK, Threads
<1>8. Unlinked' = Unlinked \ {p} /\ p \in Unlinked
  BY LinkFacts
<1>9. NewNodes' = NewNodes \ {N}
  <2>1. \A q \in Unlinked : local[q].node = N => q = p
    BY <1>8 DEF Heap
  <2> QED BY <1>8, <2>1 DEF NewNodes
<1>10. Freeing' = Freeing /\ OldHeads' = OldHeads
  <2>1. Freeing' = Freeing
    BY <1>2 DEF Freeing, Threads
  <2> QED BY <2>1 DEF OldHeads
<1>11. Known' = Known \cup {N}
  BY <1>4, <1>5, <1>9 DEF Known
<1>12. Chained'
  <2>1. Len(linked) \in Nat \ {0} /\ L = linked[Len(linked)] /\ DOMAIN linked' = 1 .. Len(linked')
    BY <1>5, ChainFacts
  <2>2. ASSUME NEW i \in 1 .. Len(linked') - 1 PROVE next'[linked'[i]] = linked'[i + 1]
    <3>1. CASE i = Len(linked)
      BY <1>5, <1>6, <2>1, <3>1
    <3>2. CASE i # Len(linked)
      <4>1. i \in 1 .. Len(linked) - 1 /\ i \in 1 .. Len(linked) /\ i + 1 \in 1 .. Len(linked)
        BY <1>5, <2>1, <3>2
      <4>2. linked[i] # L /\ linked[i] \in Nodes
        BY <2>1, <3>2, <4>1, ChainFacts
      <4>3. next[linked[i]] = linked[i + 1]
        BY <4>1 DEF Chained
      <4>4. linked'[i] = linked[i] /\ linked'[i + 1] = linked[i + 1]
        BY <1>5, <4>1
      <4> QED BY <1>6, <4>2, <4>3, <4>4
    <3> QED BY <3>1, <3>2
  <2>3. tail' = linked'[Len(linked') - 1] /\ Len(linked') > 1
    <3>1. Len(linked) \in 1 .. Len(linked) /\ Len(linked') - 1 = Len(linked) /\ Len(linked') > 1
      BY <1>5, <2>1
    <3>2. linked'[Len(linked)] = linked[Len(linked)]
      BY <1>5, <3>1
    <3> QED BY <1>1, <1>3, <2>1, <3>1, <3>2
  <2>4. linked' # <<>> /\ head' = linked'[1]
    BY <1>5, <2>1 DEF Chained
  <2> QED BY <1>5, <1>6, <2>2, <2>3, <2>4 DEF Chained
<1>13. Lagging'
  BY <1>2, <1>5 DEF Lagging
<1>14. Heap'
  <2>1. N \notin OldHeads
    BY <1>4 DEF Heap
  <2> QED BY <1>4, <1>5, <1>8, <1>9, <1>10, <2>1 DEF Heap
<1>15. Prepared'
  <2>1. ASSUME NEW q \in Unlinked PROVE next'[local[q].node] = null
    <3>1. local[q].node \in Nodes /\ local[q].node \notin ToSet(linked)
      BY DEF Heap, NewNodes
    <3>2. local[q].node # L /\ next[local[q].node] = null
      BY <1>3, <3>1 DEF Prepared
    <3> QED BY <1>6, <3>1, <3>2
  <2>2. \A q \in Unlinked : value[local[q].node] = <<q, sent[q]>>
    BY DEF Prepared
  <2>3. Prepared' = \A q \in Unlinked' :
                      next'[local'[q].node] = null /\ value'[local'[q].node] = <<q, sent'[q]>>
    BY DEF Prepared
  <2> QED BY <1>8, <2>1, <2>2, <2>3
<1>16. KnownChain'
  BY <1>3, <1>4, <1>5, <1>6, <1>11 DEF KnownChain
<1>17. \A m \in Known : next[m] # null => next'[m] = next[m]
  BY <1>3, <1>6
<1>18. ASSUME NEW q \in Producers PROVE ProducerKnows(q)'
  <2>1. CASE q = p
    BY <1>2, <1>3, <1>4, <1>5, <1>6, <1>11, <2>1 DEF ProducerKnows
  <2>2. CASE q # p
    <3>1. ProducerKnows(q) /\ pc'[q] = pc[q] /\ ~OneToOne
      BY <1>2, <2>2 DEF OneToOne, Threads
    <3>2. pc[q] = "swing" => local[q].node \in Known
      BY <3>1 DEF ProducerKnows, KnownChain
    <3>3. pc[q] = "swing" => tail # local[q].tail
      BY <1>3, <3>1 DEF ProducerKnows
    <3>4. pc[q] = "recheck" => local[q].next \in {null, next'[local[q].tail]}
      BY <1>17, <3>1 DEF ProducerKnows
    <3>5. pc[q] = "help" => local[q].next = next'[local[q].tail]
      BY <1>17, <3>1 DEF ProducerKnows
    <3>6. pc[q] = "swing" => next'[local[q].tail] = local[q].node
      BY <1>17, <3>1, NodesAssumption DEF ProducerKnows
    <3> QED BY <1>4, <1>5, <1>11, <3>1, <3>2, <3>3, <3>4, <3>5, <3>6 DEF ProducerKnows
  <2> QED BY <2>1, <2>2
<1>19. ASSUME NEW c \in Consumers PROVE ConsumerKnows(c)'
  <2>1. ConsumerKnows(c) /\ pc'[c] = pc[c]
    BY <1>2 DEF Threads
  <2>2. ToSet(Tail(linked')) = (ToSet(linked) \cup {N}) \ {head}
    <3>1. linked' # <<>> /\ Head(linked') = head
      BY <1>12 DEF Chained
    <3> QED BY <1>5, <3>1, PopQueue
  <2>3. ToSet(Tail(linked)) = ToSet(linked) \ {head}
    BY ChainFacts
  <2>4. \A m \in Known \ ToSet(Tail(linked)) : m \in Known' \ ToSet(Tail(linked'))
    BY <1>4, <1>11, <2>2, <2>3
  <2>5. \A m \in Known : m \in Known'
    BY <1>11
  <2>6. pc[c] \in {"recheck", "help", "value", "take"} /\ local[c].next # null =>
          (local[c].next = next[local[c].head] => local[c].next = next'[local[c].head])
    BY <1>17, <2>1 DEF ConsumerKnows
  <2> QED BY <2>1, <2>4, <2>5, <2>6 DEF ConsumerKnows
<1> QED BY <1>7, <1>12, <1>13, <1>14, <1>15, <1>16, <1>18, <1>19 DEF QueueInv

(* The front node becomes the sentinel, and its value is out. *)
TakeSucceeds(c) ==
  /\ Goto(c, "take", "free")
  /\ head = local[c].head
  /\ head'     = local[c].next
  /\ linked'   = Tail(linked)
  /\ received' = [received EXCEPT ![c] = Append(@, local[c].value)]
  /\ UNCHANGED <<local, tail, next, value, live, deleted, sent, sawEmpty>>

LEMMA TakeFacts ==
  ASSUME QueueInv, NEW c \in Consumers, TakeSucceeds(c)
  PROVE  /\ Len(linked) > 1 /\ head' = linked[2] /\ tail # head
         /\ head' \in ToSet(linked) \ {head}
         /\ local[c].value = value[linked[2]] /\ value[linked[2]] \in {null} \cup (Producers \X Nat)
         /\ linked' \in Seq(Nodes) /\ Len(linked') = Len(linked) - 1
         /\ \A i \in 1 .. Len(linked) - 1 : linked'[i] = linked[i + 1]
         /\ Last(linked') = Last(linked) /\ IsInjective(linked')
         /\ ToSet(linked') = ToSet(linked) \ {head}
<1>1. /\ pc[c] = "take" /\ ~Destroyed /\ c \in Threads
      /\ linked' = Tail(linked) /\ head = local[c].head /\ head' = local[c].next
  BY AtWork DEF TakeSucceeds, Goto, Threads
<1> USE <1>1, InvFacts
<1>2. /\ local[c].next = next[head] /\ next[head] # null
      /\ tail # head /\ local[c].value = value[local[c].next]
  BY DEF ConsumerKnows
<1>3. head # Last(linked) /\ Len(linked) \in Nat \ {0} /\ Len(linked) > 1
  BY <1>2, ChainFacts
<1>4. head' = linked[2] /\ head' \in ToSet(linked) \ {head} /\ head' \in Nodes
  BY <1>2, <1>3, ChainFacts
<1>5. /\ linked' \in Seq(Nodes) /\ Len(linked') = Len(linked) - 1
      /\ \A i \in 1 .. Len(linked) - 1 : linked'[i] = linked[i + 1]
  BY <1>3, HeadTailProperties DEF QueueTypeOK, Chained
<1>6. IsInjective(linked')
  BY PopQueue DEF QueueTypeOK, Chained
<1>7. ToSet(linked') = ToSet(linked) \ {head}
  BY ChainFacts
<1>8. Last(linked') = Last(linked)
  <2>1. Len(linked) - 1 \in 1 .. Len(linked) - 1
    BY <1>3
  <2>2. linked'[Len(linked) - 1] = linked[(Len(linked) - 1) + 1]
    BY <1>5, <2>1
  <2> QED BY <1>3, <1>5, <2>2 DEF Last
<1>9. value[linked[2]] \in {null} \cup (Producers \X Nat)
  BY <1>4 DEF QueueTypeOK
<1> QED BY <1>1, <1>2, <1>3, <1>4, <1>5, <1>6, <1>7, <1>8, <1>9

LEMMA TakeKeeps ==
  ASSUME QueueInv, NEW c \in Consumers, TakeSucceeds(c)
  PROVE  QueueInv'
<1>1. /\ UNCHANGED <<local, tail, next, value, live, deleted, sent, sawEmpty>>
      /\ pc[c] = "take" /\ ~Destroyed /\ c \in Threads /\ c \notin Producers
      /\ head = local[c].head
  BY AtWork, ThreadsAssumption DEF TakeSucceeds, Goto, Threads
<1> USE <1>1, InvFacts
<1>2. /\ pc'[c] = "free" /\ pc' \in [Threads -> Places]
      /\ \A u \in Threads \ {c} : pc'[u] = pc[u]
  BY GotoFacts DEF TakeSucceeds, QueueTypeOK, Places
<1>3. /\ Len(linked) > 1 /\ head' = linked[2] /\ tail # head
      /\ head' \in ToSet(linked) \ {head} /\ head' \in Nodes
      /\ linked' \in Seq(Nodes) /\ Len(linked') = Len(linked) - 1
      /\ \A i \in 1 .. Len(linked) - 1 : linked'[i] = linked[i + 1]
      /\ Last(linked') = Last(linked) /\ IsInjective(linked')
      /\ ToSet(linked') = ToSet(linked) \ {head}
  BY TakeFacts, ChainFacts
<1>4. received' \in [Consumers -> Seq({null} \cup (Producers \X Nat))]
  <2>1. local[c].value \in {null} \cup (Producers \X Nat)
    BY TakeFacts
  <2>2. Append(received[c], local[c].value) \in Seq({null} \cup (Producers \X Nat))
    BY <2>1, AppendProperties DEF QueueTypeOK
  <2> QED BY <2>2 DEF TakeSucceeds, QueueTypeOK
<1>5. QueueTypeOK'
  BY <1>2, <1>3, <1>4 DEF QueueTypeOK, Threads
<1>6. Freeing' = Freeing \cup {c} /\ c \notin Freeing
  <2>1. \A d \in Consumers \ {c} : pc'[d] = pc[d]
    BY <1>2 DEF Threads
  <2> QED BY <1>2, <2>1 DEF Freeing
<1>7. OldHeads' = OldHeads \cup {head}
  BY <1>6 DEF OldHeads
<1>8. Unlinked' = Unlinked /\ NewNodes' = NewNodes
  <2>1. Unlinked' = Unlinked
    BY <1>2 DEF Unlinked, Threads
  <2> QED BY <2>1 DEF NewNodes
<1>9. Known' = (IF OneToOne THEN Known \ {head} ELSE Known)
  BY <1>3, <1>8 DEF Known
<1>10. head \in ToSet(linked) /\ head # Last(linked)
  BY <1>3, ChainFacts
<1>11. Chained'
  <2>1. Len(linked) \in Nat \ {0} /\ linked' # <<>>
    BY <1>3, ChainFacts
  <2>2. head' = linked'[1]
    BY <1>3, <2>1
  <2>3. ASSUME NEW i \in 1 .. Len(linked') - 1 PROVE next'[linked'[i]] = linked'[i + 1]
    <3>1. i \in 1 .. Len(linked) - 1 /\ i + 1 \in 1 .. Len(linked) - 1 /\ (i + 1) + 1 \in 1 .. Len(linked)
      BY <1>3, <2>1
    <3>2. next[linked[i + 1]] = linked[(i + 1) + 1]
      BY <3>1 DEF Chained
    <3> QED BY <1>3, <3>1, <3>2
  <2>4. ASSUME tail # Last(linked) PROVE Len(linked') > 1 /\ tail = linked'[Len(linked') - 1]
    <3>1. tail = linked[Len(linked) - 1] /\ linked[1] = head
      BY <2>4 DEF Chained
    <3>2. Len(linked) - 1 # 1
      BY <1>3, <3>1
    <3>3. Len(linked') > 1 /\ Len(linked') - 1 \in 1 .. Len(linked) - 1 /\ (Len(linked') - 1) + 1 = Len(linked) - 1
      BY <1>3, <2>1, <3>2
    <3> QED BY <1>3, <3>1, <3>3
  <2>5. next'[Last(linked')] = null
    BY <1>3, ChainFacts
  <2> QED BY <1>3, <2>1, <2>2, <2>3, <2>4, <2>5 DEF Chained
<1>12. Lagging'
  BY <1>2, <1>3 DEF Lagging, Threads
<1>13. Heap'
  <2>1. ToSet(linked') \cup OldHeads' = ToSet(linked) \cup OldHeads
    BY <1>3, <1>7, <1>10
  <2>2. head \notin OldHeads /\ head \notin NewNodes /\ head \in Nodes
    BY <1>10, ChainFacts DEF Heap
  <2>3. \A d \in Freeing : local[d].head \in OldHeads
    BY DEF OldHeads
  <2>4. \A d, e \in Freeing' : local'[d].head = local'[e].head => d = e
    BY <1>6, <2>2, <2>3 DEF Heap
  <2>5. live' = ToSet(linked') \cup NewNodes' \cup OldHeads'
    BY <1>8, <2>1 DEF Heap
  <2> QED BY <1>3, <1>7, <1>8, <2>2, <2>4, <2>5 DEF Heap
<1>14. Prepared'
  <2>1. Prepared' = \A q \in Unlinked' :
                      next'[local'[q].node] = null /\ value'[local'[q].node] = <<q, sent'[q]>>
    BY DEF Prepared
  <2> QED BY <1>8, <2>1 DEF Prepared
<1>15. KnownChain'
  <2>1. OneToOne => \A n \in Known : next[n] # null => next[n] # head
    BY ChainFacts DEF Known
  <2> QED BY <1>3, <1>9, <2>1 DEF KnownChain
<1>16. ASSUME NEW q \in Producers PROVE ProducerKnows(q)'
  <2>1. ProducerKnows(q) /\ pc'[q] = pc[q]
    BY <1>2 DEF Threads
  <2> QED BY <1>3, <1>9, <1>10, <2>1 DEF ProducerKnows
<1>17. ASSUME NEW d \in Consumers PROVE ConsumerKnows(d)'
  <2>1. CASE d = c
    <3>1. local[c].head \in Known
      BY <1>10
    <3> QED BY <1>2, <1>9, <2>1, <3>1 DEF ConsumerKnows
  <2>2. CASE d # c
    <3>1. ConsumerKnows(d) /\ pc'[d] = pc[d] /\ ~OneToOne /\ Known' = Known
      BY <1>2, <1>9, <2>2 DEF OneToOne, Threads
    <3>2. ToSet(Tail(linked)) = ToSet(linked) \ {head}
      BY ChainFacts
    <3>3. ToSet(Tail(linked')) \subseteq ToSet(Tail(linked)) /\ head' \in ToSet(Tail(linked))
      <4>1. linked' # <<>>
        BY <1>11 DEF Chained
      <4>2. ToSet(Tail(linked')) \subseteq ToSet(linked')
        BY <1>3, <4>1, PopQueue
      <4> QED BY <1>3, <3>2, <4>2
    <3> QED BY <3>1, <3>3 DEF ConsumerKnows
  <2> QED BY <2>1, <2>2
<1> QED BY <1>5, <1>11, <1>12, <1>13, <1>14, <1>15, <1>16, <1>17 DEF QueueInv

LEMMA FreeNodeKeeps ==
  ASSUME QueueInv, NEW c \in Consumers, FreeNode(c)
  PROVE  QueueInv'
<1>1. /\ UNCHANGED <<head, tail, next, value, sent, linked, received, sawEmpty>>
      /\ pc[c] = "free" /\ ~Destroyed /\ c \in Threads /\ c \notin Producers /\ Leave(c)
      /\ live' = live \ {local[c].head} /\ deleted' = deleted \cup {local[c].head}
  BY AtWork, ThreadsAssumption DEF FreeNode, Goto, history, Threads
<1> USE <1>1, InvFacts
<1>2. /\ pc'[c] = "head" /\ pc' \in [Threads -> Places]
      /\ \A u \in Threads \ {c} : pc'[u] = pc[u]
  BY GotoFacts DEF FreeNode, QueueTypeOK, Places
<1>3. OnlyAt(c)
  BY ResetLocal DEF QueueTypeOK
<1>4. QueueTypeOK'
  BY <1>2, <1>3 DEF QueueTypeOK, OnlyAt, Threads
<1>5. Last(linked)' = Last(linked)
  BY DEF Last
<1>6. /\ c \in Freeing /\ Freeing' = Freeing \ {c}
      /\ \A d \in Freeing \ {c} : local'[d].head = local[d].head
  <2>1. \A d \in Consumers \ {c} : pc'[d] = pc[d] /\ local'[d] = local[d]
    BY <1>2, <1>3 DEF OnlyAt, Threads
  <2> QED BY <1>2, <2>1 DEF Freeing
<1>7. OldHeads' = OldHeads \ {local[c].head} /\ local[c].head \in OldHeads
  <2>1. \A d \in Freeing \ {c} : local[d].head # local[c].head
    BY <1>6 DEF Heap
  <2> QED BY <1>6, <2>1 DEF OldHeads
<1>8. Unlinked' = Unlinked /\ NewNodes' = NewNodes
  <2>1. \A p \in Producers : pc'[p] = pc[p] /\ local'[p] = local[p]
    BY <1>2, <1>3 DEF OnlyAt, Threads
  <2>2. Unlinked' = Unlinked
    BY <2>1 DEF Unlinked
  <2> QED BY <2>1, <2>2 DEF NewNodes, Unlinked
<1>9. Known' = Known
  <2>1. local[c].head \in live /\ live' \cup deleted' = live \cup deleted
    BY <1>7 DEF Heap
  <2> QED BY <1>8, <2>1 DEF Known
<1>10. Chained' /\ Lagging'
  <2>1. Chained'
    BY <1>5 DEF Chained
  <2>2. Lagging'
    BY <1>2, <1>3, <1>5 DEF Lagging, OnlyAt, Threads
  <2> QED BY <2>1, <2>2
<1>11. Heap'
  <2>1. \A p \in Unlinked : local'[p] = local[p]
    BY <1>3 DEF Unlinked, OnlyAt, Threads
  <2>2. local[c].head \notin ToSet(linked) /\ local[c].head \notin NewNodes /\ local[c].head \in Nodes
    BY <1>7 DEF Heap
  <2> QED BY <1>6, <1>7, <1>8, <2>1, <2>2 DEF Heap
<1>12. Prepared'
  <2>1. \A p \in Unlinked : local'[p] = local[p]
    BY <1>3 DEF Unlinked, OnlyAt, Threads
  <2>2. Prepared' = \A q \in Unlinked' :
                      next'[local'[q].node] = null /\ value'[local'[q].node] = <<q, sent'[q]>>
    BY DEF Prepared
  <2> QED BY <1>8, <2>1, <2>2 DEF Prepared
<1>13. KnownChain'
  BY <1>5, <1>9 DEF KnownChain
<1>14. ASSUME NEW p \in Producers PROVE ProducerKnows(p)'
  <2>1. ProducerKnows(p) /\ pc'[p] = pc[p] /\ local'[p] = local[p]
    BY <1>2, <1>3 DEF OnlyAt, Threads
  <2> QED BY <1>5, <1>9, <2>1 DEF ProducerKnows
<1>15. ASSUME NEW d \in Consumers PROVE ConsumerKnows(d)'
  <2>1. CASE d = c
    BY <1>2, <2>1 DEF ConsumerKnows
  <2>2. CASE d # c
    <3>1. ConsumerKnows(d) /\ pc'[d] = pc[d] /\ local'[d] = local[d]
      BY <1>2, <1>3, <2>2 DEF OnlyAt, Threads
    <3> QED BY <1>9, <3>1 DEF ConsumerKnows
  <2> QED BY <2>1, <2>2
<1> QED BY <1>4, <1>10, <1>11, <1>12, <1>13, <1>14, <1>15 DEF QueueInv

(* The destructor leaves no thread at work, and finds the tail at the end. *)
LEMMA DestroyKeeps ==
  ASSUME QueueInv, Destroy
  PROVE  QueueInv'
<1>1. /\ UNCHANGED <<head, tail, next, value, local, sent, linked, received, sawEmpty>>
      /\ pc' = [t \in Threads |-> "gone"]
      /\ \A t \in Threads : pc[t] = IF t \in Producers THEN "out" ELSE "head"
  BY DEF Destroy, history
<1>2. QueueTypeOK /\ Chained /\ Lagging
  BY DEF QueueInv
<1>3. Last(linked)' = Last(linked)
  BY <1>1 DEF Last
<1>4. Destroyed'
  BY <1>1 DEF Destroyed
<1>5. QueueTypeOK'
  BY <1>1, <1>2 DEF QueueTypeOK, Places, Threads
<1>6. Chained'
  BY <1>1, <1>2, <1>3 DEF Chained
<1>7. Lagging'
  BY <1>1, <1>2, <1>3 DEF Lagging, Threads
<1> QED BY <1>4, <1>5, <1>6, <1>7 DEF QueueInv

LEMMA QueueInit == Init => QueueInv
<1> SUFFICES ASSUME Init PROVE QueueInv
  OBVIOUS
<1>1. PICK sentinel \in Nodes :
        /\ head = sentinel /\ tail = sentinel
        /\ live = {sentinel} /\ linked = <<sentinel>>
  BY DEF Init
<1>2. /\ next = [n \in Nodes |-> null] /\ value = [n \in Nodes |-> null] /\ deleted = {}
      /\ pc = [t \in Threads |-> IF t \in Producers THEN "out" ELSE "head"]
      /\ local = [t \in Threads |-> Blank]
      /\ sent = [p \in Producers |-> 0]
      /\ received = [c \in Consumers |-> <<>>]
      /\ sawEmpty = [c \in Consumers |-> FALSE]
  BY DEF Init
<1>3. linked \in Seq(Nodes) /\ Len(linked) = 1 /\ ToSet(linked) = {sentinel} /\ IsInjective(linked)
  BY <1>1 DEF ToSet, IsInjective
<1>4. Last(linked) = sentinel
  BY <1>1, <1>3 DEF Last
<1>5. QueueTypeOK
  BY <1>1, <1>2, <1>3, ThreadsAssumption DEF QueueTypeOK, Places, Local, Blank, Threads
<1>6. Chained /\ Lagging
  BY <1>1, <1>2, <1>3, <1>4 DEF Chained, Lagging
<1>7. Unlinked = {} /\ Freeing = {} /\ NewNodes = {} /\ OldHeads = {}
  <2>1. Unlinked = {} /\ Freeing = {}
    BY <1>2, ThreadsAssumption DEF Unlinked, Freeing, Threads
  <2> QED BY <2>1 DEF NewNodes, OldHeads
<1>8. Heap /\ Prepared
  BY <1>1, <1>2, <1>3, <1>7 DEF Heap, Prepared
<1>9. KnownChain
  <2>1. Known = {sentinel}
    BY <1>1, <1>2, <1>3, <1>7 DEF Known
  <2> QED BY <1>1, <1>2, <1>4, <2>1 DEF KnownChain
<1>10. \A p \in Producers : ProducerKnows(p)
  BY <1>2 DEF ProducerKnows, Threads
<1>11. \A c \in Consumers : ConsumerKnows(c)
  BY <1>2, ThreadsAssumption DEF ConsumerKnows, Threads
<1> QED BY <1>5, <1>6, <1>8, <1>9, <1>10, <1>11 DEF QueueInv

-----------------------------------------------------------------------------
(* What a step may be: see QueueInv. *)
LEMMA StepKinds ==
  ASSUME Next, QueueInv
  PROVE  \/ \E p \in Producers, n \in Nodes : NewNode(p, n)
         \/ \E t \in Threads : QueueInv' /\ Quiet(t) /\ pc[t] # "gone"
         \/ \E p \in Producers : LinkSucceeds(p)
         \/ \E c \in Consumers : TakeSucceeds(c)
         \/ \E c \in Consumers : FreeNode(c)
         \/ Destroy
         \/ UNCHANGED vars
<1>1. ASSUME NEW p \in Producers, EnqueueStep(p)
      PROVE  LinkSucceeds(p) \/ (QueueInv' /\ Quiet(p) /\ pc[p] # "gone")
  <2>1. p \in Threads
    BY DEF Threads
  <2>2. CASE LoadTail(p)
    BY <2>1, <2>2, LoadTailKeeps DEF LoadTail, Goto
  <2>3. CASE LoadNextOfTail(p)
    BY <2>3, LoadNextOfTailKeeps DEF LoadNextOfTail, Goto
  <2>4. CASE RecheckTail(p)
    BY <2>4, RecheckTailKeeps DEF RecheckTail, Goto
  <2>5. CASE Link(p)
    <3>1. CASE LinkSucceeds(p)
      BY <3>1
    <3>2. CASE ~LinkSucceeds(p)
      <4>1. /\ Goto(p, "link", FirstAccess(p)) /\ Retry(p) /\ pc[p] # "gone"
            /\ UNCHANGED <<head, tail, next, value, live, deleted, sent, linked, received, sawEmpty>>
        BY <2>5, <3>2 DEF Link, LinkSucceeds, FirstAccess, Goto
      <4> QED BY <2>1, <4>1, RetryKeeps
    <3> QED BY <3>1, <3>2
  <2>6. CASE SwingToNode(p)
    BY <2>6, SwingToNodeKeeps DEF SwingToNode, Goto
  <2>7. CASE Help(p)
    BY <2>1, <2>7, HelpKeeps DEF Help, Goto
  <2> QED BY <1>1, <2>2, <2>3, <2>4, <2>5, <2>6, <2>7 DEF EnqueueStep
<1>2. ASSUME NEW c \in Consumers, DequeueStep(c)
      PROVE  TakeSucceeds(c) \/ FreeNode(c) \/ (QueueInv' /\ Quiet(c) /\ pc[c] # "gone")
  <2>1. c \in Threads /\ c \notin Producers
    BY ThreadsAssumption DEF Threads
  <2>2. CASE LoadHead(c)
    BY <2>2, LoadHeadKeeps DEF LoadHead, Goto
  <2>3. CASE LoadTail(c)
    BY <2>1, <2>3, LoadTailKeeps DEF LoadTail, Goto
  <2>4. CASE LoadNextOfHead(c)
    BY <2>4, LoadNextOfHeadKeeps DEF LoadNextOfHead, Goto
  <2>5. CASE RecheckHead(c)
    BY <2>5, RecheckHeadKeeps DEF RecheckHead, Goto
  <2>6. CASE ReturnEmpty(c)
    BY <2>6, ReturnEmptyKeeps DEF ReturnEmpty, Goto
  <2>7. CASE Help(c)
    BY <2>1, <2>7, HelpKeeps DEF Help, Goto
  <2>8. CASE ReadValue(c)
    BY <2>8, ReadValueKeeps DEF ReadValue, Goto
  <2>9. CASE Take(c)
    <3>1. CASE TakeSucceeds(c)
      BY <3>1
    <3>2. CASE ~TakeSucceeds(c)
      <4>1. /\ Goto(c, "take", FirstAccess(c)) /\ Retry(c) /\ pc[c] # "gone"
            /\ UNCHANGED <<head, tail, next, value, live, deleted, sent, linked, received, sawEmpty>>
        BY <2>1, <2>9, <3>2 DEF Take, TakeSucceeds, FirstAccess, Goto, heap
      <4> QED BY <2>1, <4>1, RetryKeeps
    <3> QED BY <3>1, <3>2
  <2>10. CASE FreeNode(c)
    BY <2>10
  <2> QED BY <1>2, <2>2, <2>3, <2>4, <2>5, <2>6, <2>7, <2>8, <2>9, <2>10 DEF DequeueStep
<1>3. \A p \in Producers : EnqueueStep(p) =>
        LinkSucceeds(p) \/ (QueueInv' /\ Quiet(p) /\ pc[p] # "gone")
  BY <1>1
<1>4. \A c \in Consumers : DequeueStep(c) =>
        TakeSucceeds(c) \/ FreeNode(c) \/ (QueueInv' /\ Quiet(c) /\ pc[c] # "gone")
  BY <1>2
<1> QED BY <1>3, <1>4 DEF Next, Threads

(* No address is used twice, or one thread at each end uses it. *)
SafelyReused == OneToOne \/ ~Reuse

LEMMA QueueStep ==
  ASSUME SafelyReused, QueueInv, [Next]_vars
  PROVE  QueueInv'
<1>1. CASE UNCHANGED vars
  <2>1. /\ UNCHANGED <<head, tail, next, value, live, deleted, pc, local, sent, linked, received, sawEmpty>>
        /\ Last(linked)' = Last(linked)
    BY <1>1 DEF vars, heap, history, Last
  <2>2. Unlinked' = Unlinked /\ Freeing' = Freeing /\ Destroyed' = Destroyed
    BY <2>1 DEF Unlinked, Freeing, Destroyed
  <2>3. NewNodes' = NewNodes /\ OldHeads' = OldHeads
    BY <2>1, <2>2 DEF NewNodes, OldHeads
  <2>4. Known' = Known
    BY <2>1, <2>3 DEF Known
  <2>5. QueueTypeOK' = QueueTypeOK /\ Chained' = Chained /\ Lagging' = Lagging
    BY <2>1 DEF QueueTypeOK, Chained, Lagging
  <2>6. Heap' = Heap /\ Prepared' = Prepared /\ KnownChain' = KnownChain
    BY <2>1, <2>2, <2>3, <2>4 DEF Heap, Prepared, KnownChain
  <2>7. \A p \in Producers : ProducerKnows(p)' = ProducerKnows(p)
    BY <2>1, <2>4 DEF ProducerKnows
  <2>8. \A c \in Consumers : ConsumerKnows(c)' = ConsumerKnows(c)
    BY <2>1, <2>4 DEF ConsumerKnows
  <2> QED BY <2>2, <2>5, <2>6, <2>7, <2>8 DEF QueueInv
<1>2. CASE Next
  BY <1>1, <1>2, StepKinds, NewNodeKeeps, LinkKeeps, TakeKeeps, FreeNodeKeeps, DestroyKeeps DEF SafelyReused
<1> QED BY <1>1, <1>2

(* The invariant holds whatever the threads do and however often a         *)
(* compare-and-swap fails, in every execution of enqueue() and dequeue().  *)
THEOREM QueueInvariant ==
  ASSUME SafelyReused
  PROVE  Spec => []QueueInv
<1>1. QueueInv /\ [Next]_vars => QueueInv'
  BY QueueStep
<1> QED BY <1>1, QueueInit, PTL DEF Spec

-----------------------------------------------------------------------------
(* Properties of the states *)

(* From head_ the nodes follow each other in the order they were linked,   *)
(* and tail_ is at most one behind (lines 86, 92, 100, 130, 139).          *)
THEOREM PointersSpellTheQueue ==
  ASSUME SafelyReused
  PROVE  Spec => []ChainIntact
<1>1. QueueInv => ChainIntact
  <2> SUFFICES ASSUME QueueInv PROVE ChainIntact
    OBVIOUS
  <2>1. Chained /\ Lagging /\ linked \in Seq(Nodes)
    BY DEF QueueInv, QueueTypeOK
  <2>2. head = Head(linked)
    BY <2>1 DEF Chained
  <2> QED BY <2>1, <2>2 DEF Chained, Lagging, ChainIntact
<1> QED BY <1>1, QueueInvariant, PTL

(* dequeue() answers that the queue is empty only if it was when it read   *)
(* behind the sentinel (lines 118 to 127).                                 *)
THEOREM EmptyIsTrue ==
  ASSUME SafelyReused
  PROVE  Spec => []EmptyAnswersTrue
<1>1. QueueInv => EmptyAnswersTrue
  BY InvFacts, AtWork DEF EmptyAnswersTrue, ConsumerKnows, Threads
<1> QED BY <1>1, QueueInvariant, PTL

(* Between one producer and one consumer no pointer to a deleted node is   *)
(* ever followed: without hazard pointers that is all the code can promise *)
(* (lines 78, 86, 118, 136, 144).                                          *)
THEOREM OneToOneIsMemorySafe ==
  ASSUME OneToOne
  PROVE  Spec => []DereferencesLive
<1>1. QueueInv => DereferencesLive
  <2> SUFFICES ASSUME QueueInv PROVE DereferencesLive
    OBVIOUS
  <2>1. ASSUME NEW p \in Producers, pc[p] \in {"next", "link"} PROVE local[p].tail \in live
    <3>1. ~Destroyed
      BY <2>1, AtWork DEF Threads
    <3>2. local[p].tail \in ToSet(linked)
      BY <2>1, <3>1, InvFacts DEF ProducerKnows, Known
    <3> QED BY <3>1, <3>2, InvFacts DEF Heap
  <2>2. ASSUME NEW c \in Consumers, pc[c] = "next" PROVE local[c].head \in live
    <3>1. ~Destroyed
      BY <2>2, AtWork DEF Threads
    <3>2. local[c].head \in ToSet(linked)
      BY <2>2, <3>1, InvFacts DEF ConsumerKnows, Known
    <3> QED BY <3>1, <3>2, InvFacts DEF Heap
  <2>3. ASSUME NEW c \in Consumers, pc[c] = "free" PROVE local[c].head \in live
    <3>1. ~Destroyed
      BY <2>3, AtWork DEF Threads
    <3>2. local[c].head \in OldHeads
      BY <2>3 DEF OldHeads, Freeing
    <3> QED BY <3>1, <3>2, InvFacts DEF Heap
  <2>4. ASSUME NEW c \in Consumers, pc[c] = "value" PROVE local[c].next \in live
    <3>1. ~Destroyed
      BY <2>4, AtWork DEF Threads
    <3>2. local[c].next \in ToSet(linked)
      BY <2>4, <3>1, InvFacts DEF ConsumerKnows, KnownChain, Known
    <3> QED BY <3>1, <3>2, InvFacts DEF Heap
  <2> QED BY <2>1, <2>2, <2>3, <2>4 DEF DereferencesLive
<1>2. SafelyReused
  BY DEF SafelyReused
<1> QED BY <1>1, <1>2, QueueInvariant, PTL

-----------------------------------------------------------------------------
(* The refinement of FifoQueue *)

Waiting  == [i \in 1 .. Len(linked) - 1 |-> value[linked[i + 1]]]
Accepted == [p \in Producers |-> IF p \in Unlinked THEN sent[p] - 1 ELSE sent[p]]

(* What follows the sentinel in a chain, with the values found there. *)
LEMMA WaitingFacts ==
  ASSUME NEW chain \in Seq(Nodes), Len(chain) >= 1, NEW V, NEW val \in [Nodes -> V],
         NEW w, w = [i \in 1 .. Len(chain) - 1 |-> val[chain[i + 1]]]
  PROVE  /\ w \in Seq(V) /\ Len(w) = Len(chain) - 1
         /\ \A i \in 1 .. Len(chain) - 1 : w[i] = val[chain[i + 1]]
<1>1. Len(chain) - 1 \in Nat /\ \A i \in 1 .. Len(chain) - 1 : val[chain[i + 1]] \in V
  OBVIOUS
<1> QED BY <1>1

(* A step that links no node and takes none is none to the users. *)
LEMMA QueueStutters ==
  ASSUME QueueInv, QueueInv', linked' = linked, received' = received,
         \A n \in ToSet(linked) : value'[n] = value[n],
         \A p \in Producers : Accepted'[p] = Accepted[p]
  PROVE  UNCHANGED <<Waiting, Accepted, received>>
<1>1. QueueTypeOK /\ Chained /\ QueueTypeOK' /\ Chained'
  BY DEF QueueInv
<1>2. \A i \in 1 .. Len(linked) - 1 : value'[linked'[i + 1]] = value[linked[i + 1]]
  BY <1>1, ChainFacts
<1>3. Waiting' = Waiting
  BY <1>2 DEF Waiting
<1>4. Accepted' = Accepted
  BY DEF Accepted
<1> QED BY <1>3, <1>4

LEMMA LinkEnqueues ==
  ASSUME QueueInv, QueueInv', NEW p \in Producers, LinkSucceeds(p)
  PROVE  /\ Waiting' = Append(Waiting, <<p, Accepted[p] + 1>>)
         /\ Accepted' = [Accepted EXCEPT ![p] = @ + 1]
         /\ received' = received
<1>1. QueueTypeOK /\ Chained /\ QueueTypeOK' /\ Chained' /\ Len(linked) \in Nat \ {0}
  BY ChainFacts DEF QueueInv
<1>2. UNCHANGED <<value, sent, received>>
  BY DEF LinkSucceeds
<1>3. /\ p \in Unlinked /\ Unlinked' = Unlinked \ {p}
      /\ value[local[p].node] = <<p, sent[p]>>
      /\ Len(linked') = Len(linked) + 1
      /\ \A i \in 1 .. Len(linked) : linked'[i] = linked[i]
      /\ linked'[Len(linked) + 1] = local[p].node
  BY LinkFacts
<1>4. sent \in [Producers -> Nat]
  BY <1>1 DEF QueueTypeOK
<1>5. Accepted' = [Accepted EXCEPT ![p] = @ + 1] /\ Accepted[p] + 1 = sent[p]
  <2>1. Accepted[p] = sent[p] - 1 /\ Accepted[p] + 1 = sent[p]
    BY <1>3, <1>4 DEF Accepted
  <2>2. Accepted' = [q \in Producers |-> IF q \in Unlinked \ {p} THEN sent[q] - 1 ELSE sent[q]]
    BY <1>2, <1>3 DEF Accepted
  <2>3. [Accepted EXCEPT ![p] = @ + 1] = [q \in Producers |-> IF q = p THEN sent[p] ELSE Accepted[q]]
    BY <2>1 DEF Accepted
  <2>4. \A q \in Producers : (IF q \in Unlinked \ {p} THEN sent[q] - 1 ELSE sent[q])
                                 = (IF q = p THEN sent[p] ELSE Accepted[q])
    BY DEF Accepted
  <2> QED BY <2>1, <2>2, <2>3, <2>4
<1> DEFINE V == {null} \cup (Producers \X Nat)
<1>6. /\ Waiting \in Seq(V) /\ Len(Waiting) = Len(linked) - 1
      /\ \A i \in 1 .. Len(linked) - 1 : Waiting[i] = value[linked[i + 1]]
  BY <1>1, WaitingFacts DEF QueueTypeOK, Waiting
<1>7. /\ Waiting' \in Seq(V) /\ Len(Waiting') = Len(linked)
      /\ \A i \in 1 .. Len(linked) : Waiting'[i] = value[linked'[i + 1]]
  <2>1. linked' \in Seq(Nodes) /\ Len(linked') >= 1 /\ value' \in [Nodes -> V] /\ Len(linked') - 1 = Len(linked)
    BY <1>1, <1>3 DEF QueueTypeOK
  <2>2. Waiting' = [i \in 1 .. Len(linked') - 1 |-> value'[linked'[i + 1]]]
    BY DEF Waiting
  <2> HIDE DEF V
  <2>3. /\ Waiting' \in Seq(V) /\ Len(Waiting') = Len(linked') - 1
        /\ \A i \in 1 .. Len(linked') - 1 : Waiting'[i] = value'[linked'[i + 1]]
    BY <2>1, <2>2, WaitingFacts
  <2> QED BY <1>2, <2>1, <2>3
<1>8. <<p, sent[p]>> \in V
  BY <1>4
<1>9. Waiting' = Append(Waiting, <<p, sent[p]>>)
  <2> DEFINE A == Append(Waiting, <<p, sent[p]>>)
  <2>1. /\ A \in Seq(V) /\ Len(A) = Len(linked)
        /\ \A i \in 1 .. Len(linked) - 1 : A[i] = Waiting[i]
        /\ A[Len(linked)] = <<p, sent[p]>>
    BY <1>1, <1>6, <1>8, AppendProperties
  <2>2. ASSUME NEW i \in 1 .. Len(linked) PROVE Waiting'[i] = A[i]
    <3>1. CASE i = Len(linked)
      BY <1>1, <1>3, <1>7, <2>1, <3>1
    <3>2. CASE i # Len(linked)
      <4>1. i \in 1 .. Len(linked) - 1 /\ i + 1 \in 1 .. Len(linked)
        BY <1>1, <3>2
      <4> QED BY <1>3, <1>6, <1>7, <2>1, <4>1
    <3> QED BY <3>1, <3>2
  <2> HIDE DEF A, V
  <2>3. Waiting' = A
    BY <1>7, <2>1, <2>2, SeqEqual
  <2> QED BY <2>3 DEF A
<1> QED BY <1>2, <1>5, <1>9

LEMMA TakeDequeues ==
  ASSUME QueueInv, QueueInv', NEW c \in Consumers, TakeSucceeds(c)
  PROVE  /\ Waiting # <<>> /\ Waiting' = Tail(Waiting)
         /\ received' = [received EXCEPT ![c] = Append(@, Head(Waiting))]
         /\ Accepted' = Accepted
<1>1. QueueTypeOK /\ Chained /\ QueueTypeOK' /\ Chained' /\ Len(linked) \in Nat \ {0}
  BY ChainFacts DEF QueueInv
<1>2. UNCHANGED <<value, sent, local>> /\ received' = [received EXCEPT ![c] = Append(@, local[c].value)]
  BY DEF TakeSucceeds
<1>3. /\ Len(linked) > 1 /\ local[c].value = value[linked[2]]
      /\ Len(linked') = Len(linked) - 1
      /\ \A i \in 1 .. Len(linked) - 1 : linked'[i] = linked[i + 1]
  BY TakeFacts
<1>4. Accepted' = Accepted
  <2>1. \A p \in Producers : pc'[p] = pc[p]
    BY <1>1, GotoFacts, ThreadsAssumption DEF TakeSucceeds, QueueTypeOK, Threads, Places
  <2>2. Unlinked' = Unlinked
    BY <2>1 DEF Unlinked
  <2> QED BY <1>2, <2>2 DEF Accepted
<1> DEFINE V == {null} \cup (Producers \X Nat)
<1>5. /\ Waiting \in Seq(V) /\ Len(Waiting) = Len(linked) - 1
      /\ \A i \in 1 .. Len(linked) - 1 : Waiting[i] = value[linked[i + 1]]
  BY <1>1, WaitingFacts DEF QueueTypeOK, Waiting
<1>6. /\ Waiting' \in Seq(V) /\ Len(Waiting') = Len(linked) - 2
      /\ \A i \in 1 .. Len(linked) - 2 : Waiting'[i] = value[linked'[i + 1]]
  <2>1. linked' \in Seq(Nodes) /\ Len(linked') >= 1 /\ value' \in [Nodes -> V] /\ Len(linked') - 1 = Len(linked) - 2
    BY <1>1, <1>3 DEF QueueTypeOK
  <2>2. Waiting' = [i \in 1 .. Len(linked') - 1 |-> value'[linked'[i + 1]]]
    BY DEF Waiting
  <2> HIDE DEF V
  <2>3. /\ Waiting' \in Seq(V) /\ Len(Waiting') = Len(linked') - 1
        /\ \A i \in 1 .. Len(linked') - 1 : Waiting'[i] = value'[linked'[i + 1]]
    BY <2>1, <2>2, WaitingFacts
  <2> QED BY <1>2, <2>1, <2>3
<1>7. Waiting # <<>> /\ Head(Waiting) = value[linked[2]]
  <2>1. Waiting # <<>>
    BY <1>1, <1>3, <1>5
  <2>2. Head(Waiting) = Waiting[1]
    BY <1>5, <2>1
  <2> QED BY <1>1, <1>3, <1>5, <2>1, <2>2
<1>8. Waiting' = Tail(Waiting)
  <2> DEFINE T == Tail(Waiting)
  <2>1. /\ T \in Seq(V) /\ Len(T) = Len(linked) - 2
        /\ \A i \in 1 .. Len(linked) - 2 : T[i] = Waiting[i + 1]
    BY <1>1, <1>5, <1>7, HeadTailProperties
  <2>2. ASSUME NEW i \in 1 .. Len(linked) - 2 PROVE Waiting'[i] = T[i]
    <3>1. i + 1 \in 1 .. Len(linked) - 1
      BY <1>1
    <3> QED BY <1>3, <1>5, <1>6, <2>1, <3>1
  <2> HIDE DEF T, V
  <2>3. Waiting' = T
    BY <1>6, <2>1, <2>2, SeqEqual
  <2> QED BY <2>3 DEF T
<1> QED BY <1>2, <1>3, <1>4, <1>7, <1>8

LEMMA QueueRefinesStep ==
  ASSUME SafelyReused, QueueInv, [Next]_vars
  PROVE  [Fifo!Next]_Fifo!fifoVars
<1>1. QueueInv'
  BY QueueStep
<1>2. /\ [Fifo!Next]_Fifo!fifoVars <=>
           \/ \E p \in Producers : /\ Waiting' = Append(Waiting, <<p, Accepted[p] + 1>>)
                                   /\ Accepted' = [Accepted EXCEPT ![p] = @ + 1]
                                   /\ received' = received
           \/ \E c \in Consumers : /\ Waiting # <<>> /\ Waiting' = Tail(Waiting)
                                   /\ received' = [received EXCEPT ![c] = Append(@, Head(Waiting))]
                                   /\ Accepted' = Accepted
           \/ UNCHANGED <<Waiting, Accepted, received>>
  BY DEF Fifo!Next, Fifo!Enqueue, Fifo!Dequeue, Fifo!fifoVars, Waiting, Accepted
<1>3. CASE UNCHANGED vars
  <2>1. UNCHANGED <<Waiting, Accepted, received>>
    BY <1>3 DEF vars, heap, history, Waiting, Accepted, Unlinked
  <2> QED BY <1>2, <2>1
<1>4. CASE \E p \in Producers, n \in Nodes : NewNode(p, n)
  <2>1. PICK p \in Producers, n \in Nodes : NewNode(p, n)
    BY <1>4
  <2>2. ~Destroyed /\ p \in Threads
    BY <2>1, AtWork DEF NewNode, Goto, Threads
  <2>3. linked' = linked /\ received' = received
    BY <2>1 DEF NewNode, history
  <2>4. \A m \in ToSet(linked) : value'[m] = value[m]
    <3>1. n \notin ToSet(linked) /\ ToSet(linked) \subseteq Nodes
      BY <2>1, <2>2, InvFacts DEF NewNode, Heap
    <3>2. value \in [Nodes -> {null} \cup (Producers \X Nat)]
      BY DEF QueueInv, QueueTypeOK
    <3> QED BY <2>1, <3>1, <3>2 DEF NewNode
  <2>5. sent \in [Producers -> Nat] /\ pc \in [Threads -> Places]
    BY DEF QueueInv, QueueTypeOK
  <2>6. ASSUME NEW q \in Producers PROVE Accepted'[q] = Accepted[q]
    <3>1. q \in Threads
      BY DEF Threads
    <3>2. CASE q = p
      <4>1. pc[p] = "out" /\ pc'[p] = "tail" /\ sent'[p] = sent[p] + 1 /\ sent[p] \in Nat
        BY <2>1, <2>2, <2>5 DEF NewNode, Goto
      <4>2. Accepted[p] = sent[p] /\ Accepted'[p] = sent'[p] - 1
        BY <4>1 DEF Accepted, Unlinked
      <4> QED BY <3>2, <4>1, <4>2
    <3>3. CASE q # p
      <4>1. pc'[q] = pc[q] /\ sent'[q] = sent[q]
        BY <2>1, <2>5, <3>1, <3>3 DEF NewNode, Goto
      <4> QED BY <4>1 DEF Accepted, Unlinked
    <3> QED BY <3>2, <3>3
  <2> QED BY <1>1, <1>2, <2>3, <2>4, <2>6, QueueStutters
<1>5. CASE \E t \in Threads : QueueInv' /\ Quiet(t) /\ pc[t] # "gone"
  <2>1. PICK t \in Threads : Quiet(t)
    BY <1>5
  <2>2. UNCHANGED <<linked, received, value, sent>>
    BY <2>1 DEF Quiet
  <2>3. ASSUME NEW q \in Producers PROVE q \in Unlinked' <=> q \in Unlinked
    BY <2>1 DEF Quiet, Unlinked, Threads
  <2>4. \A q \in Producers : Accepted'[q] = Accepted[q]
    BY <2>2, <2>3 DEF Accepted
  <2> QED BY <1>1, <1>2, <2>2, <2>4, QueueStutters
<1>6. CASE \E p \in Producers : LinkSucceeds(p)
  BY <1>1, <1>2, <1>6, LinkEnqueues
<1>7. CASE \E c \in Consumers : TakeSucceeds(c)
  BY <1>1, <1>2, <1>7, TakeDequeues
<1>8. CASE \E c \in Consumers : FreeNode(c)
  <2>1. PICK c \in Consumers : FreeNode(c)
    BY <1>8
  <2>2. UNCHANGED <<linked, received, value, sent>> /\ pc \in [Threads -> Places]
    BY <2>1 DEF FreeNode, history, QueueInv, QueueTypeOK
  <2>3. \A q \in Producers : pc'[q] = pc[q]
    BY <2>1, <2>2, ThreadsAssumption DEF FreeNode, Goto, Threads
  <2>4. \A q \in Producers : Accepted'[q] = Accepted[q]
    BY <2>2, <2>3 DEF Accepted, Unlinked
  <2> QED BY <1>1, <1>2, <2>2, <2>4, QueueStutters
<1>9. CASE Destroy
  <2>1. UNCHANGED <<linked, received, value, sent>>
    BY <1>9 DEF Destroy, history
  <2>2. \A q \in Producers : pc[q] = "out" /\ pc'[q] = "gone"
    BY <1>9 DEF Destroy, Threads
  <2>3. \A q \in Producers : Accepted'[q] = Accepted[q]
    BY <2>1, <2>2 DEF Accepted, Unlinked
  <2> QED BY <1>1, <1>2, <2>1, <2>3, QueueStutters
<1> QED BY <1>3, <1>4, <1>5, <1>6, <1>7, <1>8, <1>9, StepKinds

(* enqueue() takes effect when its node is linked (line 86) and dequeue()  *)
(* when head_ moves (line 139): seen from outside the queue is a FIFO      *)
(* queue, whichever threads use it.                                        *)
THEOREM QueueIsFifo ==
  ASSUME SafelyReused
  PROVE  Spec => RefinesFifo
<1>1. Init => Fifo!Init
  <2> SUFFICES ASSUME Init PROVE Fifo!Init
    OBVIOUS
  <2>1. QueueTypeOK /\ Chained
    BY QueueInit DEF QueueInv
  <2>2. Len(linked) = 1 /\ received = [c \in Consumers |-> <<>>] /\ sent = [p \in Producers |-> 0]
    BY DEF Init
  <2>3. Waiting = <<>>
    <3>1. Waiting \in Seq({null} \cup (Producers \X Nat)) /\ Len(Waiting) = 0
      BY <2>1, <2>2, WaitingFacts DEF QueueTypeOK, Waiting
    <3> QED BY <3>1, EmptySeq
  <2>4. Accepted = [p \in Producers |-> 0]
    <3>1. \A p \in Producers : p \notin Unlinked
      BY DEF Init, Unlinked, Threads
    <3> QED BY <2>2, <3>1 DEF Accepted
  <2> QED BY <2>2, <2>3, <2>4 DEF Fifo!Init, Waiting, Accepted
<1>2. QueueInv /\ [Next]_vars => [Fifo!Next]_Fifo!fifoVars
  BY QueueRefinesStep
<1> QED BY <1>1, <1>2, QueueInvariant, PTL DEF Spec, RefinesFifo, Fifo!Spec

-----------------------------------------------------------------------------
(* The heap, and the destructor *)

LEMMA WalkCovers ==
  ASSUME QueueTypeOK, Chained, IsFiniteSet(Nodes)
  PROVE  ToSet(linked) \subseteq Walk
<1> DEFINE K == 0 .. Cardinality(Nodes)
           step(f, k) == IF k = 0 THEN head ELSE IF f[k - 1] = null THEN null ELSE next[f[k - 1]]
           along == [k \in K |-> IF k < Len(linked) THEN linked[k + 1] ELSE null]
           at == CHOOSE f : f = [k \in K |-> step(f, k)]
<1>1. /\ Len(linked) \in Nat \ {0} /\ Cardinality(Nodes) \in Nat /\ head = linked[1]
      /\ \A i \in 1 .. Len(linked) : linked[i] \in Nodes /\ linked[i] # null
      /\ \A i \in 1 .. Len(linked) - 1 : next[linked[i]] = linked[i + 1]
      /\ next[linked[Len(linked)]] = null
  BY ChainFacts, FS_CardinalityType, NodesAssumption DEF QueueTypeOK, Chained
<1>2. Len(linked) <= Cardinality(Nodes)
  <2>1. linked \in Injection(1 .. Len(linked), Nodes)
    <3>1. linked \in [1 .. Len(linked) -> Nodes]
      BY LenProperties DEF QueueTypeOK
    <3>2. \A i, j \in 1 .. Len(linked) : linked[i] = linked[j] => i = j
      BY ChainFacts
    <3> QED BY <3>1, <3>2 DEF Injection, IsInjective
  <2>2. Cardinality(1 .. Len(linked)) <= Cardinality(Nodes)
    BY <2>1, FS_Injection
  <2> QED BY <1>1, <2>2, FS_Interval
<1>3. along = [k \in K |-> step(along, k)]
  <2>1. ASSUME NEW k \in K PROVE along[k] = step(along, k)
    <3>1. k \in Nat /\ (k # 0 => k - 1 \in K)
      BY <1>1
    <3>2. CASE k = 0
      BY <1>1, <3>1, <3>2
    <3>3. CASE k # 0 /\ k < Len(linked)
      <4>1. k \in 1 .. Len(linked) - 1 /\ k \in 1 .. Len(linked) /\ k - 1 < Len(linked)
        BY <1>1, <3>1, <3>3
      <4>2. along[k - 1] = linked[k] /\ along[k] = linked[k + 1]
        BY <1>1, <3>1, <3>3, <4>1
      <4> QED BY <1>1, <3>3, <4>1, <4>2
    <3>4. CASE k = Len(linked)
      <4>1. along[k - 1] = linked[Len(linked)] /\ along[k] = null /\ Len(linked) \in 1 .. Len(linked)
        BY <1>1, <3>1, <3>4
      <4> QED BY <1>1, <3>4, <4>1
    <3>5. CASE k > Len(linked)
      BY <1>1, <3>1, <3>5
    <3> QED BY <1>1, <3>1, <3>2, <3>3, <3>4, <3>5
  <2> QED BY <2>1
<1>4. at = [k \in K |-> step(at, k)]
  BY <1>3
<1>5. \A k \in K : at[k] = along[k]
  <2> DEFINE Wrong == {k \in K : at[k] # along[k]}
  <2>1. Wrong \subseteq Nat
    OBVIOUS
  <2> SUFFICES ASSUME Wrong # {} PROVE FALSE
    OBVIOUS
  <2>2. PICK k \in Wrong : \A m \in Wrong : k <= m
    BY <2>1, LeastNumber
  <2>3. ASSUME k # 0 PROVE at[k - 1] = along[k - 1]
    <3>1. k - 1 \in K /\ k - 1 < k
      BY <1>1, <2>3
    <3>2. k - 1 \notin Wrong
      BY <1>1, <2>2, <3>1
    <3> HIDE DEF at, along
    <3> QED BY <3>1, <3>2
  <2>4. at[k] = step(at, k) /\ along[k] = step(along, k)
    BY <1>3, <1>4
  <2> QED BY <2>3, <2>4
<1>6. Walk = {at[k] : k \in K} \ {null}
  BY DEF Walk
<1>7. ASSUME NEW n \in ToSet(linked) PROVE n \in Walk
  <2>1. PICK i \in 1 .. Len(linked) : n = linked[i]
    BY ChainFacts
  <2>2. i - 1 \in K /\ along[i - 1] = n /\ n # null
    BY <1>1, <1>2, <2>1
  <2> HIDE DEF along, at, K
  <2> QED BY <1>5, <1>6, <2>2
<1> QED BY <1>7

LEMMA HeapCounted ==
  ASSUME QueueInv, ~Destroyed, IsFiniteSet(Producers), IsFiniteSet(Consumers)
  PROVE  Cardinality(live) = Len(linked) + Cardinality(Unlinked) + Cardinality(Freeing)
<1> USE InvFacts
<1>1. IsFiniteSet(Unlinked) /\ IsFiniteSet(Freeing)
  BY FS_Subset DEF Unlinked, Freeing
<1>2. IsFiniteSet(NewNodes) /\ Cardinality(NewNodes) = Cardinality(Unlinked)
  <2> DEFINE f == [p \in Unlinked |-> local[p].node]
  <2>1. f \in Bijection(Unlinked, NewNodes)
    BY DEF Heap, NewNodes, Bijection, Injection, Surjection, IsInjective
  <2>2. ExistsBijection(Unlinked, NewNodes)
    BY <2>1 DEF ExistsBijection
  <2> QED BY <1>1, <2>2, FS_Bijection
<1>3. IsFiniteSet(OldHeads) /\ Cardinality(OldHeads) = Cardinality(Freeing)
  <2> DEFINE f == [c \in Freeing |-> local[c].head]
  <2>1. f \in Bijection(Freeing, OldHeads)
    BY DEF Heap, OldHeads, Bijection, Injection, Surjection, IsInjective
  <2>2. ExistsBijection(Freeing, OldHeads)
    BY <2>1 DEF ExistsBijection
  <2> QED BY <1>1, <2>2, FS_Bijection
<1>4. IsFiniteSet(ToSet(linked)) /\ Cardinality(ToSet(linked)) = Len(linked)
  <2>1. /\ linked \in [1 .. Len(linked) -> ToSet(linked)] /\ Len(linked) \in Nat
        /\ \A i, j \in 1 .. Len(linked) : linked[i] = linked[j] => i = j
        /\ \A n \in ToSet(linked) : \E i \in 1 .. Len(linked) : linked[i] = n
    <3>1. linked \in [1 .. Len(linked) -> Nodes]
      BY LenProperties DEF QueueTypeOK
    <3> QED BY <3>1, ChainFacts
  <2>2. linked \in Bijection(1 .. Len(linked), ToSet(linked))
    BY <2>1 DEF Bijection, Injection, Surjection, IsInjective
  <2>3. ExistsBijection(1 .. Len(linked), ToSet(linked))
    BY <2>2 DEF ExistsBijection
  <2>4. IsFiniteSet(1 .. Len(linked)) /\ Cardinality(1 .. Len(linked)) = Len(linked)
    <3>1. IsFiniteSet(1 .. Len(linked)) /\ Cardinality(1 .. Len(linked)) = IF 1 > Len(linked) THEN 0 ELSE Len(linked) - 1 + 1
      BY <2>1, FS_Interval
    <3> QED BY <2>1, <3>1
  <2> QED BY <2>3, <2>4, FS_Bijection
<1> DEFINE Q == ToSet(linked)
<1>5. /\ IsFiniteSet(Q \cup NewNodes)
      /\ Cardinality(Q \cup NewNodes) = Len(linked) + Cardinality(Unlinked)
  <2>1. Q \cap NewNodes = {}
    BY DEF Heap
  <2>2. Cardinality(Q \cap NewNodes) = 0
    BY <2>1, FS_EmptySet
  <2>3. Cardinality(Q) \in Nat /\ Cardinality(NewNodes) \in Nat
    BY <1>2, <1>4, FS_CardinalityType
  <2>4. /\ IsFiniteSet(Q \cup NewNodes)
        /\ Cardinality(Q \cup NewNodes) = Cardinality(Q) + Cardinality(NewNodes) - Cardinality(Q \cap NewNodes)
    BY <1>2, <1>4, FS_Union
  <2> HIDE DEF Q
  <2> QED BY <1>2, <1>4, <2>2, <2>3, <2>4 DEF Q
<1>6. Cardinality((Q \cup NewNodes) \cup OldHeads)
        = Len(linked) + Cardinality(Unlinked) + Cardinality(Freeing)
  <2>1. (Q \cup NewNodes) \cap OldHeads = {}
    BY DEF Heap
  <2>2. Cardinality((Q \cup NewNodes) \cap OldHeads) = 0
    BY <2>1, FS_EmptySet
  <2>3. Cardinality(Q \cup NewNodes) \in Nat /\ Cardinality(OldHeads) \in Nat
    BY <1>3, <1>5, FS_CardinalityType
  <2>4. Cardinality((Q \cup NewNodes) \cup OldHeads)
          = Cardinality(Q \cup NewNodes) + Cardinality(OldHeads) - Cardinality((Q \cup NewNodes) \cap OldHeads)
    BY <1>3, <1>5, FS_Union
  <2> HIDE DEF Q
  <2> QED BY <1>3, <1>5, <2>2, <2>3, <2>4
<1>7. live = (Q \cup NewNodes) \cup OldHeads
  BY DEF Heap
<1> QED BY <1>6, <1>7

(* Only the destructor ends a thread's work, and none works after it. *)
LEMMA GoneForGood ==
  ASSUME QueueTypeOK, Threads # {}, Next
  PROVE  /\ Destroyed => UNCHANGED vars
         /\ ~Destroyed /\ Destroyed' => Destroy
<1>1. Destroyed => ~Destroy
  BY DEF Destroyed, Destroy
<1>2. ASSUME ~Destroy, ~(Destroyed /\ UNCHANGED vars)
      PROVE  \E t \in Threads : pc[t] # "gone" /\ pc'[t] # "gone"
  <2>1. ASSUME NEW t \in Threads, NEW from, NEW to \in Places \ {"gone"}, from # "gone", Goto(t, from, to)
        PROVE  pc[t] # "gone" /\ pc'[t] # "gone"
    BY <2>1 DEF Goto, QueueTypeOK
  <2>2. ASSUME NEW t \in Threads, NEW to \in {"out", "head", "tail", "next", "recheck", "link", "swing",
                                             "help", "empty", "value", "take", "free"},
               \E from \in Places \ {"gone"} : Goto(t, from, to)
        PROVE  pc[t] # "gone" /\ pc'[t] # "gone"
    BY <2>1, <2>2 DEF Places
  <2>3. ASSUME NEW p \in Producers, NEW n \in Nodes, NewNode(p, n)
        PROVE  \E t \in Threads : pc[t] # "gone" /\ pc'[t] # "gone"
    BY <2>2, <2>3 DEF NewNode, Threads, Places
  <2>4. ASSUME NEW p \in Producers, EnqueueStep(p)
        PROVE  \E t \in Threads : pc[t] # "gone" /\ pc'[t] # "gone"
    <3>1. \E to \in {"out", "tail", "head", "next", "recheck", "link", "swing", "help"} :
            \E from \in Places \ {"gone"} : Goto(p, from, to)
      BY <2>4 DEF EnqueueStep, LoadTail, LoadNextOfTail, RecheckTail, Link, SwingToNode, Help,
         FirstAccess, Places
    <3> QED BY <2>2, <3>1 DEF Threads
  <2>5. ASSUME NEW c \in Consumers, DequeueStep(c)
        PROVE  \E t \in Threads : pc[t] # "gone" /\ pc'[t] # "gone"
    <3>1. \E to \in {"head", "tail", "next", "recheck", "help", "empty", "value", "take", "free"} :
            \E from \in Places \ {"gone"} : Goto(c, from, to)
      BY <2>5 DEF DequeueStep, LoadHead, LoadTail, LoadNextOfHead, RecheckHead, ReturnEmpty, Help,
         ReadValue, Take, FreeNode, Branch, FirstAccess, Places
    <3> QED BY <2>2, <3>1 DEF Threads
  <2> QED BY <1>2, <2>3, <2>4, <2>5 DEF Next
<1> QED BY <1>1, <1>2 DEF Destroyed

(* Nothing leaks: every allocated node is in the queue, or with the one    *)
(* producer that is to link it, or with the one consumer that is to delete *)
(* it, and the destructor leaves none (lines 54 to 62).                    *)
THEOREM NothingLeaks ==
  ASSUME SafelyReused, IsFiniteSet(Nodes), IsFiniteSet(Producers), IsFiniteSet(Consumers), Threads # {}
  PROVE  Spec => []HeapAccounted
<1> DEFINE Emptied == Destroyed => live = {}
<1>1. QueueInv /\ Emptied => HeapAccounted
  BY InvFacts, HeapCounted DEF HeapAccounted, Heap, NewNodes, OldHeads
<1>2. Init => Emptied
  <2> SUFFICES ASSUME Init PROVE ~Destroyed
    OBVIOUS
  <2>1. \A t \in Threads : pc[t] # "gone"
    BY DEF Init
  <2> QED BY <2>1 DEF Destroyed
<1>3. QueueInv /\ Emptied /\ [Next]_vars => Emptied'
  <2> SUFFICES ASSUME QueueInv, Emptied, [Next]_vars, Destroyed' PROVE live' = {}
    OBVIOUS
  <2>1. CASE UNCHANGED vars
    BY <2>1 DEF vars, heap, Destroyed
  <2>2. CASE Next /\ Destroyed
    <3>1. UNCHANGED vars
      BY <2>2, GoneForGood DEF QueueInv
    <3> QED BY <2>2, <3>1 DEF vars, heap
  <2>3. CASE Next /\ ~Destroyed
    <3>1. Destroy
      BY <2>3, GoneForGood DEF QueueInv
    <3>2. Unlinked = {} /\ Freeing = {}
      BY <3>1, ThreadsAssumption DEF Destroy, Unlinked, Freeing, Threads
    <3>3. live = ToSet(linked)
      BY <2>3, <3>2, InvFacts DEF Heap, NewNodes, OldHeads
    <3>4. ToSet(linked) \subseteq Walk
      BY <2>3, InvFacts, WalkCovers
    <3> QED BY <3>1, <3>3, <3>4 DEF Destroy
  <2> QED BY <2>1, <2>2, <2>3
<1> HIDE DEF Emptied
<1> QED BY <1>1, <1>2, <1>3, QueueInvariant, PTL DEF Spec

=============================================================================

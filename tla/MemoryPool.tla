----------------------------- MODULE MemoryPool ------------------------------
(***************************************************************************)
(* The slab allocator of include/memory_pool.h.  A block is its number, in *)
(* the order in which the slabs were made.  What the mutex protects, the   *)
(* free list and the slabs, changes in one step; the construction and the  *)
(* destruction of the object are steps of their own, outside the lock.     *)
(***************************************************************************)
EXTENDS Integers, SequencesExt

CONSTANTS
  Threads,     (* threads that allocate and deallocate                       *)
  Objects,     (* what is constructed in the blocks                          *)
  Nothing,     (* a block in which no object lives                           *)
  SlabSize     (* blocks in a slab                                           *)

ASSUME SlabSizeAssumption == SlabSize \in Nat \ {0}
ASSUME NothingAssumption  == Nothing \notin Objects

VARIABLES
  contents,    (* what lives in each block; its length is totalCapacity()    *)
  free,        (* the free list, free_list_ first                            *)
  block        (* the local variable of allocate() and deallocate(), or 0    *)

poolVars == <<contents, free, block>>

(* grow() pushes the blocks of a new slab one by one: the last comes first. *)
Slab(n) == [i \in 1 .. SlabSize |-> n + SlabSize + 1 - i]

Raw == [i \in 1 .. SlabSize |-> Nothing]

PoolInit ==
  /\ contents = Raw
  /\ free     = Slab(0)
  /\ block    = [t \in Threads |-> 0]

(* allocate(), under the lock: the first free block, of a new slab if there *)
(* is none ...                                                              *)
PopBlockWithoutUnlink(t) ==
  /\ block[t] = 0
  /\ LET list == IF free = <<>> THEN Slab(Len(contents)) ELSE free IN
     /\ block' = [block EXCEPT ![t] = Head(list)]
     /\ free'  = list
  /\ contents' = IF free = <<>> THEN contents \o Raw ELSE contents
PopBlock(t) ==
  /\ block[t] = 0
  /\ LET list == IF free = <<>> THEN Slab(Len(contents)) ELSE free IN
     /\ block' = [block EXCEPT ![t] = Head(list)]
     /\ free'  = Tail(list)
  /\ contents' = IF free = <<>> THEN contents \o Raw ELSE contents

(* ... and after it: the object is constructed and its address returned. *)
Construct(t, x) ==
  /\ block[t] # 0
  /\ contents' = [contents EXCEPT ![block[t]] = x]
  /\ block'    = [block EXCEPT ![t] = 0]
  /\ UNCHANGED free

(* deallocate() of the object in block b: it is destroyed ... *)
Destroy(t, b) ==
  /\ block[t] = 0
  /\ contents' = [contents EXCEPT ![b] = Nothing]
  /\ block'    = [block EXCEPT ![t] = b]
  /\ UNCHANGED free

(* ... and its block, under the lock, put in front of the free list. *)
PushBlock(t) ==
  /\ block[t] # 0
  /\ free'  = <<block[t]>> \o free
  /\ block' = [block EXCEPT ![t] = 0]
  /\ UNCHANGED contents

(* What its users owe the pool: deallocate() is called with the address of *)
(* an object that lives in one of the blocks.                              *)
PoolNext ==
  \E t \in Threads :
    \/ PopBlock(t)
    \/ \E x \in Objects : Construct(t, x)
    \/ \E b \in DOMAIN contents : contents[b] # Nothing /\ Destroy(t, b)
    \/ PushBlock(t)

PoolSpec == PoolInit /\ [][PoolNext]_poolVars

-----------------------------------------------------------------------------
PoolTypeOK ==
  /\ contents \in Seq(Objects \cup {Nothing})
  /\ free     \in Seq(DOMAIN contents)
  /\ block    \in [Threads -> {0} \cup DOMAIN contents]

InHand(b) == {t \in Threads : block[t] = b}

(* A block is in the free list, once, or in the hands of one thread that   *)
(* is about to construct in it or has just destroyed what was in it, or an *)
(* object lives in it: exactly one of the three, whatever the threads that *)
(* have left the lock still do (lines 57 to 61 and 65 to 71), and no block *)
(* is ever mislaid.                                                        *)
OnePlaceEachBlock ==
  /\ IsInjective(free)
  /\ \A b \in DOMAIN contents :
       /\ b \in ToSet(free) => InHand(b) = {}
       /\ \A t, u \in InHand(b) : t = u
       /\ contents[b] = Nothing <=> b \in ToSet(free) \/ InHand(b) # {}

=============================================================================

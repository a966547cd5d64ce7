----------------------------- MODULE EngineProofs -----------------------------
(***************************************************************************)
(* For any number of threads, orders and blocks: the pool keeps every block *)
(* at one place, the engine uses its book and its pool as their            *)
(* specifications say, so that what is proved of them holds of the engine, *)
(* the orders they share stay intact, and orders submitted one after the   *)
(* other stand in that order.                                              *)
(***************************************************************************)
EXTENDS EngineProperties, OrderBookSafety

-----------------------------------------------------------------------------
(* The pool: every block is at one place, whatever use its contract allows. *)

LEMMA PushInFront ==
  ASSUME NEW S, NEW q \in Seq(S), NEW e \in S
  PROVE  /\ <<e>> \o q \in Seq(S)
         /\ ToSet(<<e>> \o q) = ToSet(q) \cup {e}
         /\ IsInjective(q) /\ e \notin ToSet(q) => IsInjective(<<e>> \o q)
<1>1. /\ <<e>> \o q \in Seq(S)
      /\ DOMAIN q = 1 .. Len(q) /\ DOMAIN (<<e>> \o q) = 1 .. Len(q) + 1
      /\ (<<e>> \o q)[1] = e
      /\ \A i \in 2 .. Len(q) + 1 : (<<e>> \o q)[i] = q[i - 1]
      /\ Len(q) \in Nat
  OBVIOUS
<1>2. ToSet(<<e>> \o q) = ToSet(q) \cup {e}
  <2>1. \A i \in 1 .. Len(q) + 1 : i = 1 \/ (i \in 2 .. Len(q) + 1 /\ i - 1 \in DOMAIN q)
    BY <1>1
  <2>2. \A i \in DOMAIN q : i + 1 \in 2 .. Len(q) + 1 /\ (i + 1) - 1 = i
    BY <1>1
  <2>3. ASSUME NEW x \in ToSet(<<e>> \o q) PROVE x \in ToSet(q) \cup {e}
    BY <1>1, <2>1, <2>3 DEF ToSet
  <2>4. ASSUME NEW x \in ToSet(q) PROVE x \in ToSet(<<e>> \o q)
    <3>1. PICK i \in DOMAIN q : x = q[i]
      BY <2>4 DEF ToSet
    <3>2. i + 1 \in DOMAIN (<<e>> \o q) /\ (<<e>> \o q)[i + 1] = x
      BY <1>1, <2>2, <3>1
    <3> QED BY <3>2 DEF ToSet
  <2>5. e \in ToSet(<<e>> \o q)
    <3>1. 1 \in DOMAIN (<<e>> \o q)
      BY <1>1
    <3> QED BY <1>1, <3>1 DEF ToSet
  <2> QED BY <2>3, <2>4, <2>5
<1>3. IsInjective(q) /\ e \notin ToSet(q) => IsInjective(<<e>> \o q)
  <2> SUFFICES ASSUME IsInjective(q), e \notin ToSet(q),
                      NEW i \in 1 .. Len(q) + 1, NEW j \in 1 .. Len(q) + 1,
                      (<<e>> \o q)[i] = (<<e>> \o q)[j]
               PROVE  i = j
    BY <1>1 DEF IsInjective
  <2>1. CASE i = 1
    BY <1>1, <2>1 DEF ToSet
  <2>2. CASE j = 1
    BY <1>1, <2>2 DEF ToSet
  <2>3. CASE i # 1 /\ j # 1
    BY <1>1, <2>3 DEF IsInjective
  <2> QED BY <2>1, <2>2, <2>3
<1> QED BY <1>1, <1>2, <1>3

LEMMA WiderSeq ==
  ASSUME NEW S, NEW T, S \subseteq T, NEW q \in Seq(S)
  PROVE  q \in Seq(T)
OBVIOUS

(* What grow() adds: the blocks of the new slab, each once. *)
LEMMA SlabFacts ==
  ASSUME NEW n \in Nat
  PROVE  /\ Slab(n) \in Seq(n + 1 .. n + SlabSize)
         /\ Slab(n) # <<>>
         /\ ToSet(Slab(n)) = n + 1 .. n + SlabSize
         /\ IsInjective(Slab(n))
<1>1. SlabSize \in Nat /\ SlabSize # 0
  BY SlabSizeAssumption
<1>2. /\ DOMAIN Slab(n) = 1 .. SlabSize
      /\ \A i \in 1 .. SlabSize : /\ Slab(n)[i] = n + SlabSize + 1 - i
                                  /\ Slab(n)[i] \in n + 1 .. n + SlabSize
  BY <1>1 DEF Slab
<1>3. Slab(n) \in Seq(n + 1 .. n + SlabSize) /\ Slab(n) # <<>>
  BY <1>1, <1>2 DEF Slab
<1>4. ToSet(Slab(n)) = n + 1 .. n + SlabSize
  <2>1. \A b \in n + 1 .. n + SlabSize :
          n + SlabSize + 1 - b \in 1 .. SlabSize /\ Slab(n)[n + SlabSize + 1 - b] = b
    BY <1>1, <1>2
  <2> QED BY <1>2, <2>1 DEF ToSet
<1>5. IsInjective(Slab(n))
  BY <1>1, <1>2 DEF IsInjective
<1> QED BY <1>3, <1>4, <1>5

LEMMA RawFacts ==
  ASSUME NEW c \in Seq(Objects \cup {Nothing})
  PROVE  /\ c \o Raw \in Seq(Objects \cup {Nothing})
         /\ DOMAIN (c \o Raw) = 1 .. Len(c) + SlabSize
         /\ \A b \in 1 .. Len(c) : (c \o Raw)[b] = c[b]
         /\ \A b \in Len(c) + 1 .. Len(c) + SlabSize : (c \o Raw)[b] = Nothing
<1>1. /\ Raw \in Seq(Objects \cup {Nothing}) /\ Len(Raw) = SlabSize
      /\ SlabSize \in Nat
      /\ \A i \in 1 .. SlabSize : Raw[i] = Nothing
  BY SlabSizeAssumption DEF Raw
<1> QED BY <1>1

-----------------------------------------------------------------------------
(* The invariant, block by block: what the free list, the hands of the     *)
(* threads and the contents say of it.                                     *)
HandsApart ==
  /\ \A u \in Threads : block[u] # 0 => block[u] \notin ToSet(free)
  /\ \A u, v \in Threads : block[u] = block[v] /\ block[u] # 0 => u = v

EmptyMeansSpare ==
  \A b \in DOMAIN contents :
    contents[b] = Nothing <=> b \in ToSet(free) \/ \E u \in Threads : block[u] = b

PoolInv ==
  /\ PoolTypeOK
  /\ IsInjective(free)
  /\ HandsApart
  /\ EmptyMeansSpare

LEMMA PoolFacts ==
  ASSUME PoolInv
  PROVE  /\ contents \in Seq(Objects \cup {Nothing})
         /\ Len(contents) \in Nat /\ DOMAIN contents = 1 .. Len(contents)
         /\ 0 \notin DOMAIN contents
         /\ free \in Seq(DOMAIN contents) /\ IsInjective(free)
         /\ ToSet(free) \subseteq DOMAIN contents
         /\ block \in [Threads -> {0} \cup DOMAIN contents]
         /\ HandsApart /\ EmptyMeansSpare
BY EmptyQueue DEF PoolInv, PoolTypeOK

LEMMA PoolInitHolds == PoolInit => PoolInv
<1> SUFFICES ASSUME PoolInit PROVE PoolInv
  OBVIOUS
<1>1. /\ Raw \in Seq(Objects \cup {Nothing}) /\ DOMAIN Raw = 1 .. SlabSize
      /\ \A i \in 1 .. SlabSize : Raw[i] = Nothing
      /\ SlabSize \in Nat
  BY SlabSizeAssumption DEF Raw
<1>2. 0 \in Nat /\ 0 + 1 = 1 /\ 0 + SlabSize = SlabSize
  BY <1>1
<1>3. /\ Slab(0) \in Seq(0 + 1 .. 0 + SlabSize) /\ ToSet(Slab(0)) = 0 + 1 .. 0 + SlabSize
      /\ IsInjective(Slab(0))
  BY <1>2, SlabFacts
<1>4. /\ contents = Raw /\ free = Slab(0) /\ block = [t \in Threads |-> 0]
      /\ free \in Seq(1 .. SlabSize) /\ ToSet(free) = 1 .. SlabSize /\ IsInjective(free)
  BY <1>2, <1>3 DEF PoolInit
<1>5. PoolTypeOK
  BY <1>1, <1>4 DEF PoolTypeOK
<1>6. HandsApart /\ EmptyMeansSpare
  BY <1>1, <1>4 DEF HandsApart, EmptyMeansSpare
<1> QED BY <1>4, <1>5, <1>6 DEF PoolInv

(* The pool as allocate() finds it after grow(), if it had to grow: the    *)
(* invariant holds of it, and its free list is not empty.                  *)
GrownFree     == IF free = <<>> THEN Slab(Len(contents)) ELSE free
GrownContents == IF free = <<>> THEN contents \o Raw ELSE contents

LEMMA GrownPool ==
  ASSUME PoolInv, NEW list, NEW c, list = GrownFree, c = GrownContents
  PROVE  /\ c \in Seq(Objects \cup {Nothing})
         /\ DOMAIN contents \subseteq DOMAIN c
         /\ list \in Seq(DOMAIN c) /\ list # <<>> /\ IsInjective(list)
         /\ \A u \in Threads : block[u] # 0 => block[u] \notin ToSet(list)
         /\ \A b \in DOMAIN c :
              c[b] = Nothing <=> b \in ToSet(list) \/ \E u \in Threads : block[u] = b
<1>1. CASE free # <<>>
  BY <1>1, PoolFacts DEF HandsApart, EmptyMeansSpare, GrownFree, GrownContents
<1>2. CASE free = <<>>
  <2>1. /\ list = Slab(Len(contents)) /\ c = contents \o Raw /\ ToSet(free) = {}
        /\ SlabSize \in Nat
    BY <1>2, PoolFacts, EmptyQueue, SlabSizeAssumption DEF GrownFree, GrownContents
  <2>2. /\ c \in Seq(Objects \cup {Nothing})
        /\ DOMAIN c = 1 .. Len(contents) + SlabSize
        /\ \A b \in 1 .. Len(contents) : c[b] = contents[b]
        /\ \A b \in Len(contents) + 1 .. Len(contents) + SlabSize : c[b] = Nothing
    BY <2>1, PoolFacts, RawFacts
  <2>3. /\ list \in Seq(Len(contents) + 1 .. Len(contents) + SlabSize) /\ list # <<>>
        /\ ToSet(list) = Len(contents) + 1 .. Len(contents) + SlabSize
        /\ IsInjective(list)
    BY <2>1, PoolFacts, SlabFacts
  <2>4. Len(contents) \in Nat /\ DOMAIN contents = 1 .. Len(contents)
    BY PoolFacts
  <2>5. \A u \in Threads : block[u] # 0 => block[u] \in 1 .. Len(contents)
    BY <2>4, PoolFacts
  <2>6. /\ Len(contents) + 1 .. Len(contents) + SlabSize \subseteq DOMAIN c
        /\ DOMAIN contents \subseteq DOMAIN c
    BY <2>1, <2>2, <2>4
  <2>7. list \in Seq(DOMAIN c)
    BY <2>3, <2>6, WiderSeq
  <2>8. ASSUME NEW b \in DOMAIN c
        PROVE  c[b] = Nothing <=> b \in ToSet(list) \/ \E u \in Threads : block[u] = b
    <3>1. CASE b \in 1 .. Len(contents)
      <4>1. c[b] = contents[b] /\ b \notin ToSet(list) /\ b \in DOMAIN contents
        <5>1. b \notin Len(contents) + 1 .. Len(contents) + SlabSize
          BY <2>1, <2>4, <3>1
        <5> QED BY <2>2, <2>3, <2>4, <3>1, <5>1
      <4>2. contents[b] = Nothing <=> \E u \in Threads : block[u] = b
        BY <2>1, <4>1, PoolFacts DEF EmptyMeansSpare
      <4> QED BY <4>1, <4>2
    <3>2. CASE b \in Len(contents) + 1 .. Len(contents) + SlabSize
      BY <2>2, <2>3, <3>2
    <3> QED BY <2>1, <2>2, <2>4, <3>1, <3>2
  <2>9. \A u \in Threads : block[u] # 0 => block[u] \notin ToSet(list)
    <3>1. \A b \in 1 .. Len(contents) : b \notin Len(contents) + 1 .. Len(contents) + SlabSize
      BY <2>1, <2>4
    <3> QED BY <2>3, <2>5, <3>1
  <2> QED BY <2>2, <2>3, <2>6, <2>7, <2>8, <2>9
<1> QED BY <1>1, <1>2

LEMMA PopBlockKeeps ==
  ASSUME PoolInv, NEW t \in Threads, PopBlock(t)
  PROVE  PoolInv'
<1> DEFINE list == GrownFree
<1>1. /\ block[t] = 0 /\ block' = [block EXCEPT ![t] = Head(list)] /\ free' = Tail(list)
      /\ contents' = GrownContents
  BY DEF PopBlock, GrownFree, GrownContents
<1>2. /\ contents' \in Seq(Objects \cup {Nothing})
      /\ DOMAIN contents \subseteq DOMAIN contents'
      /\ list \in Seq(DOMAIN contents') /\ list # <<>> /\ IsInjective(list)
      /\ \A u \in Threads : block[u] # 0 => block[u] \notin ToSet(list)
      /\ \A b \in DOMAIN contents' :
           contents'[b] = Nothing <=> b \in ToSet(list) \/ \E u \in Threads : block[u] = b
  BY <1>1, GrownPool
<1> HIDE DEF list
<1>3. /\ Tail(list) \in Seq(DOMAIN contents') /\ Head(list) \in DOMAIN contents'
      /\ Head(list) \in ToSet(list)
      /\ IsInjective(Tail(list)) /\ ToSet(Tail(list)) = ToSet(list) \ {Head(list)}
  BY <1>2, PopQueue
<1>4. /\ \A u \in Threads : block'[u] = IF u = t THEN Head(list) ELSE block[u]
      /\ block' \in [Threads -> {0} \cup DOMAIN contents']
  BY <1>1, <1>2, <1>3, PoolFacts
<1>5. Head(list) # 0
  BY <1>2, <1>3
<1>6. PoolTypeOK' /\ IsInjective(free')
  BY <1>1, <1>2, <1>3, <1>4 DEF PoolTypeOK
<1>7. HandsApart'
  <2>1. \A u \in Threads : block'[u] # 0 => block'[u] \notin ToSet(free')
    BY <1>1, <1>2, <1>3, <1>4
  <2>2. ASSUME NEW u \in Threads, NEW v \in Threads, block'[u] = block'[v], block'[u] # 0
        PROVE  u = v
    <3>1. \A w \in Threads : block[w] # Head(list)
      BY <1>2, <1>3, <1>5
    <3>2. CASE u # t /\ v # t
      BY <1>4, <2>2, <3>2, PoolFacts DEF HandsApart
    <3>3. CASE u = t \/ v = t
      BY <1>4, <2>2, <3>1, <3>3
    <3> QED BY <3>2, <3>3
  <2> QED BY <2>1, <2>2 DEF HandsApart
<1>8. EmptyMeansSpare'
  <2> SUFFICES ASSUME NEW b \in DOMAIN contents'
               PROVE  contents'[b] = Nothing
                        <=> b \in ToSet(free') \/ \E u \in Threads : block'[u] = b
    BY DEF EmptyMeansSpare
  <2>1. CASE b = Head(list)
    BY <1>2, <1>3, <1>4, <2>1
  <2>2. CASE b # Head(list)
    <3>1. b \in ToSet(free') <=> b \in ToSet(list)
      BY <1>1, <1>3, <2>2
    <3>2. b # 0
      BY <1>2
    <3>3. (\E u \in Threads : block'[u] = b) <=> (\E u \in Threads : block[u] = b)
      BY <1>1, <1>4, <2>2, <3>2
    <3> QED BY <1>2, <3>1, <3>3
  <2> QED BY <2>1, <2>2
<1> QED BY <1>6, <1>7, <1>8 DEF PoolInv

LEMMA ConstructKeeps ==
  ASSUME PoolInv, NEW t \in Threads, NEW x \in Objects, Construct(t, x)
  PROVE  PoolInv'
<1>1. /\ contents' = [contents EXCEPT ![block[t]] = x] /\ free' = free
      /\ block' = [block EXCEPT ![t] = 0] /\ block[t] # 0
  BY DEF Construct
<1>2. block[t] \in DOMAIN contents /\ x # Nothing
  BY <1>1, PoolFacts, NothingAssumption
<1>3. /\ contents' \in Seq(Objects \cup {Nothing}) /\ DOMAIN contents' = DOMAIN contents
      /\ \A b \in DOMAIN contents : contents'[b] = IF b = block[t] THEN x ELSE contents[b]
      /\ \A u \in Threads : block'[u] = IF u = t THEN 0 ELSE block[u]
      /\ block' \in [Threads -> {0} \cup DOMAIN contents]
  BY <1>1, <1>2, PoolFacts
<1>4. PoolTypeOK' /\ IsInjective(free')
  BY <1>1, <1>3, PoolFacts DEF PoolTypeOK
<1>5. HandsApart'
  BY <1>1, <1>3, PoolFacts DEF HandsApart
<1>6. EmptyMeansSpare'
  <2> SUFFICES ASSUME NEW b \in DOMAIN contents
               PROVE  contents'[b] = Nothing
                        <=> b \in ToSet(free) \/ \E u \in Threads : block'[u] = b
    BY <1>1, <1>3 DEF EmptyMeansSpare
  <2>1. b # 0
    BY PoolFacts
  <2>2. CASE b = block[t]
    BY <1>1, <1>2, <1>3, <2>1, <2>2, PoolFacts DEF HandsApart
  <2>3. CASE b # block[t]
    BY <1>3, <2>1, <2>3, PoolFacts DEF EmptyMeansSpare
  <2> QED BY <2>2, <2>3
<1> QED BY <1>4, <1>5, <1>6 DEF PoolInv

LEMMA DestroyKeeps ==
  ASSUME PoolInv, NEW t \in Threads, NEW b \in DOMAIN contents,
         contents[b] # Nothing, Destroy(t, b)
  PROVE  PoolInv'
<1>1. /\ contents' = [contents EXCEPT ![b] = Nothing] /\ free' = free
      /\ block' = [block EXCEPT ![t] = b] /\ block[t] = 0
  BY DEF Destroy
<1>2. /\ b # 0 /\ b \notin ToSet(free)
      /\ \A u \in Threads : block[u] # b
  BY PoolFacts DEF EmptyMeansSpare
<1>3. /\ contents' \in Seq(Objects \cup {Nothing}) /\ DOMAIN contents' = DOMAIN contents
      /\ \A c \in DOMAIN contents : contents'[c] = IF c = b THEN Nothing ELSE contents[c]
      /\ \A u \in Threads : block'[u] = IF u = t THEN b ELSE block[u]
      /\ block' \in [Threads -> {0} \cup DOMAIN contents]
  BY <1>1, PoolFacts
<1>4. PoolTypeOK' /\ IsInjective(free')
  BY <1>1, <1>3, PoolFacts DEF PoolTypeOK
<1>5. HandsApart'
  BY <1>1, <1>2, <1>3, PoolFacts DEF HandsApart
<1>6. EmptyMeansSpare'
  <2> SUFFICES ASSUME NEW c \in DOMAIN contents
               PROVE  contents'[c] = Nothing
                        <=> c \in ToSet(free) \/ \E u \in Threads : block'[u] = c
    BY <1>1, <1>3 DEF EmptyMeansSpare
  <2>1. c # 0
    BY PoolFacts
  <2>2. CASE c = b
    BY <1>3, <2>2
  <2>3. CASE c # b
    BY <1>1, <1>3, <2>1, <2>3, PoolFacts DEF EmptyMeansSpare
  <2> QED BY <2>2, <2>3
<1> QED BY <1>4, <1>5, <1>6 DEF PoolInv

LEMMA PushBlockKeeps ==
  ASSUME PoolInv, NEW t \in Threads, PushBlock(t)
  PROVE  PoolInv'
<1>1. /\ contents' = contents /\ free' = <<block[t]>> \o free
      /\ block' = [block EXCEPT ![t] = 0] /\ block[t] # 0
  BY DEF PushBlock
<1>2. block[t] \in DOMAIN contents /\ block[t] \notin ToSet(free)
  BY <1>1, PoolFacts DEF HandsApart
<1>3. /\ free' \in Seq(DOMAIN contents) /\ IsInjective(free')
      /\ ToSet(free') = ToSet(free) \cup {block[t]}
  BY <1>1, <1>2, PoolFacts, PushInFront
<1>4. /\ \A u \in Threads : block'[u] = IF u = t THEN 0 ELSE block[u]
      /\ block' \in [Threads -> {0} \cup DOMAIN contents]
  BY <1>1, PoolFacts
<1>5. PoolTypeOK'
  BY <1>1, <1>3, <1>4, PoolFacts DEF PoolTypeOK
<1>6. HandsApart'
  BY <1>1, <1>3, <1>4, PoolFacts DEF HandsApart
<1>7. EmptyMeansSpare'
  <2> SUFFICES ASSUME NEW b \in DOMAIN contents
               PROVE  contents[b] = Nothing
                        <=> b \in ToSet(free') \/ \E u \in Threads : block'[u] = b
    BY <1>1 DEF EmptyMeansSpare
  <2>1. b # 0
    BY PoolFacts
  <2>2. (b \in ToSet(free') \/ \E u \in Threads : block'[u] = b)
          <=> (b \in ToSet(free) \/ \E u \in Threads : block[u] = b)
    BY <1>1, <1>3, <1>4, <2>1
  <2> QED BY <2>2, PoolFacts DEF EmptyMeansSpare
<1> QED BY <1>3, <1>5, <1>6, <1>7 DEF PoolInv

LEMMA PoolStepKeeps == PoolInv /\ [PoolNext]_poolVars => PoolInv'
<1> SUFFICES ASSUME PoolInv, [PoolNext]_poolVars PROVE PoolInv'
  OBVIOUS
<1>1. CASE PoolNext
  BY <1>1, PopBlockKeeps, ConstructKeeps, DestroyKeeps, PushBlockKeeps DEF PoolNext
<1>2. CASE UNCHANGED poolVars
  BY <1>2 DEF poolVars, PoolInv, PoolTypeOK, HandsApart, EmptyMeansSpare
<1> QED BY <1>1, <1>2

LEMMA PoolInvGives == PoolInv => OnePlaceEachBlock
<1> SUFFICES ASSUME PoolInv PROVE OnePlaceEachBlock
  OBVIOUS
<1> SUFFICES ASSUME NEW b \in DOMAIN contents
             PROVE  /\ b \in ToSet(free) => InHand(b) = {}
                    /\ \A t, u \in InHand(b) : t = u
                    /\ contents[b] = Nothing <=> b \in ToSet(free) \/ InHand(b) # {}
  BY PoolFacts DEF OnePlaceEachBlock
<1>1. b # 0
  BY PoolFacts
<1>2. InHand(b) # {} <=> \E u \in Threads : block[u] = b
  BY DEF InHand
<1> QED BY <1>1, <1>2, PoolFacts DEF InHand, HandsApart, EmptyMeansSpare

(* Whatever the threads that allocate and deallocate do outside the lock,  *)
(* no block is given out twice, freed twice or mislaid (memory_pool.h, 49  *)
(* to 72).                                                                 *)
THEOREM BlocksApart == PoolSpec => []OnePlaceEachBlock
BY PoolInitHolds, PoolStepKeeps, PoolInvGives, PTL DEF PoolSpec

-----------------------------------------------------------------------------
(* The engine. *)

(* The orders held by the local shared_ptr of a submit function. *)
Submitting == {own[t] : t \in {u \in Threads : at[u] \in {"enter", "match", "return"}}}

(* The orders some thread has to dispose of. *)
Dying == UNION {dying[t] : t \in Threads}

(* Ids: each thread's is its own, below the counter, and new to the book   *)
(* until the thread enters it.                                             *)
IdState ==
  /\ nextId \in Nat \ {0}
  /\ at \in [Threads -> Places]
  /\ own \in [Threads -> Ids \cup {None}]
  /\ \A t \in Threads : own[t] # None <=> at[t] \notin {"out", "held"}
  /\ \A t \in Threads : own[t] # None => own[t] < nextId
  /\ \A t, u \in Threads : own[t] = own[u] /\ own[t] # None => t = u
  /\ \A id \in Submitted : id < nextId
  /\ \A t \in Threads : own[t] \in Submitted <=> at[t] \in {"match", "return"}

(* The local batch keeps the stops that are being matched. *)
RoundState ==
  /\ round \subseteq Submitted
  /\ ToSet(batch) \subseteq round
  /\ InLoop => cur \in round \/ \E u \in Threads : at[u] = "match" /\ own[u] = cur

(* Blocks and orders: an order that is referenced or about to be disposed  *)
(* of is in its block, and a block that is not empty holds such an order.  *)
HomeState ==
  /\ home \in [Ids -> Nat]
  /\ dying \in [Threads -> SUBSET Ids]
  /\ \A id \in Referenced \cup Dying : home[id] \in DOMAIN contents /\ contents[home[id]] = id
  /\ \A t \in Threads : dying[t] \cap Referenced = {}
  /\ \A t, u \in Threads : t # u => dying[t] \cap dying[u] = {}
  /\ \A b \in DOMAIN contents : contents[b] # Nothing =>
       contents[b] \in Referenced \cup Dying /\ home[contents[b]] = b

EngineInv ==
  /\ Structure
  /\ PoolInv
  /\ IdState
  /\ RoundState
  /\ HomeState
  /\ Dying \subseteq Submitted

-----------------------------------------------------------------------------
(* What stands in a level is active, so that the book refers to what the   *)
(* stop pipeline, active_ and the local batch hold.                        *)
LEMMA ReferencedOrders ==
  ASSUME Structure
  PROVE  Referenced = ((Held \cup active \cup round) \ modified) \cup Submitting
<1>1. UNION {ToSet(level[s][p]) : s \in Sides, p \in Prices} \subseteq active
  BY DEF Structure, BookIndexed
<1>2. InBook = Held \cup active \cup round
  BY <1>1 DEF InBook, Held
<1> QED BY <1>2 DEF Referenced, Submitting

LEMMA ReferencedOrdersNext ==
  ASSUME Structure'
  PROVE  Referenced' = ((Held' \cup active' \cup round') \ modified') \cup Submitting'
<1>1. UNION {ToSet(level'[s][p]) : s \in Sides, p \in Prices} \subseteq active'
  BY DEF Structure, BookIndexed
<1>2. InBook' = Held' \cup active' \cup round'
  BY <1>1 DEF InBook, Held
<1> QED BY <1>2 DEF Referenced, Submitting

(* All of these are submitted orders, or the order of a thread at the      *)
(* book's door.                                                            *)
LEMMA ReferencedAreIds ==
  ASSUME EngineInv
  PROVE  /\ Submitted \subseteq Ids /\ None \notin Ids
         /\ Submitting \subseteq Ids /\ Referenced \subseteq Ids
         /\ Held \cup active \cup round \cup Dying \subseteq Submitted
         /\ Referenced \subseteq Submitted \cup Submitting
<1>1. Submitted \subseteq Ids /\ None \notin Ids
  BY NoneAssumption DEF Submitted
<1>2. Submitting \subseteq Ids
  BY DEF EngineInv, IdState, Submitting
<1>3. Held \cup active \cup round \cup Dying \subseteq Submitted
  BY StructureFacts DEF EngineInv, RoundState
<1> QED BY <1>1, <1>2, <1>3, ReferencedOrders DEF EngineInv

-----------------------------------------------------------------------------
(* Every step is a step of the book and a step of the pool, or none. *)
LEMMA StepOfTheBook ==
  ASSUME IdState, [EngineNext]_engineVars
  PROVE  [Next]_vars
<1>1. \A t \in Threads : at[t] = "enter" => own[t] \in Ids
  BY DEF IdState
<1>2. CASE UNCHANGED engineVars
  BY <1>2 DEF engineVars
<1>3. ASSUME NEW t \in Threads, Enter(t) PROVE Next
  <2>1. own[t] \in Ids
    BY <1>1, <1>3 DEF Enter, Ready
  <2> QED BY <1>3, <2>1 DEF Enter, Next
<1>4. ASSUME NEW t \in Threads, Match(t) PROVE Next
  BY <1>4 DEF Match, Next
<1>5. ASSUME NEW t \in Threads, NEW id \in Ids, Cancel(t, id) PROVE Next
  BY <1>5 DEF Cancel, Next
<1>6. ASSUME NEW t \in Threads, NEW id \in Ids, NEW a \in Amendments, Modify(t, id, a)
      PROVE  Next
  BY <1>6 DEF Modify, Next
<1>7. ASSUME NEW t \in Threads,
             TakeId(t) \/ Allocate(t) \/ MakeOrder(t) \/ EndRound(t) \/ Return(t) \/ Unlock(t)
               \/ GiveBack(t) \/ \E id \in Ids : Dispose(t, id)
      PROVE  UNCHANGED vars
  BY <1>7 DEF TakeId, Allocate, MakeOrder, EndRound, Return, Unlock, GiveBack, Dispose
<1>8. CASE EngineNext
  BY <1>3, <1>4, <1>5, <1>6, <1>7, <1>8 DEF EngineNext, ThreadStep
<1> QED BY <1>2, <1>8

LEMMA StepOfThePool ==
  ASSUME EngineInv, [EngineNext]_engineVars
  PROVE  [PoolNext]_poolVars
<1>1. CASE UNCHANGED engineVars
  BY <1>1 DEF engineVars
<1>2. ASSUME NEW t \in Threads, Allocate(t) PROVE PoolNext
  BY <1>2 DEF Allocate, PoolNext
<1>3. ASSUME NEW t \in Threads, MakeOrder(t) PROVE PoolNext
  <2>1. own[t] \in Objects
    BY <1>3, ObjectsAssumption DEF MakeOrder, Ready, EngineInv, IdState
  <2> QED BY <1>3, <2>1 DEF MakeOrder, PoolNext
<1>4. ASSUME NEW t \in Threads, GiveBack(t) PROVE PoolNext
  BY <1>4 DEF GiveBack, PoolNext
<1>5. ASSUME NEW t \in Threads, NEW id \in Ids, Dispose(t, id) PROVE PoolNext
  <2>1. id \in Dying
    BY <1>5 DEF Dispose, Dying
  <2>2. home[id] \in DOMAIN contents /\ contents[home[id]] # Nothing
    BY <2>1, NothingAssumption, ObjectsAssumption DEF EngineInv, HomeState
  <2> QED BY <1>5, <2>2 DEF Dispose, PoolNext
<1>6. ASSUME NEW t \in Threads,
             TakeId(t) \/ Enter(t) \/ Match(t) \/ EndRound(t) \/ Return(t) \/ Unlock(t)
               \/ (\E id \in Ids : Cancel(t, id))
               \/ (\E id \in Ids, a \in Amendments : Modify(t, id, a))
      PROVE  UNCHANGED poolVars
  BY <1>6 DEF TakeId, Enter, Match, EndRound, Return, Unlock, Cancel, Modify
<1>7. CASE EngineNext
  BY <1>2, <1>3, <1>4, <1>5, <1>6, <1>7 DEF EngineNext, ThreadStep
<1> QED BY <1>1, <1>7

-----------------------------------------------------------------------------
(* A step that leaves the pool alone and makes thread t answer for the     *)
(* orders it leaves unreferenced keeps every order in its block.           *)
LEMMA DroppingKeeps ==
  ASSUME HomeState, NEW t \in Threads, contents' = contents, home' = home,
         Referenced \subseteq Ids, Referenced' \subseteq Referenced,
         dying' = [dying EXCEPT ![t] = @ \cup (Referenced \ Referenced')]
  PROVE  HomeState' /\ Dying' = Dying \cup (Referenced \ Referenced')
<1>1. /\ dying \in [Threads -> SUBSET Ids]
      /\ \A u \in Threads :
           dying'[u] = IF u = t THEN dying[t] \cup (Referenced \ Referenced') ELSE dying[u]
      /\ dying' \in [Threads -> SUBSET Ids]
  BY DEF HomeState
<1>2. Dying' = Dying \cup (Referenced \ Referenced')
  BY <1>1 DEF Dying
<1>3. Referenced' \cup Dying' = Referenced \cup Dying
  BY <1>2
<1>4. \A u \in Threads : dying'[u] \cap Referenced' = {}
  BY <1>1 DEF HomeState
<1>5. ASSUME NEW u \in Threads, NEW v \in Threads, u # v PROVE dying'[u] \cap dying'[v] = {}
  BY <1>1, <1>5 DEF HomeState
<1>6. /\ home' \in [Ids -> Nat]
      /\ \A id \in Referenced' \cup Dying' :
           home'[id] \in DOMAIN contents' /\ contents'[home'[id]] = id
      /\ \A b \in DOMAIN contents' : contents'[b] # Nothing =>
           contents'[b] \in Referenced' \cup Dying' /\ home'[contents'[b]] = b
  BY <1>3 DEF HomeState
<1> QED BY <1>1, <1>2, <1>4, <1>5, <1>6 DEF HomeState

(* The same of a step that leaves none unreferenced. *)
LEMMA SameReferencesKeep ==
  ASSUME HomeState, contents' = contents, home' = home, dying' = dying,
         Referenced' = Referenced
  PROVE  HomeState' /\ Dying' = Dying
BY DEF HomeState, Dying

-----------------------------------------------------------------------------
(* What the steps of match() move.  They add to the book the order being   *)
(* matched and no other, and take each stop from the batch.                *)
MovesOnly(x) ==
  /\ Submitted' = Submitted
  /\ modified' = modified
  /\ Held' \subseteq Held
  /\ Held' \cup active' \subseteq Held \cup active \cup x

SameLoop ==
  /\ batch' = batch
  /\ InLoop' => InLoop /\ cur' = cur

LEMMA MatchMoves ==
  ASSUME Structure, MatchStep
  PROVE  /\ MovesOnly(IF InLoop THEN {cur} ELSE {})
         /\ \/ SameLoop
            \/ ~InLoop' /\ batch = <<>> /\ ToSet(batch') \subseteq Held
            \/ /\ batch # <<>> /\ cur' \in ToSet(batch)
               /\ ToSet(batch') \subseteq ToSet(batch)
<1>1. ASSUME NEW p \in Prices, NEW r \in Ids, SkipEmpty(p, r)
      PROVE  MovesOnly({}) /\ SameLoop
  BY <1>1 DEF SkipEmpty, MovesOnly, SameLoop, Submitted, Held, stopVars, history, InLoop
<1>2. ASSUME NEW p \in Prices, NEW r \in Ids, Trade(p, r)
      PROVE  MovesOnly({}) /\ SameLoop
  <2>1. Submitted' = Submitted
    BY <1>2, TradeFacts
  <2> QED BY <1>2, <2>1 DEF Trade, Facing, MovesOnly, SameLoop, Held, stopVars, InLoop
<1>3. ASSUME FireStop PROVE MovesOnly({}) /\ SameLoop
  <2>1. Submitted' = Submitted /\ Held' = Held
    BY <1>3, FireStopFacts
  <2> QED BY <1>3, <2>1 DEF FireStop, MovesOnly, SameLoop, history, InLoop
<1>4. ASSUME TriggersDone \/ SettlePartial \/ EndMatch PROVE MovesOnly({}) /\ SameLoop
  BY <1>4 DEF TriggersDone, SettlePartial, EndMatch, MovesOnly, SameLoop, Submitted, Held,
              bookVars, stopVars, history, InLoop
<1>5. ASSUME SettleFilled PROVE MovesOnly({}) /\ SameLoop
  BY <1>5 DEF SettleFilled, MovesOnly, SameLoop, Submitted, Held, stopVars, history, InLoop
<1>6. ASSUME SettleIceberg PROVE MovesOnly({}) /\ SameLoop
  <2>1. Submitted' = Submitted
    BY <1>6, SettleIcebergFacts
  <2> QED BY <1>6, <2>1 DEF SettleIceberg, MovesOnly, SameLoop, Held, stopVars, history, InLoop
<1>7. ASSUME FinishMatch PROVE MovesOnly({cur}) /\ InLoop /\ SameLoop
  BY <1>7 DEF FinishMatch, AddToBook, MovesOnly, SameLoop, Submitted, Held, stopVars, history,
              InLoop
<1>8. ASSUME TakeBatch
      PROVE  MovesOnly({}) /\ ~InLoop' /\ batch = <<>> /\ ToSet(batch') \subseteq Held
  <2>1. Held' = Held
    BY <1>8, TakeBatchFacts
  <2> QED BY <1>8, <2>1 DEF TakeBatch, MovesOnly, Submitted, Held, bookVars, history, InLoop
<1>9. ASSUME MatchStop
      PROVE  /\ MovesOnly({}) /\ batch # <<>> /\ cur' \in ToSet(batch)
             /\ ToSet(batch') \subseteq ToSet(batch)
  <2>1. /\ cur' \in ToSet(batch) /\ ToSet(batch') = ToSet(batch) \ {cur'}
        /\ batch # <<>>
    BY <1>9, PopQueue DEF MatchStop, Structure, TypeOK, OnePlaceEach
  <2> QED BY <1>9, <2>1 DEF MatchStop, MovesOnly, Submitted, Held, bookVars, history
<1> QED
  BY <1>1, <1>2, <1>3, <1>4, <1>5, <1>6, <1>7, <1>8, <1>9 DEF MatchStep, MovesOnly

-----------------------------------------------------------------------------
(* What each step of a thread keeps. *)
Kept == IdState' /\ RoundState' /\ HomeState' /\ Dying' \subseteq Submitted'

(* The facts of the invariant that all of these steps use. *)
LEMMA EngineFacts ==
  ASSUME EngineInv
  PROVE  /\ Structure /\ IdState /\ RoundState /\ HomeState
         /\ Ids \subseteq Nat \ {0} /\ None \notin Ids
         /\ Submitted \subseteq Ids /\ Dying \subseteq Submitted
         /\ Referenced \subseteq Ids
         /\ Held \cup active \cup round \subseteq Submitted
BY ReferencedAreIds, IdsAssumption DEF EngineInv

LEMMA TakeIdKeeps ==
  ASSUME EngineInv, Structure', NEW t \in Threads, TakeId(t)
  PROVE  Kept
<1> USE EngineFacts
<1>1. /\ at[t] = "out" /\ nextId \in Ids /\ nextId' = nextId + 1
      /\ own' = [own EXCEPT ![t] = nextId] /\ at' = [at EXCEPT ![t] = "allocate"]
      /\ UNCHANGED <<vars, poolVars, home, round, dying>>
  BY DEF TakeId, Ready
<1>2. /\ \A u \in Threads : own'[u] = IF u = t THEN nextId ELSE own[u]
      /\ \A u \in Threads : at'[u] = IF u = t THEN "allocate" ELSE at[u]
  BY <1>1 DEF IdState
<1>3. Submitted' = Submitted /\ InLoop' = InLoop /\ Held' = Held
  BY <1>1 DEF vars, bookVars, stopVars, Submitted, InLoop, Held
<1>4. IdState'
  BY <1>1, <1>2, <1>3 DEF IdState, Places
<1>5. RoundState'
  BY <1>1, <1>2, <1>3 DEF RoundState, vars, stopVars
<1>6. Submitting' = Submitting
  BY <1>1, <1>2 DEF Submitting
<1>7. Referenced' = Referenced
  BY <1>1, <1>3, <1>6, ReferencedOrders, ReferencedOrdersNext DEF vars, bookVars, history
<1>8. HomeState' /\ Dying' = Dying
  BY <1>1, <1>7, SameReferencesKeep DEF poolVars
<1> QED BY <1>3, <1>4, <1>5, <1>8 DEF Kept

LEMMA UnlockKeeps ==
  ASSUME EngineInv, Structure', NEW t \in Threads, Unlock(t)
  PROVE  Kept
<1> USE EngineFacts
<1>1. /\ at[t] = "held" /\ at' = [at EXCEPT ![t] = "out"]
      /\ UNCHANGED <<vars, poolVars, nextId, own, home, round, dying>>
  BY DEF Unlock, Ready
<1>2. \A u \in Threads : at'[u] = IF u = t THEN "out" ELSE at[u]
  BY <1>1 DEF IdState
<1>3. Submitted' = Submitted /\ InLoop' = InLoop /\ Held' = Held
  BY <1>1 DEF vars, bookVars, stopVars, Submitted, InLoop, Held
<1>4. IdState'
  BY <1>1, <1>2, <1>3 DEF IdState, Places
<1>5. RoundState'
  BY <1>1, <1>2, <1>3 DEF RoundState, vars, stopVars
<1>6. Submitting' = Submitting
  BY <1>1, <1>2 DEF Submitting
<1>7. Referenced' = Referenced
  BY <1>1, <1>3, <1>6, ReferencedOrders, ReferencedOrdersNext DEF vars, bookVars, history
<1>8. HomeState' /\ Dying' = Dying
  BY <1>1, <1>7, SameReferencesKeep DEF poolVars
<1> QED BY <1>3, <1>4, <1>5, <1>8 DEF Kept

LEMMA EnterKeeps ==
  ASSUME EngineInv, Structure', NEW t \in Threads, Enter(t)
  PROVE  Kept
<1> USE EngineFacts
<1> DEFINE x == own[t]
<1>1. /\ at[t] = "enter" /\ x \in Ids /\ x < nextId
      /\ UNCHANGED <<poolVars, nextId, own, home, round, dying>>
  BY DEF Enter, Ready, IdState
<1>2. PICK r \in Requests :
        \/ HoldStop(x, r)   /\ at' = [at EXCEPT ![t] = "return"]
        \/ BeginMatch(x, r) /\ at' = [at EXCEPT ![t] = "match"]
  BY DEF Enter
<1>3. /\ Submitted' = Submitted \cup {x} /\ modified' = modified /\ active' = active
      /\ batch' = batch
      /\ Held' \subseteq Held \cup {x} /\ Held \subseteq Held'
  <2>1. Submitted' = Submitted \cup {x}
    BY <1>1, <1>2, ArrivalFacts
  <2>2. CASE HoldStop(x, r)
    BY <1>1, <2>1, <2>2, HoldStopFacts DEF HoldStop
  <2>3. CASE BeginMatch(x, r)
    BY <2>1, <2>3 DEF BeginMatch, Held, stopVars, history
  <2> QED BY <1>2, <2>2, <2>3
<1>4. /\ at'[t] \in {"match", "return"} /\ \A u \in Threads \ {t} : at'[u] = at[u]
      /\ at' \in [Threads -> Places]
  BY <1>2 DEF IdState, Places
<1>5. \/ ~InLoop'
      \/ cur' = x /\ at'[t] = "match"
  BY <1>2 DEF HoldStop, BeginMatch, InLoop, IdState
<1>6. IdState'
  BY <1>1, <1>3, <1>4 DEF IdState
<1>7. RoundState'
  BY <1>1, <1>3, <1>5 DEF RoundState
<1>8. Submitting' = Submitting /\ x \in Submitting
  <2>1. Submitting' \subseteq Submitting
    BY <1>1, <1>4 DEF Submitting
  <2>2. Submitting \subseteq Submitting'
    BY <1>1, <1>4 DEF Submitting
  <2>3. x \in Submitting
    BY <1>1 DEF Submitting
  <2> QED BY <2>1, <2>2, <2>3
<1>9. Referenced' = Referenced
  BY <1>1, <1>3, <1>8, ReferencedOrders, ReferencedOrdersNext
<1>10. HomeState' /\ Dying' = Dying
  BY <1>1, <1>9, SameReferencesKeep DEF poolVars
<1> QED BY <1>3, <1>6, <1>7, <1>10 DEF Kept

LEMMA MatchKeeps ==
  ASSUME EngineInv, Structure', NEW t \in Threads, Match(t)
  PROVE  Kept
<1> USE EngineFacts
<1> DEFINE new == batch = <<>> /\ batch' # <<>>
           taker == IF InLoop THEN {cur} ELSE {}
<1>1. /\ at[t] = "match" /\ MatchStep
      /\ round' = IF new THEN ToSet(batch') ELSE round
      /\ phase = "drain" /\ batch = <<>> => round = {}
      /\ at' = IF phase' = "idle" THEN [at EXCEPT ![t] = "return"] ELSE at
      /\ dying' = [dying EXCEPT ![t] = @ \cup (Referenced \ Referenced')]
      /\ UNCHANGED <<poolVars, nextId, own, home>>
  BY DEF Match, Ready, DropReferences
<1>2. /\ Submitted' = Submitted /\ modified' = modified
      /\ Held' \cup active' \subseteq Held \cup active \cup taker
      /\ \/ SameLoop
         \/ ~InLoop' /\ batch = <<>> /\ ToSet(batch') \subseteq Held
         \/ batch # <<>> /\ cur' \in ToSet(batch) /\ ToSet(batch') \subseteq ToSet(batch)
  BY <1>1, MatchMoves DEF MovesOnly
<1>3. /\ \A u \in Threads : at'[u] = at[u] \/ (u = t /\ at'[u] = "return" /\ phase' = "idle")
      /\ at' \in [Threads -> Places]
  BY <1>1 DEF IdState, Places
<1>4. IdState'
  BY <1>1, <1>2, <1>3 DEF IdState
<1>5. batch' = <<>> => ToSet(batch') = {}
  BY EmptyQueue DEF Structure, TypeOK
<1>6. round' \subseteq round \cup Held
  BY <1>1, <1>2 DEF SameLoop
<1>7. ToSet(batch') \subseteq round'
  BY <1>1, <1>2, <1>5 DEF RoundState, SameLoop
<1>8. InLoop' => cur' \in round' \/ \E u \in Threads : at'[u] = "match" /\ own'[u] = cur'
  <2> SUFFICES ASSUME InLoop'
               PROVE  cur' \in round' \/ \E u \in Threads : at'[u] = "match" /\ own'[u] = cur'
    OBVIOUS
  <2>1. at' = at /\ own' = own
    BY <1>1 DEF InLoop
  <2>2. round' = round
    BY <1>1, <1>2 DEF SameLoop
  <2> QED BY <1>2, <2>1, <2>2 DEF RoundState, SameLoop
<1>9. RoundState'
  BY <1>2, <1>6, <1>7, <1>8 DEF RoundState
<1>10. Submitting' = Submitting
  BY <1>1, <1>3 DEF Submitting
<1>11. taker \subseteq round \cup Submitting
  BY DEF RoundState, Submitting
<1>12. Referenced' \subseteq Referenced
  BY <1>2, <1>6, <1>10, <1>11, ReferencedOrders, ReferencedOrdersNext
<1>13. Referenced \ Referenced' \subseteq Submitted
  BY <1>10, ReferencedOrders, ReferencedOrdersNext
<1>14. HomeState' /\ Dying' = Dying \cup (Referenced \ Referenced')
  BY <1>1, <1>12, DroppingKeeps DEF poolVars
<1> QED BY <1>2, <1>4, <1>9, <1>13, <1>14 DEF Kept

LEMMA EndRoundKeeps ==
  ASSUME EngineInv, Structure', NEW t \in Threads, EndRound(t)
  PROVE  Kept
<1> USE EngineFacts
<1>1. /\ phase = "drain" /\ batch = <<>> /\ round' = {}
      /\ dying' = [dying EXCEPT ![t] = @ \cup (Referenced \ Referenced')]
      /\ UNCHANGED <<vars, poolVars, nextId, at, own, home>>
  BY DEF EndRound, DropReferences
<1>2. /\ Submitted' = Submitted /\ Held' = Held /\ active' = active /\ modified' = modified
      /\ batch' = <<>> /\ ~InLoop' /\ Submitting' = Submitting
  BY <1>1 DEF vars, bookVars, stopVars, history, Submitted, InLoop, Held, Submitting
<1>3. IdState'
  BY <1>1, <1>2 DEF IdState
<1>4. RoundState'
  <2>1. ToSet(batch') = {}
    BY <1>2, EmptyQueue DEF Structure, TypeOK
  <2> QED BY <1>1, <1>2, <2>1 DEF RoundState
<1>5. Referenced' \subseteq Referenced /\ Referenced \ Referenced' \subseteq Submitted
  BY <1>1, <1>2, ReferencedOrders, ReferencedOrdersNext
<1>6. HomeState' /\ Dying' = Dying \cup (Referenced \ Referenced')
  BY <1>1, <1>5, DroppingKeeps DEF poolVars
<1> QED BY <1>2, <1>3, <1>4, <1>5, <1>6 DEF Kept

LEMMA ReturnKeeps ==
  ASSUME EngineInv, Structure', NEW t \in Threads, Return(t)
  PROVE  Kept
<1> USE EngineFacts
<1>1. /\ at[t] = "return" /\ at' = [at EXCEPT ![t] = "out"] /\ own' = [own EXCEPT ![t] = None]
      /\ dying' = [dying EXCEPT ![t] = @ \cup (Referenced \ Referenced')]
      /\ UNCHANGED <<vars, poolVars, nextId, home, round>>
  BY DEF Return, Ready, DropReferences
<1>2. /\ \A u \in Threads : own'[u] = IF u = t THEN None ELSE own[u]
      /\ \A u \in Threads : at'[u] = IF u = t THEN "out" ELSE at[u]
      /\ own[t] \in Submitted
  BY <1>1 DEF IdState
<1>3. /\ Submitted' = Submitted /\ Held' = Held /\ active' = active /\ modified' = modified
      /\ batch' = batch /\ InLoop' = InLoop /\ cur' = cur
  BY <1>1 DEF vars, bookVars, stopVars, history, Submitted, InLoop, Held
<1>4. IdState'
  BY <1>1, <1>2, <1>3 DEF IdState, Places
<1>5. RoundState'
  BY <1>1, <1>2, <1>3 DEF RoundState
<1>6. Submitting' \subseteq Submitting /\ Submitting \subseteq Submitting' \cup {own[t]}
  BY <1>2 DEF Submitting
<1>7. Referenced' \subseteq Referenced /\ Referenced \ Referenced' \subseteq Submitted
  BY <1>1, <1>2, <1>3, <1>6, ReferencedOrders, ReferencedOrdersNext
<1>8. HomeState' /\ Dying' = Dying \cup (Referenced \ Referenced')
  BY <1>1, <1>7, DroppingKeeps DEF poolVars
<1> QED BY <1>3, <1>4, <1>5, <1>7, <1>8 DEF Kept

(* cancelOrder() and modifyOrder() alike. *)
BookCall(t) ==
  /\ Ready(t, "out")
  /\ \/ \E id \in Ids : CancelOrder(id)
     \/ \E id \in Ids, a \in Amendments : ModifyOrder(id, a)
  /\ at' = [at EXCEPT ![t] = "held"]
  /\ UNCHANGED <<poolVars, nextId, own, home, round, before>>
  /\ DropReferences(t)

LEMMA BookCallKeeps ==
  ASSUME EngineInv, Structure', NEW t \in Threads, BookCall(t)
  PROVE  Kept
<1> USE EngineFacts
<1>1. /\ at[t] = "out" /\ at' = [at EXCEPT ![t] = "held"]
      /\ dying' = [dying EXCEPT ![t] = @ \cup (Referenced \ Referenced')]
      /\ UNCHANGED <<poolVars, nextId, own, home, round>>
  BY DEF BookCall, Ready, DropReferences
<1>2. \A u \in Threads : at'[u] = IF u = t THEN "held" ELSE at[u]
  BY <1>1 DEF IdState
<1>3. /\ Submitted' = Submitted /\ Held' = Held /\ active' \subseteq active
      /\ modified \subseteq modified' /\ batch' = batch /\ ~InLoop'
  <2>1. ASSUME NEW id \in Ids, CancelOrder(id)
        PROVE  /\ Submitted' = Submitted /\ Held' = Held /\ active' \subseteq active
               /\ modified \subseteq modified' /\ batch' = batch /\ ~InLoop'
    BY <2>1, CancelFacts DEF CancelOrder, stopVars, history, Held, InLoop
  <2>2. ASSUME NEW id \in Ids, NEW a \in Amendments, ModifyOrder(id, a)
        PROVE  /\ Submitted' = Submitted /\ Held' = Held /\ active' \subseteq active
               /\ modified \subseteq modified' /\ batch' = batch /\ ~InLoop'
    BY <2>2, ModifyFacts DEF ModifyOrder, stopVars, history, Held, InLoop
  <2> QED BY <2>1, <2>2 DEF BookCall
<1>4. IdState'
  BY <1>1, <1>2, <1>3 DEF IdState, Places
<1>5. RoundState'
  BY <1>1, <1>3 DEF RoundState
<1>6. Submitting' = Submitting
  BY <1>1, <1>2 DEF Submitting
<1>7. Referenced' \subseteq Referenced /\ Referenced \ Referenced' \subseteq Submitted
  BY <1>1, <1>3, <1>6, ReferencedOrders, ReferencedOrdersNext
<1>8. HomeState' /\ Dying' = Dying \cup (Referenced \ Referenced')
  BY <1>1, <1>7, DroppingKeeps DEF poolVars
<1> QED BY <1>3, <1>4, <1>5, <1>7, <1>8 DEF Kept

-----------------------------------------------------------------------------
(* The steps in the pool. *)

(* A block that allocate() takes, from a new slab or not, changes no other. *)
LEMMA PopBlockContents ==
  ASSUME PoolInv, NEW t \in Threads, PopBlock(t)
  PROVE  /\ DOMAIN contents \subseteq DOMAIN contents'
         /\ \A b \in DOMAIN contents : contents'[b] = contents[b]
         /\ \A b \in DOMAIN contents' : b \notin DOMAIN contents => contents'[b] = Nothing
<1>1. CASE free # <<>>
  BY <1>1 DEF PopBlock
<1>2. CASE free = <<>>
  <2>1. contents' = contents \o Raw
    BY <1>2 DEF PopBlock
  <2>2. /\ DOMAIN contents' = 1 .. Len(contents) + SlabSize
        /\ \A b \in 1 .. Len(contents) : contents'[b] = contents[b]
        /\ \A b \in Len(contents) + 1 .. Len(contents) + SlabSize : contents'[b] = Nothing
    BY <2>1, PoolFacts, RawFacts
  <2>3. Len(contents) \in Nat /\ DOMAIN contents = 1 .. Len(contents) /\ SlabSize \in Nat
    BY PoolFacts, SlabSizeAssumption
  <2>4. /\ 1 .. Len(contents) \subseteq 1 .. Len(contents) + SlabSize
        /\ \A b \in 1 .. Len(contents) + SlabSize :
             b \notin 1 .. Len(contents) => b \in Len(contents) + 1 .. Len(contents) + SlabSize
    BY <2>3
  <2> QED BY <2>2, <2>3, <2>4
<1> QED BY <1>1, <1>2

(* A step of a thread that changes neither the book nor who submits what. *)
LEMMA PoolStepKeepsIds ==
  ASSUME EngineInv, Structure', NEW t \in Threads, UNCHANGED <<vars, nextId, own, round>>,
         at' = at \/ (at[t] = "allocate" /\ at' = [at EXCEPT ![t] = "construct"])
                  \/ (at[t] = "construct" /\ at' = [at EXCEPT ![t] = "enter"])
  PROVE  /\ IdState' /\ RoundState' /\ Submitted' = Submitted
         /\ Referenced' = ((Held \cup active \cup round) \ modified) \cup Submitting'
<1> USE EngineFacts
<1>1. /\ \A u \in Threads : u # t => at'[u] = at[u]
      /\ at'[t] = at[t] \/ (at[t] \in {"allocate", "construct"} /\ at'[t] \in {"construct", "enter"})
      /\ at' \in [Threads -> Places]
  BY DEF IdState, Places
<1>2. /\ Submitted' = Submitted /\ Held' = Held /\ active' = active /\ modified' = modified
      /\ batch' = batch /\ InLoop' = InLoop /\ cur' = cur
  BY DEF vars, bookVars, stopVars, history, Submitted, InLoop, Held
<1>3. IdState'
  BY <1>1, <1>2 DEF IdState
<1>4. RoundState'
  BY <1>1, <1>2 DEF RoundState
<1> QED BY <1>2, <1>3, <1>4, ReferencedOrdersNext

LEMMA AllocateKeeps ==
  ASSUME EngineInv, Structure', NEW t \in Threads, Allocate(t)
  PROVE  Kept
<1> USE EngineFacts
<1>1. /\ PopBlock(t) /\ at[t] = "allocate" /\ at' = [at EXCEPT ![t] = "construct"]
      /\ UNCHANGED <<vars, nextId, own, home, round, dying>>
  BY DEF Allocate, Ready
<1>2. /\ IdState' /\ RoundState' /\ Submitted' = Submitted
      /\ Referenced' = ((Held \cup active \cup round) \ modified) \cup Submitting'
  BY <1>1, PoolStepKeepsIds
<1>3. Submitting' = Submitting
  BY <1>1 DEF Submitting, IdState
<1>4. Referenced' = Referenced /\ Dying' = Dying
  BY <1>1, <1>2, <1>3, ReferencedOrders DEF Dying
<1>5. /\ DOMAIN contents \subseteq DOMAIN contents'
      /\ \A b \in DOMAIN contents : contents'[b] = contents[b]
      /\ \A b \in DOMAIN contents' : b \notin DOMAIN contents => contents'[b] = Nothing
  BY <1>1, PopBlockContents DEF EngineInv
<1>6. HomeState'
  BY <1>1, <1>4, <1>5 DEF HomeState
<1> QED BY <1>2, <1>4, <1>6 DEF Kept

LEMMA MakeOrderKeeps ==
  ASSUME EngineInv, Structure', NEW t \in Threads, MakeOrder(t)
  PROVE  Kept
<1> USE EngineFacts
<1> DEFINE x == own[t]
           b == block[t]
<1>1. /\ at[t] = "construct" /\ at' = [at EXCEPT ![t] = "enter"]
      /\ contents' = [contents EXCEPT ![b] = x] /\ home' = [home EXCEPT ![x] = b] /\ b # 0
      /\ UNCHANGED <<vars, nextId, own, round, dying>>
  BY DEF MakeOrder, Construct, Ready
<1>2. /\ IdState' /\ RoundState' /\ Submitted' = Submitted
      /\ Referenced' = ((Held \cup active \cup round) \ modified) \cup Submitting'
  BY <1>1, PoolStepKeepsIds
<1>3. x \in Ids /\ x \notin Submitted /\ x \notin Submitting
  BY <1>1 DEF IdState, Submitting
<1>4. Submitting' = Submitting \cup {x}
  <2>1. \A u \in Threads : at'[u] = IF u = t THEN "enter" ELSE at[u]
    BY <1>1 DEF IdState
  <2>2. Submitting' \subseteq Submitting \cup {x}
    BY <1>1, <2>1 DEF Submitting
  <2>3. Submitting \cup {x} \subseteq Submitting'
    BY <1>1, <2>1 DEF Submitting
  <2> QED BY <2>2, <2>3
<1>5. Referenced' = Referenced \cup {x} /\ Dying' = Dying /\ x \notin Referenced \cup Dying
  BY <1>1, <1>2, <1>3, <1>4, ReferencedOrders DEF Dying
<1>6. b \in DOMAIN contents /\ contents[b] = Nothing /\ b \in Nat
  BY <1>1, PoolFacts DEF EmptyMeansSpare, EngineInv
<1>7. /\ DOMAIN contents' = DOMAIN contents
      /\ \A c \in DOMAIN contents : contents'[c] = IF c = b THEN x ELSE contents[c]
      /\ \A id \in Ids : home'[id] = IF id = x THEN b ELSE home[id]
      /\ home' \in [Ids -> Nat]
  BY <1>1, <1>3, <1>6, PoolFacts DEF EngineInv, HomeState
<1>8. Nothing \notin Ids
  BY NothingAssumption, ObjectsAssumption
<1> HIDE DEF x, b
<1>9. ASSUME NEW id \in Referenced' \cup Dying'
      PROVE  home'[id] \in DOMAIN contents' /\ contents'[home'[id]] = id
  <2>1. CASE id = x
    BY <1>3, <1>6, <1>7, <2>1
  <2>2. CASE id # x
    <3>1. id \in Referenced \cup Dying /\ id \in Ids
      BY <1>5, <2>2
    <3>2. home[id] \in DOMAIN contents /\ contents[home[id]] = id
      BY <3>1 DEF HomeState
    <3> QED BY <1>6, <1>7, <1>8, <2>2, <3>1, <3>2
  <2> QED BY <2>1, <2>2
<1>10. ASSUME NEW c \in DOMAIN contents', contents'[c] # Nothing
       PROVE  contents'[c] \in Referenced' \cup Dying' /\ home'[contents'[c]] = c
  <2>1. CASE c = b
    BY <1>3, <1>5, <1>7, <2>1
  <2>2. CASE c # b
    <3>1. contents[c] \in Referenced \cup Dying /\ home[contents[c]] = c
      BY <1>7, <1>10, <2>2 DEF HomeState
    <3> QED BY <1>5, <1>7, <2>2, <3>1
  <2> QED BY <2>1, <2>2
<1>11. \A u \in Threads : dying'[u] \cap Referenced' = {}
  BY <1>1, <1>5 DEF HomeState, Dying
<1>12. HomeState'
  BY <1>1, <1>7, <1>9, <1>10, <1>11 DEF HomeState
<1> QED BY <1>2, <1>5, <1>12 DEF Kept

LEMMA DisposeKeeps ==
  ASSUME EngineInv, Structure', NEW t \in Threads, NEW id \in Ids, Dispose(t, id)
  PROVE  Kept
<1> USE EngineFacts
<1> DEFINE b == home[id]
<1>1. /\ id \in dying[t] /\ contents' = [contents EXCEPT ![b] = Nothing]
      /\ dying' = [dying EXCEPT ![t] = @ \ {id}] /\ home' = [home EXCEPT ![id] = 0]
      /\ UNCHANGED <<vars, nextId, at, own, round>>
  BY DEF Dispose, Destroy
<1>2. /\ IdState' /\ RoundState' /\ Submitted' = Submitted
      /\ Referenced' = ((Held \cup active \cup round) \ modified) \cup Submitting'
  BY <1>1, PoolStepKeepsIds
<1>3. Submitting' = Submitting
  BY <1>1 DEF Submitting
<1>4. Referenced' = Referenced /\ id \notin Referenced /\ id \in Dying
  BY <1>1, <1>2, <1>3, ReferencedOrders DEF Dying, HomeState
<1>5. /\ \A u \in Threads : dying'[u] = IF u = t THEN dying[t] \ {id} ELSE dying[u]
      /\ dying' \in [Threads -> SUBSET Ids]
  BY <1>1 DEF HomeState
<1>6. Dying' = Dying \ {id}
  <2>1. \A u \in Threads : id \notin dying'[u]
    BY <1>1, <1>5 DEF HomeState
  <2>2. Dying' \subseteq Dying \ {id}
    BY <1>5, <2>1 DEF Dying
  <2>3. Dying \ {id} \subseteq Dying'
    BY <1>5 DEF Dying
  <2> QED BY <2>2, <2>3
<1>7. /\ b \in DOMAIN contents /\ contents[b] = id
      /\ DOMAIN contents' = DOMAIN contents
      /\ \A c \in DOMAIN contents : contents'[c] = IF c = b THEN Nothing ELSE contents[c]
      /\ \A y \in Ids : home'[y] = IF y = id THEN 0 ELSE home[y]
      /\ home' \in [Ids -> Nat]
  BY <1>1, <1>4 DEF HomeState
<1> HIDE DEF b
<1>8. ASSUME NEW y \in Referenced' \cup Dying'
      PROVE  home'[y] \in DOMAIN contents' /\ contents'[home'[y]] = y
  <2>1. y \in Referenced \cup Dying /\ y # id /\ y \in Ids
    BY <1>4, <1>6
  <2>2. home[y] \in DOMAIN contents /\ contents[home[y]] = y
    BY <2>1 DEF HomeState
  <2> QED BY <1>7, <2>1, <2>2
<1>9. ASSUME NEW c \in DOMAIN contents', contents'[c] # Nothing
      PROVE  contents'[c] \in Referenced' \cup Dying' /\ home'[contents'[c]] = c
  <2>1. c # b /\ contents'[c] = contents[c] /\ contents[c] # Nothing
    BY <1>7, <1>9
  <2>2. contents[c] \in Referenced \cup Dying /\ home[contents[c]] = c
    BY <1>7, <2>1 DEF HomeState
  <2>3. contents[c] # id
    BY <2>1, <2>2 DEF b
  <2> QED BY <1>4, <1>6, <1>7, <2>1, <2>2, <2>3
<1>10. /\ \A u \in Threads : dying'[u] \cap Referenced' = {}
       /\ \A u, v \in Threads : u # v => dying'[u] \cap dying'[v] = {}
  BY <1>4, <1>5 DEF HomeState
<1>11. HomeState'
  BY <1>5, <1>7, <1>8, <1>9, <1>10 DEF HomeState
<1> QED BY <1>2, <1>6, <1>11 DEF Kept

LEMMA GiveBackKeeps ==
  ASSUME EngineInv, Structure', NEW t \in Threads, GiveBack(t)
  PROVE  Kept
<1> USE EngineFacts
<1>1. /\ contents' = contents
      /\ UNCHANGED <<vars, nextId, at, own, home, round, dying>>
  BY DEF GiveBack, PushBlock, callVars
<1>2. /\ IdState' /\ RoundState' /\ Submitted' = Submitted
      /\ Referenced' = ((Held \cup active \cup round) \ modified) \cup Submitting'
  BY <1>1, PoolStepKeepsIds
<1>3. Submitting' = Submitting
  BY <1>1 DEF Submitting
<1>4. Referenced' = Referenced
  BY <1>2, <1>3, ReferencedOrders
<1>5. HomeState' /\ Dying' = Dying
  BY <1>1, <1>4, SameReferencesKeep
<1> QED BY <1>2, <1>5 DEF Kept

-----------------------------------------------------------------------------
LEMMA EngineInitHolds == EngineInit => EngineInv
<1> SUFFICES ASSUME EngineInit PROVE EngineInv
  OBVIOUS
<1>1. Structure /\ PoolInv
  BY InitStructure, PoolInitHolds DEF EngineInit
<1>2. Submitted = {} /\ Held \cup active = {} /\ ToSet(batch) = {} /\ ~InLoop
  <2>1. ToSet(<<>>) = {}
    BY DEF ToSet
  <2>2. orders = [id \in Ids |-> None]
    BY DEF EngineInit, Init
  <2>3. pending = <<>> /\ staged = <<>> /\ batch = <<>> /\ active = {} /\ phase = "idle"
    BY DEF EngineInit, Init
  <2>4. Submitted = {}
    BY <2>2 DEF Submitted
  <2> QED BY <2>1, <2>3, <2>4 DEF Held, InLoop
<1>3. Submitting = {} /\ Dying = {} /\ round = {}
  BY DEF EngineInit, Submitting, Dying
<1>4. Referenced = {}
  BY <1>1, <1>2, <1>3, ReferencedOrders
<1>5. IdState
  BY <1>2, NoneAssumption DEF EngineInit, IdState, Places
<1>6. RoundState
  BY <1>2, <1>3 DEF RoundState
<1>7. HomeState
  <2>1. \A b \in DOMAIN contents : contents[b] = Nothing
    BY SlabSizeAssumption DEF EngineInit, PoolInit, Raw
  <2> QED BY <1>3, <1>4, <2>1 DEF EngineInit, HomeState
<1> QED BY <1>1, <1>3, <1>5, <1>6, <1>7 DEF EngineInv

LEMMA EngineStepKeeps == EngineInv /\ [EngineNext]_engineVars => EngineInv'
<1> SUFFICES ASSUME EngineInv, [EngineNext]_engineVars PROVE EngineInv'
  OBVIOUS
<1>1. Structure'
  <2>1. Structure /\ [Next]_vars
    BY StepOfTheBook DEF EngineInv
  <2> QED BY <2>1, NextKeepsStructure
<1>2. PoolInv'
  <2>1. PoolInv /\ [PoolNext]_poolVars
    BY StepOfThePool DEF EngineInv
  <2> QED BY <2>1, PoolStepKeeps
<1>3. CASE UNCHANGED engineVars
  <2>1. UNCHANGED <<vars, poolVars, nextId, at, own, home, round, dying>>
    BY <1>3 DEF engineVars, callVars
  <2>2. /\ Submitted' = Submitted /\ InLoop' = InLoop /\ Held' = Held
        /\ Submitting' = Submitting /\ Dying' = Dying
    BY <2>1 DEF vars, bookVars, stopVars, Submitted, InLoop, Held, Submitting, Dying
  <2>3. Referenced' = Referenced
    BY <1>1, <2>1, <2>2, ReferencedOrders, ReferencedOrdersNext
       DEF EngineInv, vars, bookVars, history
  <2>4. IdState' /\ RoundState'
    BY <2>1, <2>2 DEF EngineInv, IdState, RoundState, vars, stopVars
  <2>5. HomeState'
    BY <2>1, <2>3, SameReferencesKeep DEF EngineInv, poolVars
  <2> QED BY <1>1, <1>2, <2>2, <2>4, <2>5 DEF EngineInv
<1>4. CASE EngineNext
  <2>1. Kept
    <3>1. PICK t \in Threads :
            \/ TakeId(t)
            \/ \E id \in Ids : Cancel(t, id)
            \/ \E id \in Ids, a \in Amendments : Modify(t, id, a)
            \/ ThreadStep(t)
      BY <1>4 DEF EngineNext
    <3>2. ASSUME \E id \in Ids : Cancel(t, id) PROVE Kept
      BY <1>1, <3>2, BookCallKeeps DEF Cancel, BookCall
    <3>3. ASSUME \E id \in Ids, a \in Amendments : Modify(t, id, a) PROVE Kept
      BY <1>1, <3>3, BookCallKeeps DEF Modify, BookCall
    <3>4. ASSUME ThreadStep(t) PROVE Kept
      BY <1>1, <3>4, AllocateKeeps, MakeOrderKeeps, EnterKeeps, MatchKeeps, EndRoundKeeps,
         ReturnKeeps, UnlockKeeps, DisposeKeeps, GiveBackKeeps DEF ThreadStep
    <3> QED BY <1>1, <3>1, <3>2, <3>3, <3>4, TakeIdKeeps
  <2> QED BY <1>1, <1>2, <2>1 DEF Kept, EngineInv
<1> QED BY <1>3, <1>4

(* What ties the book, the pool and the threads together holds between any *)
(* two steps: where each shared_ptr is, and whose each block is.           *)
THEOREM EngineInvariant == EngineSpec => []EngineInv
BY EngineInitHolds, EngineStepKeeps, PTL DEF EngineSpec

(* The threads use the book as OrderBook says: whatever they interleave,   *)
(* the book sees one operation after the other, of orders of fresh ids, so *)
(* that every theorem about the book holds of the engine                   *)
(* (matching_engine.cpp, 31 to 123).                                       *)
THEOREM EngineUsesTheBook == EngineSpec => Spec
<1>1. EngineInit => Init
  BY DEF EngineInit
<1>2. EngineInv /\ [EngineNext]_engineVars => [Next]_vars
  BY StepOfTheBook DEF EngineInv
<1> QED BY <1>1, <1>2, EngineInvariant, PTL DEF EngineSpec, Spec

(* They keep what they owe the pool: what is deallocated is an object that *)
(* lives in its block, and that nothing refers to (memory_pool.h, 89-99).  *)
THEOREM EngineUsesThePool == EngineSpec => PoolSpec
<1>1. EngineInit => PoolInit
  BY DEF EngineInit
<1>2. EngineInv /\ [EngineNext]_engineVars => [PoolNext]_poolVars
  BY StepOfThePool
<1> QED BY <1>1, <1>2, EngineInvariant, PTL DEF EngineSpec, PoolSpec

(* Hence in the engine, too, each block is at one place. *)
THEOREM EngineBlocksApart == EngineSpec => []OnePlaceEachBlock
BY EngineUsesThePool, BlocksApart, PTL

(* No order is overwritten or given back while anything refers to it.      *)
THEOREM OrdersIntact == EngineSpec => []ReferencedIntact
<1>1. EngineInv => ReferencedIntact
  BY DEF EngineInv, HomeState, ReferencedIntact
<1> QED BY <1>1, EngineInvariant, PTL

(* No block is held by an order that nothing will give back.               *)
THEOREM NoOrderLeaks == EngineSpec => []NothingLeaks
<1>1. EngineInv => NothingLeaks
  BY DEF EngineInv, HomeState, NothingLeaks, Dying
<1> QED BY <1>1, EngineInvariant, PTL

(* The order a thread is about to enter into the book is known to no other *)
(* thread and new to the book.                                             *)
THEOREM FreshIds == EngineSpec => []IdsAreFresh
<1>1. EngineInv => IdsAreFresh
  BY NoneAssumption DEF EngineInv, IdState, IdsAreFresh, Submitted
<1> QED BY <1>1, EngineInvariant, PTL

-----------------------------------------------------------------------------
(* Time priority.  What a thread is still submitting is over for no order,  *)
(* and what comes out of the stop pipeline is a stop; so the order that     *)
(* match() books is either a stop or one no id was taken after.             *)

TurnState ==
  /\ before \in [Ids -> SUBSET Nat]
  /\ \A id \in Ids : \A x \in before[id] : x < nextId
  /\ \A t \in Threads, id \in Ids : own[t] # None => own[t] \notin before[id]

OnlyStopsHeld == \A id \in Held \cup round : orders[id].kind = "STOP_LOSS"

InOrder ==
  \A s \in Sides, p \in Prices : \A x, y \in Ids :
    /\ Behind(level[s][p], x, y)
    /\ KeepsItsPlace(x)
    /\ KeepsItsPlace(y)
    => y \notin before[x]

InTurn == TurnState /\ OnlyStopsHeld /\ InOrder

(* A step that takes no id neither changes what was over nor gives a thread *)
(* an order.                                                                *)
NoneTaken ==
  /\ before' = before /\ nextId' = nextId
  /\ \A u \in Threads : own'[u] \in {own[u], None}

LEMMA TakesOrNot ==
  ASSUME EngineInv, [EngineNext]_engineVars
  PROVE  NoneTaken \/ \E t \in Threads : TakeId(t)
<1>1. own \in [Threads -> Ids \cup {None}]
  BY EngineFacts DEF IdState
<1>2. CASE UNCHANGED engineVars
  BY <1>2 DEF engineVars, callVars, NoneTaken
<1>3. ASSUME NEW t \in Threads, Return(t) PROVE NoneTaken
  BY <1>1, <1>3 DEF Return, NoneTaken
<1>4. ASSUME NEW t \in Threads,
             \/ Allocate(t) \/ MakeOrder(t) \/ Enter(t) \/ Match(t) \/ EndRound(t) \/ Unlock(t)
             \/ GiveBack(t) \/ (\E id \in Ids : Dispose(t, id))
             \/ (\E id \in Ids : Cancel(t, id))
             \/ (\E id \in Ids, a \in Amendments : Modify(t, id, a))
      PROVE  NoneTaken
  BY <1>4 DEF Allocate, MakeOrder, Enter, Match, EndRound, Unlock, GiveBack, Dispose, Cancel,
              Modify, callVars, NoneTaken
<1> QED BY <1>2, <1>3, <1>4 DEF EngineNext, ThreadStep

LEMMA TakingAnId ==
  ASSUME EngineInv, TurnState, NEW t \in Threads, TakeId(t)
  PROVE  TurnState' /\ \A x \in Submitted : before'[x] = before[x]
<1> USE EngineFacts
<1>1. /\ nextId \in Ids /\ nextId' = nextId + 1 /\ nextId \in Nat
      /\ own' = [own EXCEPT ![t] = nextId]
      /\ before' = [before EXCEPT ![nextId] = Returned]
  BY DEF TakeId, IdState
<1>2. /\ \A u \in Threads : own'[u] = IF u = t THEN nextId ELSE own[u]
      /\ \A id \in Ids : before'[id] = IF id = nextId THEN Returned ELSE before[id]
  BY <1>1 DEF IdState, TurnState
<1>3. Returned \subseteq Nat /\ \A x \in Returned : x < nextId
  BY <1>1 DEF Returned
<1>4. before' \in [Ids -> SUBSET Nat]
  BY <1>1, <1>3 DEF TurnState
<1>5. ASSUME NEW id \in Ids, NEW x \in before'[id] PROVE x < nextId'
  <2>1. x < nextId /\ x \in Nat
    BY <1>2, <1>3 DEF TurnState
  <2> QED BY <1>1, <2>1
<1>6. ASSUME NEW u \in Threads, NEW id \in Ids, own'[u] # None PROVE own'[u] \notin before'[id]
  <2>1. CASE u = t
    <3>1. own'[u] = nextId
      BY <1>2, <2>1
    <3>2. nextId \notin Returned
      BY <1>1, <1>3
    <3>3. nextId \notin before[id]
      BY <1>1 DEF TurnState
    <3> QED BY <1>2, <3>1, <3>2, <3>3
  <2>2. CASE u # t
    <3>1. own'[u] = own[u] /\ own[u] \notin Returned
      BY <1>2, <2>2 DEF Returned
    <3>2. own[u] \notin before[id]
      BY <1>6, <3>1 DEF TurnState
    <3> QED BY <1>2, <3>1, <3>2
  <2> QED BY <2>1, <2>2
<1>7. \A x \in Submitted : x \in Ids /\ x # nextId
  BY DEF IdState
<1> QED BY <1>2, <1>4, <1>5, <1>6, <1>7 DEF TurnState

LEMMA TurnStateKept ==
  ASSUME EngineInv, TurnState, [EngineNext]_engineVars
  PROVE  TurnState' /\ \A x \in Submitted : before'[x] = before[x]
<1>1. CASE NoneTaken
  BY <1>1 DEF NoneTaken, TurnState
<1> QED BY <1>1, TakesOrNot, TakingAnId

(* An order enters the pipeline, or a round, only as a stop. *)
LEMMA OnlyStopsKept ==
  ASSUME EngineInv, OnlyStopsHeld, [EngineNext]_engineVars
  PROVE  OnlyStopsHeld'
<1> USE EngineFacts
<1>1. Structure /\ [Next]_vars
  BY StepOfTheBook
<1>2. \A x \in Submitted : orders'[x].kind = orders[x].kind
  BY <1>1, KindsStay
<1>3. SUFFICES ASSUME NEW x \in Held' \cup round', x \notin Held \cup round
               PROVE  orders'[x].kind = "STOP_LOSS"
  BY <1>2 DEF OnlyStopsHeld
<1>4. ASSUME NEW t \in Threads, Enter(t) PROVE orders'[x].kind = "STOP_LOSS"
  <2>1. own[t] \in Ids /\ round' = round
    BY <1>4 DEF Enter, Ready, IdState
  <2>2. PICK r \in Requests : HoldStop(own[t], r) \/ BeginMatch(own[t], r)
    BY <1>4 DEF Enter
  <2>3. CASE HoldStop(own[t], r)
    <3>1. x = own[t]
      BY <1>3, <2>1, <2>3, HoldStopFacts
    <3>2. orders'[own[t]] = NewOrder(r)
      BY <2>1, <2>3, ArrivalFacts
    <3>3. r.kind = "STOP_LOSS"
      BY <2>3 DEF HoldStop
    <3> QED BY <3>1, <3>2, <3>3, NewOrderTyped
  <2>4. CASE BeginMatch(own[t], r)
    BY <1>3, <2>1, <2>4 DEF BeginMatch, Held, stopVars
  <2> QED BY <2>2, <2>3, <2>4
<1>5. ASSUME NEW t \in Threads, Match(t) PROVE FALSE
  <2>1. MatchStep /\ round' \in {round, ToSet(batch')}
    BY <1>5 DEF Match
  <2>2. Held' \subseteq Held
    BY <2>1, MatchMoves DEF MovesOnly
  <2>3. ToSet(batch') \subseteq Held'
    BY DEF Held
  <2> QED BY <1>3, <2>1, <2>2, <2>3
<1>6. ASSUME NEW t \in Threads, EndRound(t) PROVE FALSE
  BY <1>3, <1>6 DEF EndRound, Held, vars, stopVars
<1>7. ASSUME NEW t \in Threads, NEW id \in Ids, Cancel(t, id) PROVE FALSE
  BY <1>3, <1>7 DEF Cancel, CancelOrder, Held, stopVars
<1>8. ASSUME NEW t \in Threads, NEW id \in Ids, NEW a \in Amendments, Modify(t, id, a)
      PROVE  FALSE
  BY <1>3, <1>8 DEF Modify, ModifyOrder, Held, stopVars
<1>9. ASSUME NEW t \in Threads,
             \/ TakeId(t) \/ Allocate(t) \/ MakeOrder(t) \/ Return(t) \/ Unlock(t)
             \/ GiveBack(t) \/ (\E id \in Ids : Dispose(t, id))
      PROVE  FALSE
  BY <1>3, <1>9 DEF TakeId, Allocate, MakeOrder, Return, Unlock, GiveBack, Dispose, callVars,
                    Held, vars, stopVars
<1>10. CASE UNCHANGED engineVars
  BY <1>3, <1>10 DEF engineVars, callVars, Held, vars, stopVars
<1> QED BY <1>4, <1>5, <1>6, <1>7, <1>8, <1>9, <1>10 DEF EngineNext, ThreadStep

LEMMA MovedBackStays ==
  ASSUME [Next]_vars
  PROVE  modified \subseteq modified'
BY DEF Next, MatchStep, HoldStop, BeginMatch, CancelOrder, ModifyOrder, SkipEmpty, Trade,
       FireStop, TriggersDone, SettleFilled, SettleIceberg, SettlePartial, FinishMatch,
       TakeBatch, MatchStop, EndMatch, vars, history

(* The order that match() books is a stop, or a call that is not over. *)
LEMMA InOrderKept ==
  ASSUME EngineInv, EngineInv', InTurn, [EngineNext]_engineVars
  PROVE  InOrder'
<1> USE EngineFacts
<1>1. Structure /\ Structure' /\ [Next]_vars
  BY StepOfTheBook DEF EngineInv
<1>2. modified \subseteq modified'
  BY <1>1, MovedBackStays
<1>3. \A x \in Submitted : before'[x] = before[x] /\ orders'[x].kind = orders[x].kind
  BY <1>1, TurnStateKept, KindsStay DEF InTurn
<1>4. SUFFICES ASSUME NEW s \in Sides, NEW p \in Prices, NEW x \in Ids, NEW y \in Ids,
                      Behind(level'[s][p], x, y), KeepsItsPlace(x)', KeepsItsPlace(y)'
               PROVE  y \notin before'[x]
  BY DEF InOrder
<1>5. /\ x \notin modified' /\ orders'[x].kind # "STOP_LOSS"
      /\ y \notin modified' /\ orders'[y].kind # "STOP_LOSS"
  BY <1>4 DEF KeepsItsPlace
<1>6. CASE Behind(level[s][p], x, y)
  <2>1. x \in Submitted /\ y \in Submitted
    <3>1. level[s][p] \in Seq(Ids) /\ ToSet(level[s][p]) \subseteq Submitted
      BY StructureFacts DEF Deques
    <3> QED BY <1>6, <3>1, BehindFacts
  <2>2. KeepsItsPlace(x) /\ KeepsItsPlace(y)
    BY <1>2, <1>3, <1>5, <2>1 DEF KeepsItsPlace
  <2>3. y \notin before[x]
    BY <1>6, <2>2 DEF InTurn, InOrder
  <2> QED BY <1>3, <2>1, <2>3
<1>7. CASE FinishMatch /\ InLoop /\ y = cur
  <2>1. Submitted' = Submitted
    BY <1>7 DEF FinishMatch, Submitted
  <2>2. x \in Submitted
    <3>1. level' \in [Sides -> [Prices -> Seq(Ids)]]
      BY <1>1 DEF Structure, TypeOK
    <3>2. level'[s][p] \in Seq(Ids)
      BY <3>1
    <3>3. x \in ToSet(level'[s][p])
      BY <1>4, <3>2, BehindFacts
    <3>4. x \in active' /\ active' \subseteq Submitted'
      BY <1>1, <3>3 DEF Structure, BookIndexed, Placed
    <3> QED BY <2>1, <3>4
  <2>3. cur \in Submitted
    BY <1>7, StructureFacts
  <2>4. cur \notin round
    BY <1>3, <1>5, <1>7, <2>3 DEF InTurn, OnlyStopsHeld
  <2>5. PICK u \in Threads : own[u] = cur
    BY <1>7, <2>4 DEF RoundState
  <2>6. cur \notin before[x]
    BY <2>3, <2>5 DEF InTurn, TurnState
  <2> QED BY <1>3, <1>7, <2>2, <2>6
<1> QED BY <1>1, <1>4, <1>5, <1>6, <1>7, LevelOrder

LEMMA InitInTurn == EngineInit => InTurn
<1> SUFFICES ASSUME EngineInit PROVE InTurn
  OBVIOUS
<1>1. TurnState
  BY NoneAssumption DEF EngineInit, TurnState
<1>2. OnlyStopsHeld
  <2>1. ToSet(<<>>) = {}
    BY DEF ToSet
  <2>2. pending = <<>> /\ staged = <<>> /\ batch = <<>> /\ round = {}
    BY DEF EngineInit, Init
  <2> QED BY <2>1, <2>2 DEF OnlyStopsHeld, Held
<1>3. InOrder
  <2>1. ASSUME NEW s \in Sides, NEW p \in Prices, NEW x, NEW y PROVE ~Behind(level[s][p], x, y)
    BY DEF EngineInit, Init, Behind
  <2> QED BY <2>1 DEF InOrder
<1> QED BY <1>1, <1>2, <1>3 DEF InTurn

(* An order whose submission was over when another's began never stands     *)
(* behind it (time priority, orderbook.cpp, 35 to 102, with the ids of      *)
(* matching_engine.cpp, 31 to 96), but for amended orders and stops.        *)
THEOREM TimePriority == EngineSpec => []FirstDoneFirstServed
<1>1. EngineInit => InTurn
  BY InitInTurn
<1>2. EngineInv /\ EngineInv' /\ InTurn /\ [EngineNext]_engineVars => InTurn'
  BY TurnStateKept, OnlyStopsKept, InOrderKept DEF InTurn
<1>3. EngineInv /\ InTurn => FirstDoneFirstServed
  <2> SUFFICES ASSUME EngineInv, InTurn, NEW s \in Sides, NEW p \in Prices,
                      NEW i \in DOMAIN level[s][p], NEW j \in DOMAIN level[s][p], i < j,
                      KeepsItsPlace(level[s][p][i]), KeepsItsPlace(level[s][p][j])
               PROVE  level[s][p][j] \notin before[level[s][p][i]]
    BY DEF FirstDoneFirstServed
  <2>1. level[s][p] \in Seq(Ids)
    BY EngineFacts DEF Structure, TypeOK
  <2>2. level[s][p][i] \in Ids /\ level[s][p][j] \in Ids
    BY <2>1
  <2>3. Behind(level[s][p], level[s][p][i], level[s][p][j])
    BY DEF Behind
  <2> QED BY <2>2, <2>3 DEF InTurn, InOrder
<1> QED BY <1>1, <1>2, <1>3, EngineInvariant, PTL DEF EngineSpec

=============================================================================

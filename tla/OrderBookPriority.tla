-------------------------- MODULE OrderBookPriority --------------------------
(***************************************************************************)
(* Price-time priority, proved: the book of levels implements the book of  *)
(* queues of module PriorityBook, under the conditions of                  *)
(* OrderBookLedger in which what the book holds is on offer.               *)
(***************************************************************************)
EXTENDS OrderBookLedger, FiniteSetTheorems

-----------------------------------------------------------------------------
(* The orders in the levels of a side, and the line they form. *)

(* The levels of one side: no order stands twice in them. *)
OneSide(l) ==
  /\ l \in [Prices -> Seq(Ids)]
  /\ \A p \in Prices : IsInjective(l[p])
  /\ \A p, q \in Prices : \A x \in ToSet(l[p]) : x \in ToSet(l[q]) => p = q

(* x is to trade before y. *)
Precedes(s, l, x, y) ==
  \E p, q \in Prices :
    /\ x \in ToSet(l[p]) /\ y \in ToSet(l[q])
    /\ Better(s, p, q) \/ (p = q /\ Behind(l[p], x, y))

(* h is the line of side s, whose levels are l. *)
IsLine(s, l, h) ==
  /\ h \in Seq(Ids)
  /\ ToSet(h) = Standing(l)
  /\ \A x, y \in Ids : Behind(h, x, y) => Precedes(s, l, x, y)

LEMMA PricesCompare ==
  ASSUME NEW s, NEW p \in Prices, NEW q \in Prices
  PROVE  /\ Better(s, p, q) => ~Better(s, q, p) /\ p # q
         /\ p # q => Better(s, p, q) \/ Better(s, q, p)
BY PricesAssumption DEF Better

LEMMA StandingFacts ==
  ASSUME NEW l, OneSide(l)
  PROVE  /\ \A x : x \in Standing(l) <=> \E p \in Prices : x \in ToSet(l[p])
         /\ Standing(l) \subseteq Ids
<1>1. \A x : x \in Standing(l) <=> \E p \in Prices : x \in ToSet(l[p])
  BY DEF Standing
<1>2. ASSUME NEW p \in Prices PROVE ToSet(l[p]) \subseteq Ids
  <2>1. l[p] \in Seq(Ids)
    BY DEF OneSide
  <2> QED BY <2>1 DEF ToSet
<1> QED BY <1>1, <1>2

(* Two different elements of a sequence stand one behind the other, and an *)
(* element of a sequence without repetitions not behind itself.            *)
LEMMA BehindOrders ==
  ASSUME NEW S, NEW q \in Seq(S), IsInjective(q), NEW x \in ToSet(q), NEW y \in ToSet(q)
  PROVE  /\ x # y => Behind(q, x, y) \/ Behind(q, y, x)
         /\ Behind(q, x, y) => ~Behind(q, y, x) /\ x # y
<1>1. DOMAIN q = 1 .. Len(q) /\ Len(q) \in Nat
  OBVIOUS
<1>2. PICK i \in DOMAIN q, j \in DOMAIN q : q[i] = x /\ q[j] = y
  BY DEF ToSet
<1>3. \A m, n \in DOMAIN q : q[m] = q[n] => m = n
  BY DEF IsInjective
<1>4. x # y => i < j \/ j < i
  BY <1>1, <1>2
<1>5. Behind(q, x, y) => i < j
  BY <1>2, <1>3 DEF Behind
<1>6. Behind(q, y, x) => j < i
  BY <1>2, <1>3 DEF Behind
<1>7. ~(i < j /\ j < i) /\ ~(i < i)
  BY <1>1
<1>8. Behind(q, x, y) => ~Behind(q, y, x) /\ x # y
  BY <1>2, <1>3, <1>5, <1>6, <1>7
<1> QED BY <1>2, <1>4, <1>8 DEF Behind

(* Precedes is a strict order of the orders that stand, and a total one. *)
LEMMA PrecedesOrders ==
  ASSUME NEW s, NEW l, OneSide(l), NEW x \in Standing(l), NEW y \in Standing(l)
  PROVE  /\ x # y => Precedes(s, l, x, y) \/ Precedes(s, l, y, x)
         /\ Precedes(s, l, x, y) => ~Precedes(s, l, y, x) /\ x # y
<1>1. PICK p \in Prices, q \in Prices : x \in ToSet(l[p]) /\ y \in ToSet(l[q])
  BY StandingFacts
<1>2. \A r \in Prices : (x \in ToSet(l[r]) => r = p) /\ (y \in ToSet(l[r]) => r = q)
  BY <1>1 DEF OneSide
<1>3. /\ Precedes(s, l, x, y) <=> Better(s, p, q) \/ (p = q /\ Behind(l[p], x, y))
      /\ Precedes(s, l, y, x) <=> Better(s, q, p) \/ (p = q /\ Behind(l[p], y, x))
  BY <1>1, <1>2 DEF Precedes
<1>4. CASE p # q
  BY <1>1, <1>2, <1>3, <1>4, PricesCompare
<1>5. CASE p = q
  <2>1. l[p] \in Seq(Ids) /\ IsInjective(l[p])
    BY DEF OneSide
  <2>2. ~Better(s, p, q) /\ ~Better(s, q, p)
    BY <1>5, PricesCompare
  <2> QED BY <1>1, <1>3, <1>5, <2>1, <2>2, BehindOrders
<1> QED BY <1>4, <1>5

(* A line is in order, and holds each order once. *)
LEMMA LineOrder ==
  ASSUME NEW s, NEW l, OneSide(l), NEW h, IsLine(s, l, h),
         NEW j \in 1 .. Len(h), NEW k \in 1 .. Len(h), j < k
  PROVE  Precedes(s, l, h[j], h[k]) /\ h[j] # h[k]
<1>1. h \in Seq(Ids) /\ Len(h) \in Nat /\ DOMAIN h = 1 .. Len(h)
  BY DEF IsLine
<1>2. h[j] \in Ids /\ h[k] \in Ids /\ h[j] \in Standing(l) /\ h[k] \in Standing(l)
  BY <1>1 DEF IsLine, ToSet
<1>3. Behind(h, h[j], h[k])
  BY <1>1 DEF Behind
<1>4. Precedes(s, l, h[j], h[k])
  BY <1>2, <1>3 DEF IsLine
<1> QED BY <1>2, <1>4, PrecedesOrders

LEMMA LineFacts ==
  ASSUME NEW s, NEW l, OneSide(l), NEW h, IsLine(s, l, h)
  PROVE  /\ h \in Seq(Ids) /\ Len(h) \in Nat /\ DOMAIN h = 1 .. Len(h)
         /\ \A k \in 1 .. Len(h) : h[k] \in Ids /\ h[k] \in Standing(l)
         /\ \A j, k \in 1 .. Len(h) : j < k => Precedes(s, l, h[j], h[k]) /\ h[j] # h[k]
         /\ \A x \in Standing(l) : \E k \in 1 .. Len(h) : h[k] = x
         /\ IsInjective(h)
<1>1. h \in Seq(Ids) /\ Len(h) \in Nat /\ DOMAIN h = 1 .. Len(h)
  BY DEF IsLine
<1>2. \A k \in 1 .. Len(h) : h[k] \in Ids /\ h[k] \in Standing(l)
  BY <1>1 DEF IsLine, ToSet
<1>3. ASSUME NEW j \in 1 .. Len(h), NEW k \in 1 .. Len(h), j < k
      PROVE  Precedes(s, l, h[j], h[k]) /\ h[j] # h[k]
  BY <1>3, LineOrder
<1>4. \A x \in Standing(l) : \E k \in 1 .. Len(h) : h[k] = x
  BY <1>1 DEF IsLine, ToSet
<1>5. IsInjective(h)
  <2>1. ASSUME NEW j \in 1 .. Len(h), NEW k \in 1 .. Len(h), h[j] = h[k] PROVE j = k
    <3>1. ~(j < k) /\ ~(k < j)
      BY <1>3, <2>1
    <3> QED BY <1>1, <3>1
  <2> QED BY <1>1, <2>1 DEF IsInjective
<1> QED BY <1>1, <1>2, <1>3, <1>4, <1>5

(* The first n elements of a sequence without repetitions are n. *)
LEMMA FirstCount ==
  ASSUME NEW S, NEW h \in Seq(S), IsInjective(h), NEW n \in 0 .. Len(h)
  PROVE  Cardinality({h[j] : j \in 1 .. n}) = n
<1> DEFINE T == {h[j] : j \in 1 .. n}
           f == [j \in 1 .. n |-> h[j]]
<1>1. DOMAIN h = 1 .. Len(h) /\ Len(h) \in Nat /\ n \in Nat /\ 1 .. n \subseteq DOMAIN h
  OBVIOUS
<1>2. \A i, j \in 1 .. n : h[i] = h[j] => i = j
  BY <1>1 DEF IsInjective
<1>3. f \in Bijection(1 .. n, T)
  BY <1>2 DEF Bijection, Injection, Surjection, IsInjective
<1>4. ExistsBijection(1 .. n, T)
  BY <1>3 DEF ExistsBijection
<1>5. Cardinality(T) = n
  <2> HIDE DEF T
  <2> QED BY <1>1, <1>4, FS_CountingElements
<1> QED BY <1>5

LEMMA InFrontFacts ==
  ASSUME NEW s, NEW l, NEW p, NEW i, NEW y
  PROVE  y \in InFront(s, l, p, i) <=>
           \/ \E q \in Prices : Better(s, q, p) /\ y \in ToSet(l[q])
           \/ \E j \in 1 .. i - 1 : y = l[p][j]
<1> DEFINE better == {q \in Prices : Better(s, q, p)}
           A == UNION {ToSet(l[q]) : q \in better}
           B == {l[p][j] : j \in 1 .. i - 1}
<1>1. y \in A <=> \E q \in better : y \in ToSet(l[q])
  <2> HIDE DEF better
  <2> QED OBVIOUS
<1>2. y \in B <=> \E j \in 1 .. i - 1 : y = l[p][j]
  OBVIOUS
<1>3. InFront(s, l, p, i) = A \cup B
  BY DEF InFront
<1>4. (\E q \in better : y \in ToSet(l[q])) <=> \E q \in Prices : Better(s, q, p) /\ y \in ToSet(l[q])
  OBVIOUS
<1> HIDE DEF A, B, better
<1>5. y \in InFront(s, l, p, i) <=> y \in A \/ y \in B
  BY <1>3
<1> QED BY <1>1, <1>2, <1>4, <1>5

(* Whoever stands at a place of the levels is in the line behind exactly   *)
(* those in front of that place.                                           *)
LEMMA PlaceInLine ==
  ASSUME NEW s, NEW l, OneSide(l), NEW h, IsLine(s, l, h),
         NEW x, NEW k \in 1 .. Len(h), h[k] = x,
         NEW p \in Prices, NEW i \in DOMAIN l[p], l[p][i] = x
  PROVE  Cardinality(InFront(s, l, p, i)) = k - 1
<1>0. /\ h \in Seq(Ids) /\ IsInjective(h) /\ Len(h) \in Nat
      /\ \A j \in 1 .. Len(h) : h[j] \in Standing(l)
      /\ \A j, n \in 1 .. Len(h) : j < n => Precedes(s, l, h[j], h[n]) /\ h[j] # h[n]
      /\ \A y \in Standing(l) : \E n \in 1 .. Len(h) : h[n] = y
  <2>1. h \in Seq(Ids) /\ IsInjective(h) /\ Len(h) \in Nat
    BY LineFacts
  <2>2. \A j \in 1 .. Len(h) : h[j] \in Standing(l)
    BY LineFacts
  <2>3. \A j, n \in 1 .. Len(h) : j < n => Precedes(s, l, h[j], h[n]) /\ h[j] # h[n]
    BY LineOrder
  <2>4. \A y \in Standing(l) : \E n \in 1 .. Len(h) : h[n] = y
    BY <2>1 DEF IsLine, ToSet
  <2> QED BY <2>1, <2>2, <2>3, <2>4
<1> DEFINE d == l[p]
<1>1. d \in Seq(Ids) /\ IsInjective(d) /\ DOMAIN d = 1 .. Len(d) /\ Len(d) \in Nat
  BY DEF OneSide
<1>2. x \in ToSet(d) /\ d[i] = x
  BY DEF ToSet
<1>3. \A q \in Prices : x \in ToSet(l[q]) => q = p
  BY <1>2 DEF OneSide
<1>4. x \in Standing(l) /\ x \in Ids
  BY <1>0, StandingFacts
<1>5. ASSUME NEW y PROVE y \in InFront(s, l, p, i) <=> y \in Standing(l) /\ Precedes(s, l, y, x)
  <2>1. ASSUME NEW q \in Prices, Better(s, q, p), y \in ToSet(l[q])
        PROVE  y \in Standing(l) /\ Precedes(s, l, y, x)
    BY <1>2, <2>1, StandingFacts DEF Precedes
  <2>2. ASSUME NEW j \in 1 .. i - 1, y = d[j]
        PROVE  y \in Standing(l) /\ Precedes(s, l, y, x)
    <3>1. j \in DOMAIN d /\ j < i
      BY <1>1, <2>2
    <3>2. y \in ToSet(d) /\ Behind(d, y, x)
      BY <1>2, <2>2, <3>1 DEF ToSet, Behind
    <3> QED BY <1>2, <3>2, StandingFacts DEF Precedes
  <2>3. ASSUME Precedes(s, l, y, x) PROVE y \in InFront(s, l, p, i)
    <3>1. PICK q \in Prices : /\ y \in ToSet(l[q])
                              /\ Better(s, q, p) \/ (q = p /\ Behind(d, y, x))
      BY <1>3, <2>3 DEF Precedes
    <3>2. CASE Better(s, q, p)
      BY <3>1, <3>2, InFrontFacts
    <3>3. CASE Behind(d, y, x)
      <4>1. PICK m \in DOMAIN d, n \in DOMAIN d : m < n /\ d[m] = y /\ d[n] = x
        BY <3>3 DEF Behind
      <4>2. n = i
        BY <1>1, <1>2, <4>1 DEF IsInjective
      <4>3. m \in 1 .. i - 1
        BY <1>1, <4>1, <4>2
      <4> QED BY <4>1, <4>3, InFrontFacts
    <3> QED BY <3>1, <3>2, <3>3
  <2> HIDE DEF d
  <2>4. y \in InFront(s, l, p, i) =>
          \/ \E q \in Prices : Better(s, q, p) /\ y \in ToSet(l[q])
          \/ \E j \in 1 .. i - 1 : y = d[j]
    BY InFrontFacts DEF d
  <2> QED BY <2>1, <2>2, <2>3, <2>4
<1>6. InFront(s, l, p, i) = {h[j] : j \in 1 .. k - 1}
  <2>1. ASSUME NEW j \in 1 .. k - 1 PROVE h[j] \in InFront(s, l, p, i)
    <3>1. j \in 1 .. Len(h) /\ j < k
      BY <1>0
    <3> QED BY <1>0, <1>5, <3>1
  <2>2. ASSUME NEW y \in InFront(s, l, p, i) PROVE \E j \in 1 .. k - 1 : y = h[j]
    <3>1. PICK n \in 1 .. Len(h) : h[n] = y
      BY <1>0, <1>5
    <3>2. ~Precedes(s, l, x, y) /\ x # y
      BY <1>4, <1>5, PrecedesOrders
    <3>3. ~(k < n) /\ k # n
      BY <1>0, <3>1, <3>2
    <3>4. n \in 1 .. k - 1
      BY <1>0, <3>3
    <3> QED BY <3>1, <3>4
  <2> QED BY <2>1, <2>2
<1>7. k - 1 \in 0 .. Len(h)
  BY <1>0
<1> QED BY <1>0, <1>6, <1>7, FirstCount

(* The line is what LineUp computes. *)
LEMMA LineUpIsLine ==
  ASSUME NEW s, NEW l, OneSide(l), NEW h, IsLine(s, l, h)
  PROVE  LineUp(s, l) = h
<1>1. /\ h \in Seq(Ids) /\ Len(h) \in Nat /\ DOMAIN h = 1 .. Len(h) /\ IsInjective(h)
      /\ \A k \in 1 .. Len(h) : h[k] \in Ids /\ h[k] \in Standing(l)
      /\ \A x \in Standing(l) : \E k \in 1 .. Len(h) : h[k] = x
  BY LineFacts
<1>2. Cardinality(Standing(l)) = Len(h)
  <2>1. Standing(l) = {h[j] : j \in 1 .. Len(h)}
    BY <1>1
  <2>2. Len(h) \in 0 .. Len(h)
    BY <1>1
  <2> QED BY <1>1, <2>1, <2>2, FirstCount
<1> DEFINE At(x, k) == \E p \in Prices : \E i \in DOMAIN l[p] :
                         l[p][i] = x /\ Cardinality(InFront(s, l, p, i)) = k - 1
<1>3. ASSUME NEW k \in 1 .. Len(h) PROVE (CHOOSE x \in Standing(l) : At(x, k)) = h[k]
  <2>1. At(h[k], k)
    <3>1. PICK p \in Prices : h[k] \in ToSet(l[p])
      BY <1>1, StandingFacts
    <3>2. PICK i \in DOMAIN l[p] : l[p][i] = h[k]
      BY <3>1 DEF ToSet
    <3>3. Cardinality(InFront(s, l, p, i)) = k - 1
      BY <3>2, PlaceInLine
    <3> QED BY <3>2, <3>3
  <2>2. ASSUME NEW x \in Standing(l), At(x, k) PROVE x = h[k]
    <3>1. PICK j \in 1 .. Len(h) : h[j] = x
      BY <1>1
    <3>2. PICK p \in Prices : \E i \in DOMAIN l[p] :
                              l[p][i] = x /\ Cardinality(InFront(s, l, p, i)) = k - 1
      BY <2>2
    <3>3. PICK i \in DOMAIN l[p] : l[p][i] = x /\ Cardinality(InFront(s, l, p, i)) = k - 1
      BY <3>2
    <3>4. Cardinality(InFront(s, l, p, i)) = j - 1
      BY <3>1, <3>3, PlaceInLine
    <3>5. j = k
      BY <1>1, <3>3, <3>4
    <3> QED BY <3>1, <3>5
  <2> HIDE DEF At
  <2> QED BY <1>1, <2>1, <2>2
<1>4. LineUp(s, l) = [k \in 1 .. Len(h) |-> CHOOSE x \in Standing(l) : At(x, k)]
  BY <1>2 DEF LineUp
<1> HIDE DEF At
<1>5. [k \in 1 .. Len(h) |-> CHOOSE x \in Standing(l) : At(x, k)] = [k \in 1 .. Len(h) |-> h[k]]
  BY <1>3
<1>6. [k \in 1 .. Len(h) |-> h[k]] = h
  BY <1>1
<1> QED BY <1>4, <1>5, <1>6

-----------------------------------------------------------------------------
(* What becomes of the line when an order leaves a level or joins one. *)

(* Two orders that stand in l2 as they did in l keep their order. *)
LEMMA PrecedesStays ==
  ASSUME NEW s, NEW l, OneSide(l), NEW l2, OneSide(l2),
         NEW y \in Standing(l2), NEW z \in Standing(l2),
         \A p \in Prices : /\ y \in ToSet(l2[p]) => y \in ToSet(l[p])
                           /\ z \in ToSet(l2[p]) => z \in ToSet(l[p])
                           /\ Behind(l2[p], z, y) => Behind(l[p], z, y),
         Precedes(s, l, y, z)
  PROVE  Precedes(s, l2, y, z)
<1>1. \A x : \A k \in {l, l2} : x \in Standing(k) <=> \E p \in Prices : x \in ToSet(k[p])
  BY StandingFacts
<1>2. y \in Standing(l) /\ z \in Standing(l)
  <2>1. PICK p \in Prices : y \in ToSet(l2[p])
    BY <1>1
  <2>2. PICK q \in Prices : z \in ToSet(l2[q])
    BY <1>1
  <2>3. y \in ToSet(l[p]) /\ z \in ToSet(l[q])
    BY <2>1, <2>2
  <2> QED BY <2>3 DEF Standing
<1>3. y # z /\ ~Precedes(s, l, z, y)
  BY <1>2, PrecedesOrders
<1>4. ~Precedes(s, l2, z, y)
  <2> SUFFICES ASSUME Precedes(s, l2, z, y) PROVE FALSE
    OBVIOUS
  <2>1. PICK p \in Prices, q \in Prices :
          /\ z \in ToSet(l2[p]) /\ y \in ToSet(l2[q])
          /\ Better(s, p, q) \/ (p = q /\ Behind(l2[p], z, y))
    BY DEF Precedes
  <2>2. z \in ToSet(l[p]) /\ y \in ToSet(l[q]) /\ (Behind(l2[p], z, y) => Behind(l[p], z, y))
    BY <2>1
  <2>3. Precedes(s, l, z, y)
    BY <2>1, <2>2 DEF Precedes
  <2> QED BY <1>3, <2>3
<1> QED BY <1>3, <1>4, PrecedesOrders

LEMMA LineWithout ==
  ASSUME NEW s, NEW l, OneSide(l), NEW l2, OneSide(l2), NEW x,
         \A p \in Prices : /\ ToSet(l2[p]) = ToSet(l[p]) \ {x}
                           /\ \A y, z \in Ids : Behind(l2[p], y, z) => Behind(l[p], y, z),
         NEW h, IsLine(s, l, h), NEW h2 \in Seq(Ids),
         ToSet(h2) = ToSet(h) \ {x},
         \A y, z \in Ids : Behind(h2, y, z) => Behind(h, y, z)
  PROVE  IsLine(s, l2, h2)
<1>1. ToSet(h2) = Standing(l2)
  <2>1. ToSet(h) = Standing(l)
    BY DEF IsLine
  <2>2. \A y : \A k \in {l, l2} : y \in Standing(k) <=> \E p \in Prices : y \in ToSet(k[p])
    BY StandingFacts
  <2>3. ASSUME NEW y PROVE y \in Standing(l2) <=> y \in Standing(l) /\ y # x
    <3>1. \A p \in Prices : y \in ToSet(l2[p]) <=> y \in ToSet(l[p]) /\ y # x
      OBVIOUS
    <3> QED BY <2>2, <3>1
  <2> QED BY <2>1, <2>3
<1>2. ASSUME NEW y \in Ids, NEW z \in Ids, Behind(h2, y, z) PROVE Precedes(s, l2, y, z)
  <2>1. y \in Standing(l2) /\ z \in Standing(l2)
    BY <1>1, <1>2, BehindFacts
  <2>2. Precedes(s, l, y, z)
    BY <1>2 DEF IsLine
  <2> QED BY <2>1, <2>2, PrecedesStays
<1> QED BY <1>1, <1>2 DEF IsLine

(* A set of the first numbers, up to where it ends. *)
LEMMA InitialSegment ==
  ASSUME NEW n \in Nat, NEW T, T \subseteq 1 .. n,
         \A i, j \in 1 .. n : i < j /\ j \in T => i \in T
  PROVE  \E c \in 0 .. n : T = 1 .. c /\ Cardinality(T) = c
<1> DEFINE Out == {c \in Nat : c + 1 \notin T}
<1>1. n \in Out /\ Out \subseteq Nat
  OBVIOUS
<1>2. PICK c \in Out : \A m \in Out : c <= m
  <2> HIDE DEF Out
  <2> QED BY <1>1, LeastNumber
<1>3. c \in 0 .. n /\ c \in Nat
  BY <1>1, <1>2
<1>4. ASSUME NEW k \in 1 .. c PROVE k \in T
  <2>1. k - 1 \in Nat /\ ~(c <= k - 1) /\ (k - 1) + 1 = k
    BY <1>3
  <2>2. k - 1 \notin Out
    BY <1>2, <2>1
  <2> QED BY <2>1, <2>2
<1>5. ASSUME NEW k \in T PROVE k \in 1 .. c
  <2>1. k \in 1 .. n
    OBVIOUS
  <2>2. c + 1 \notin T
    BY <1>2
  <2>3. ~(c + 1 < k) /\ c + 1 # k
    <3>1. CASE c + 1 < k
      <4>1. c + 1 \in 1 .. n
        BY <1>3, <2>1, <3>1
      <4> QED BY <2>1, <2>2, <3>1, <4>1
    <3>2. CASE c + 1 = k
      BY <2>2, <3>2
    <3> QED BY <3>1, <3>2
  <2> QED BY <1>3, <2>1, <2>3
<1>6. T = 1 .. c
  BY <1>4, <1>5
<1>7. Cardinality(1 .. c) = c
  BY <1>3, FS_Interval
<1> QED BY <1>3, <1>6, <1>7

(* The places in line h whose price is as good as p or better.  o holds the *)
(* prices.                                                                 *)
AsGood(o, s, h, p) == {k \in DOMAIN h : ~Better(s, p, o[h[k]].price)}

(* The orders in the levels l have in o the price of their level. *)
Priced(o, l) == \A q \in Prices : \A y \in ToSet(l[q]) : o[y].price = q

(* The levels l2 are l with x pushed onto the level of price p. *)
Gains(l, l2, p, x) ==
  \A q \in Prices :
    /\ ToSet(l2[q]) = ToSet(l[q]) \cup (IF q = p THEN {x} ELSE {})
    /\ \A y, z \in Ids : Behind(l2[q], y, z) => Behind(l[q], y, z) \/ z = x

(* An order pushed onto the level of price p joins the line behind those   *)
(* whose price is as good or better.                                       *)
LEMMA LineWith ==
  ASSUME NEW s, NEW l, OneSide(l), NEW l2, OneSide(l2), NEW x \in Ids, NEW p \in Prices,
         x \notin Standing(l), Gains(l, l2, p, x),
         NEW h, IsLine(s, l, h), NEW o, Priced(o, l)
  PROVE  \E c \in 0 .. Len(h) :
           /\ Cardinality(AsGood(o, s, h, p)) = c
           /\ IsLine(s, l2, InsertAt(h, c + 1, x))
<1> USE DEF Gains, Priced
<1> DEFINE price(k) == o[h[k]].price
           T == {k \in 1 .. Len(h) : ~Better(s, p, price(k))}
<1>1. h \in Seq(Ids) /\ Len(h) \in Nat /\ DOMAIN h = 1 .. Len(h)
  BY LineFacts
<1>2. \A k \in 1 .. Len(h) : h[k] \in Ids /\ h[k] \in Standing(l)
  BY LineFacts
<1>3. ASSUME NEW k \in 1 .. Len(h)
      PROVE  price(k) \in Prices /\ h[k] \in ToSet(l[price(k)]) /\ h[k] # x
  <2>1. PICK q \in Prices : h[k] \in ToSet(l[q])
    BY <1>2, StandingFacts
  <2> QED BY <1>2, <2>1
<1>4. ASSUME NEW i \in 1 .. Len(h), NEW j \in 1 .. Len(h), i < j, j \in T
      PROVE  i \in T
  <2>1. Precedes(s, l, h[i], h[j])
    BY <1>4, LineOrder
  <2>2. PICK q \in Prices, r \in Prices :
          h[i] \in ToSet(l[q]) /\ h[j] \in ToSet(l[r]) /\ (Better(s, q, r) \/ q = r)
    BY <2>1 DEF Precedes
  <2>3. q = price(i) /\ r = price(j)
    BY <2>2
  <2> HIDE DEF price
  <2>4. ~Better(s, p, r)
    BY <1>4, <2>3
  <2>5. ~Better(s, p, q)
    BY <2>2, <2>4, PricesAssumption DEF Better
  <2> QED BY <2>3, <2>5
<1>5. PICK c \in 0 .. Len(h) : T = 1 .. c /\ Cardinality(T) = c
  <2>1. T \subseteq 1 .. Len(h)
    OBVIOUS
  <2> HIDE DEF T
  <2> QED BY <1>1, <1>4, <2>1, InitialSegment
<1> DEFINE h2 == InsertAt(h, c + 1, x)
<1>6. c + 1 \in 1 .. Len(h) + 1
  BY <1>1
<1>7. h2 \in Seq(Ids)
  BY <1>1, <1>6, InsertedPositions
<1>8. /\ ToSet(h2) = ToSet(h) \cup {x}
      /\ \A y, z : Behind(h2, y, z) =>
           \/ Behind(h, y, z)
           \/ z = x /\ \E k \in 1 .. (c + 1) - 1 : y = h[k]
           \/ y = x /\ \E k \in c + 1 .. Len(h) : z = h[k]
  BY <1>1, <1>6, InsertKeepsOrder
<1> HIDE DEF h2
<1>9. ToSet(h2) = Standing(l2)
  <2>1. ToSet(h) = Standing(l)
    BY DEF IsLine
  <2>2. \A y : y \in Standing(l2) <=> y \in Standing(l) \/ y = x
    BY StandingFacts
  <2> QED BY <1>8, <2>1, <2>2
<1>10. x \in ToSet(l2[p]) /\ x \in Standing(l2)
  BY StandingFacts
<1>11. ASSUME NEW k \in 1 .. Len(h)
       PROVE  IF k \in 1 .. c THEN Precedes(s, l2, h[k], x) ELSE Precedes(s, l2, x, h[k])
  <2> DEFINE q == price(k)
  <2>1. q \in Prices /\ h[k] \in ToSet(l2[q]) /\ h[k] # x /\ h[k] \in Ids
    BY <1>2, <1>3
  <2>2. k \in 1 .. c <=> ~Better(s, p, q)
    BY <1>5
  <2> HIDE DEF q
  <2>3. CASE Better(s, p, q)
    BY <1>10, <2>1, <2>2, <2>3 DEF Precedes
  <2>4. CASE Better(s, q, p)
    BY <1>10, <2>1, <2>2, <2>4, PricesCompare DEF Precedes
  <2>5. CASE q = p
    <3>1. l2[p] \in Seq(Ids) /\ IsInjective(l2[p])
      BY DEF OneSide
    <3>2. ~Behind(l2[p], x, h[k])
      <4>1. ~Behind(l[p], x, h[k])
        <5>1. l[p] \in Seq(Ids)
          BY DEF OneSide
        <5>2. x \notin ToSet(l[p])
          BY StandingFacts
        <5> QED BY <5>1, <5>2, BehindFacts
      <4> QED BY <2>1, <4>1
    <3>3. Behind(l2[p], h[k], x)
      BY <1>10, <2>1, <2>5, <3>1, <3>2, BehindOrders
    <3>4. ~Better(s, p, q)
      BY <2>1, <2>5, PricesCompare
    <3> QED BY <1>10, <2>1, <2>2, <2>5, <3>3, <3>4 DEF Precedes
  <2> QED BY <2>1, <2>3, <2>4, <2>5, PricesCompare
<1>12. ASSUME NEW y \in Ids, NEW z \in Ids, Behind(h2, y, z) PROVE Precedes(s, l2, y, z)
  <2>1. y \in Standing(l2) /\ z \in Standing(l2)
    BY <1>7, <1>9, <1>12, BehindFacts
  <2>2. CASE Behind(h, y, z)
    <3>1. Precedes(s, l, y, z)
      BY <2>2 DEF IsLine
    <3>2. y # x /\ z # x
      BY <1>1, <2>2, BehindFacts DEF IsLine
    <3>3. \A q \in Prices : /\ y \in ToSet(l2[q]) => y \in ToSet(l[q])
                            /\ z \in ToSet(l2[q]) => z \in ToSet(l[q])
                            /\ Behind(l2[q], z, y) => Behind(l[q], z, y)
      BY <3>2
    <3> QED BY <2>1, <3>1, <3>3, PrecedesStays
  <2>3. CASE z = x /\ \E k \in 1 .. (c + 1) - 1 : y = h[k]
    <3>1. PICK k \in 1 .. c : y = h[k]
      BY <1>1, <1>5, <2>3
    <3>2. k \in 1 .. Len(h)
      BY <1>1, <1>5
    <3> QED BY <1>11, <2>3, <3>1, <3>2
  <2>4. CASE y = x /\ \E k \in c + 1 .. Len(h) : z = h[k]
    <3>1. PICK k \in 1 .. Len(h) : z = h[k] /\ k \notin 1 .. c
      BY <1>1, <1>5, <2>4
    <3> QED BY <1>11, <2>4, <3>1
  <2> QED BY <1>8, <1>12, <2>2, <2>3, <2>4
<1>13. IsLine(s, l2, h2)
  BY <1>7, <1>9, <1>12 DEF IsLine
<1>14. Cardinality(AsGood(o, s, h, p)) = c
  BY <1>1, <1>5 DEF AsGood
<1> QED BY <1>13, <1>14 DEF h2

-----------------------------------------------------------------------------
(* The entries of a line, and what becomes of them with the line. *)

EntryOf(o, x) == [id |-> x, price |-> o[x].price, left |-> o[x].leaves]
AllEntries(o) == {EntryOf(o, x) : x \in Ids}

LEMMA EntriesFacts ==
  ASSUME NEW o, NEW h \in Seq(Ids)
  PROVE  /\ Len(h) \in Nat /\ DOMAIN h = 1 .. Len(h)
         /\ Entries(o, h) \in Seq(AllEntries(o))
         /\ Len(Entries(o, h)) = Len(h) /\ DOMAIN Entries(o, h) = 1 .. Len(h)
         /\ \A k \in 1 .. Len(h) : h[k] \in Ids /\ Entries(o, h)[k] = EntryOf(o, h[k])
         /\ Entries(o, h) = <<>> <=> h = <<>>
<1> DEFINE e == Entries(o, h)
           S == AllEntries(o)
<1>1. /\ Len(h) \in Nat /\ DOMAIN h = 1 .. Len(h)
      /\ \A k \in 1 .. Len(h) : h[k] \in Ids
  OBVIOUS
<1>2. e = [k \in 1 .. Len(h) |-> EntryOf(o, h[k])]
  BY <1>1 DEF Entries, EntryOf
<1> HIDE DEF e
<1>3. DOMAIN e = 1 .. Len(h) /\ \A k \in 1 .. Len(h) : e[k] = EntryOf(o, h[k])
  BY <1>2
<1>4. e \in [1 .. Len(h) -> S]
  BY <1>1, <1>2 DEF AllEntries
<1> HIDE DEF S
<1>5. e \in Seq(S) /\ Len(e) = Len(h)
  BY <1>1, <1>4
<1>6. e = <<>> <=> h = <<>>
  BY <1>1, <1>5
<1> QED BY <1>1, <1>3, <1>5, <1>6 DEF e, S

LEMMA EntriesTail ==
  ASSUME NEW o, NEW h \in Seq(Ids), h # <<>>
  PROVE  /\ Head(Entries(o, h)) = EntryOf(o, h[1])
         /\ Tail(Entries(o, h)) = Entries(o, Tail(h))
<1> DEFINE S == AllEntries(o)
           e == Entries(o, h)
           f == Entries(o, Tail(h))
<1>1. /\ Tail(h) \in Seq(Ids) /\ Len(h) \in Nat \ {0} /\ Len(Tail(h)) = Len(h) - 1
      /\ \A k \in 1 .. Len(h) - 1 : Tail(h)[k] = h[k + 1]
  BY HeadTailProperties
<1>2. /\ e \in Seq(S) /\ Len(e) = Len(h)
      /\ \A k \in 1 .. Len(h) : e[k] = EntryOf(o, h[k])
  BY EntriesFacts
<1>3. /\ f \in Seq(S) /\ Len(f) = Len(Tail(h))
      /\ \A k \in 1 .. Len(Tail(h)) : f[k] = EntryOf(o, Tail(h)[k])
  <2>1. Tail(h) \in Seq(Ids)
    BY <1>1
  <2> QED BY ONLY <2>1, EntriesFacts
<1> HIDE DEF S, e, f
<1>4. /\ Head(e) = e[1] /\ Tail(e) \in Seq(S) /\ Len(Tail(e)) = Len(h) - 1
      /\ \A k \in 1 .. Len(h) - 1 : Tail(e)[k] = e[k + 1]
  BY <1>1, <1>2, HeadTailProperties
<1>5. ASSUME NEW k \in 1 .. Len(h) - 1 PROVE Tail(e)[k] = f[k]
  <2>1. k + 1 \in 1 .. Len(h)
    BY <1>1
  <2> QED BY <1>1, <1>2, <1>3, <1>4, <2>1
<1>6. Tail(e) = f
  BY <1>1, <1>3, <1>4, <1>5, SeqEqual
<1>7. Head(e) = EntryOf(o, h[1])
  BY <1>1, <1>2, <1>4
<1> QED BY <1>6, <1>7 DEF e, f

LEMMA EntriesRemove ==
  ASSUME NEW o, NEW h \in Seq(Ids), NEW i \in 1 .. Len(h)
  PROVE  RemoveAt(Entries(o, h), i) = Entries(o, RemoveAt(h, i))
<1> DEFINE S == AllEntries(o)
           e == Entries(o, h)
           g == RemoveAt(h, i)
           f == Entries(o, g)
<1>1. /\ g \in Seq(Ids) /\ Len(h) \in Nat /\ DOMAIN g = 1 .. Len(h) - 1
      /\ \A k \in 1 .. Len(h) - 1 : g[k] = IF k <= i - 1 THEN h[k] ELSE h[k + 1]
  BY ErasedPositions
<1> HIDE DEF g
<1>2. Len(g) = Len(h) - 1 /\ i \in Int /\ 1 <= i
  BY <1>1
<1>3. /\ e \in Seq(S) /\ Len(e) = Len(h) /\ DOMAIN e = 1 .. Len(h)
      /\ \A k \in 1 .. Len(h) : e[k] = EntryOf(o, h[k])
  BY EntriesFacts
<1>4. /\ f \in Seq(S) /\ Len(f) = Len(g)
      /\ \A k \in 1 .. Len(g) : f[k] = EntryOf(o, g[k])
  BY <1>1, EntriesFacts
<1> HIDE DEF S, e, f
<1>5. /\ RemoveAt(e, i) \in Seq(S) /\ DOMAIN RemoveAt(e, i) = 1 .. Len(h) - 1
      /\ \A k \in 1 .. Len(h) - 1 :
           RemoveAt(e, i)[k] = IF k <= i - 1 THEN e[k] ELSE e[k + 1]
  BY <1>3, ErasedPositions
<1>6. Len(RemoveAt(e, i)) = Len(h) - 1
  BY <1>1, <1>2, <1>5
<1>7. ASSUME NEW k \in 1 .. Len(h) - 1 PROVE RemoveAt(e, i)[k] = f[k]
  <2>1. k \in 1 .. Len(h) /\ k + 1 \in 1 .. Len(h)
    BY <1>1
  <2> QED BY <1>1, <1>2, <1>3, <1>4, <1>5, <2>1
<1>8. RemoveAt(e, i) = f
  BY <1>2, <1>4, <1>5, <1>6, <1>7, SeqEqual
<1> QED BY <1>8 DEF e, f, g

LEMMA EntriesInsert ==
  ASSUME NEW o, NEW h \in Seq(Ids), NEW i \in 1 .. Len(h) + 1, NEW x \in Ids
  PROVE  InsertAt(Entries(o, h), i, EntryOf(o, x)) = Entries(o, InsertAt(h, i, x))
<1> DEFINE S == AllEntries(o)
           e == Entries(o, h)
           a == EntryOf(o, x)
           g == InsertAt(h, i, x)
           f == Entries(o, g)
<1>1. /\ g \in Seq(Ids) /\ Len(h) \in Nat /\ DOMAIN g = 1 .. Len(h) + 1
      /\ \A k \in 1 .. Len(h) + 1 :
           g[k] = IF k < i THEN h[k] ELSE IF k = i THEN x ELSE h[k - 1]
  BY InsertedPositions
<1> HIDE DEF g
<1>2. Len(g) = Len(h) + 1 /\ i \in Int /\ 1 <= i /\ i <= Len(h) + 1
  BY <1>1
<1>3. /\ e \in Seq(S) /\ Len(e) = Len(h) /\ DOMAIN e = 1 .. Len(h)
      /\ \A k \in 1 .. Len(h) : e[k] = EntryOf(o, h[k])
  BY EntriesFacts
<1>4. /\ f \in Seq(S) /\ Len(f) = Len(g)
      /\ \A k \in 1 .. Len(g) : f[k] = EntryOf(o, g[k])
  BY <1>1, EntriesFacts
<1>5. a \in S
  BY DEF AllEntries
<1> HIDE DEF S, e, f, a
<1>6. /\ InsertAt(e, i, a) \in Seq(S) /\ DOMAIN InsertAt(e, i, a) = 1 .. Len(h) + 1
      /\ \A k \in 1 .. Len(h) + 1 :
           InsertAt(e, i, a)[k] = IF k < i THEN e[k] ELSE IF k = i THEN a ELSE e[k - 1]
  <2>1. i \in 1 .. Len(e) + 1
    BY <1>3
  <2>2. /\ InsertAt(e, i, a) \in Seq(S) /\ DOMAIN InsertAt(e, i, a) = 1 .. Len(e) + 1
        /\ \A k \in 1 .. Len(e) + 1 :
             InsertAt(e, i, a)[k] = IF k < i THEN e[k] ELSE IF k = i THEN a ELSE e[k - 1]
    <3>1. e \in Seq(S)
      BY <1>3
    <3> QED BY ONLY <1>5, <2>1, <3>1, InsertedPositions
  <2> QED BY <1>3, <2>2
<1>7. Len(InsertAt(e, i, a)) = Len(h) + 1
  BY <1>1, <1>6
<1>8. ASSUME NEW k \in 1 .. Len(h) + 1 PROVE InsertAt(e, i, a)[k] = f[k]
  <2>1. f[k] = EntryOf(o, g[k])
    BY <1>2, <1>4
  <2>2. CASE k < i
    <3>1. k \in 1 .. Len(h)
      BY <1>1, <1>2, <2>2
    <3> QED BY <1>1, <1>3, <1>6, <2>1, <2>2, <3>1
  <2>3. CASE k = i
    <3>1. ~(k < i)
      BY <1>2, <2>3
    <3> QED BY <1>1, <1>6, <2>1, <2>3, <3>1 DEF a
  <2>4. CASE k > i
    <3>1. ~(k < i) /\ k # i /\ k - 1 \in 1 .. Len(h)
      BY <1>1, <1>2, <2>4
    <3> QED BY <1>1, <1>3, <1>6, <2>1, <3>1
  <2>5. k < i \/ k = i \/ k > i
    BY <1>2
  <2> QED BY <2>2, <2>3, <2>4, <2>5
<1>9. InsertAt(e, i, a) = f
  BY <1>2, <1>4, <1>6, <1>7, <1>8, SeqEqual
<1> QED BY <1>9 DEF e, f, g, a

(* The entries of the same line, of orders of the same prices. *)
LEMMA EntriesSame ==
  ASSUME NEW o, NEW o2, NEW h \in Seq(Ids),
         \A x \in ToSet(h) : o2[x].price = o[x].price /\ o2[x].leaves = o[x].leaves
  PROVE  Entries(o2, h) = Entries(o, h)
<1>1. \A k \in DOMAIN h : h[k] \in ToSet(h)
  BY DEF ToSet
<1> QED BY <1>1 DEF Entries

(* The entries once n of the first order has traded. *)
LEMMA EntriesTraded ==
  ASSUME NEW o, NEW o2, NEW h \in Seq(Ids), h # <<>>, IsInjective(h), NEW n,
         \A x \in ToSet(h) : o2[x].price = o[x].price,
         \A x \in ToSet(h) : x # h[1] => o2[x].leaves = o[x].leaves,
         o2[h[1]].leaves = o[h[1]].leaves - n
  PROVE  Entries(o2, h) = [Entries(o, h) EXCEPT ![1].left = @ - n]
<1> DEFINE e == Entries(o, h)
           f == Entries(o2, h)
<1>1. /\ Len(h) \in Nat /\ DOMAIN h = 1 .. Len(h) /\ 1 \in 1 .. Len(h)
      /\ \A k \in 1 .. Len(h) : h[k] \in ToSet(h)
      /\ \A j, k \in 1 .. Len(h) : h[j] = h[k] => j = k
  BY DEF ToSet, IsInjective
<1>2. /\ DOMAIN e = 1 .. Len(h) /\ DOMAIN f = 1 .. Len(h)
      /\ \A k \in 1 .. Len(h) : e[k] = EntryOf(o, h[k]) /\ f[k] = EntryOf(o2, h[k])
      /\ e = [k \in 1 .. Len(h) |-> e[k]] /\ f = [k \in 1 .. Len(h) |-> f[k]]
  BY <1>1 DEF Entries, EntryOf
<1> HIDE DEF e, f
<1>3. f[1] = [e[1] EXCEPT !.left = @ - n]
  <2>1. f[1] = [id |-> h[1], price |-> o[h[1]].price, left |-> o[h[1]].leaves - n]
    BY <1>1, <1>2 DEF EntryOf
  <2>2. e[1] = [id |-> h[1], price |-> o[h[1]].price, left |-> o[h[1]].leaves]
    BY <1>1, <1>2 DEF EntryOf
  <2> QED BY <2>1, <2>2
<1>4. ASSUME NEW k \in 1 .. Len(h), k # 1 PROVE f[k] = e[k]
  <2>1. h[k] # h[1]
    BY <1>1, <1>4
  <2> QED BY <1>1, <1>2, <2>1 DEF EntryOf
<1>5. f = [e EXCEPT ![1] = [e[1] EXCEPT !.left = @ - n]]
  BY <1>1, <1>2, <1>3, <1>4
<1> QED BY <1>5 DEF e, f

-----------------------------------------------------------------------------
(* The lines of the book, and its steps seen as steps of PriorityBook. *)

(* Both sides of the book form a line. *)
Aligned == \A s \in Sides : IsLine(s, level[s], Line(s))

(* What the book of queues knows of order x stays as it is. *)
Kept(x) == orders'[x].price = orders[x].price /\ orders'[x].leaves = orders[x].leaves

LEMMA SidesFacts ==
  ASSUME Structure
  PROVE  /\ \A s \in Sides : OneSide(level[s])
         /\ \A s \in Sides : \A x \in Standing(level[s]) :
              /\ x \in active /\ x \in Ids /\ x # cur
              /\ orders[x].side = s /\ orders[x].price \in Prices
              /\ x \in ToSet(level[s][orders[x].price])
<1>1. ASSUME NEW s \in Sides PROVE OneSide(level[s])
  <2>1. level[s] \in [Prices -> Seq(Ids)] /\ \A p \in Prices : IsInjective(level[s][p])
    BY StructureFacts DEF Deques
  <2>2. \A p \in Prices : \A x \in ToSet(level[s][p]) : orders[x].price = p
    BY StructureFacts
  <2> QED BY <2>1, <2>2 DEF OneSide
<1>2. ASSUME NEW s \in Sides, NEW x \in Standing(level[s])
      PROVE  /\ x \in active /\ x \in Ids /\ x # cur
             /\ orders[x].side = s /\ orders[x].price \in Prices
             /\ x \in ToSet(level[s][orders[x].price])
  <2>1. PICK p \in Prices : x \in ToSet(level[s][p])
    BY <1>1, StandingFacts
  <2> QED BY <2>1, StructureFacts
<1> QED BY <1>1, <1>2

LEMMA NextSidesFacts ==
  ASSUME Structure'
  PROVE  \A s \in Sides : OneSide(level'[s])
<1> SUFFICES ASSUME NEW s \in Sides PROVE OneSide(level'[s])
  OBVIOUS
<1>1. level'[s] \in [Prices -> Seq(Ids)] /\ \A p \in Prices : IsInjective(level'[s][p])
  BY DEF Structure, TypeOK, BookIndexed
<1>2. \A p \in Prices : \A x \in ToSet(level'[s][p]) : orders'[x].price = p
  BY DEF Structure, BookIndexed
<1> QED BY <1>1, <1>2 DEF OneSide

(* One side's line becomes h, and the other side is left alone. *)
LEMMA OneSideMoves ==
  ASSUME Structure, Structure', Aligned, NEW s \in Sides, NEW h, IsLine(s, level'[s], h),
         \A t \in Sides : t # s => level'[t] = level[t],
         \A t \in Sides : t # s => \A x \in Standing(level[t]) : Kept(x)
  PROVE  Aligned' /\ Queues' = [Queues EXCEPT ![s] = Entries(orders', h)]
<1>1. ASSUME NEW t \in Sides
      PROVE  /\ IsLine(t, level'[t], IF t = s THEN h ELSE Line(t))
             /\ LineUp(t, level'[t]) = IF t = s THEN h ELSE Line(t)
  <2>1. IsLine(t, level'[t], IF t = s THEN h ELSE Line(t))
    BY DEF Aligned
  <2> QED BY <2>1, NextSidesFacts, LineUpIsLine
<1>2. Aligned'
  BY <1>1 DEF Aligned, Line
<1>3. ASSUME NEW t \in Sides
      PROVE  Entries(orders', LineUp(t, level'[t]))
               = IF t = s THEN Entries(orders', h) ELSE Queues[t]
  <2>1. CASE t = s
    BY <1>1, <2>1
  <2>2. CASE t # s
    <3>1. Line(t) \in Seq(Ids) /\ ToSet(Line(t)) = Standing(level[t])
      BY DEF Aligned, IsLine
    <3>2. Entries(orders', Line(t)) = Entries(orders, Line(t))
      BY <2>2, <3>1, EntriesSame DEF Kept
    <3>3. Queues[t] = Entries(orders, Line(t))
      BY DEF Queues, Queue
    <3> QED BY <1>1, <2>2, <3>2, <3>3
  <2> QED BY <2>1, <2>2
<1>4. Queues' = [t \in Sides |-> Entries(orders', LineUp(t, level'[t]))]
  BY DEF Queues, Queue, Line
<1>5. Queues = [t \in Sides |-> Queues[t]]
  BY DEF Queues
<1>6. Queues' = [t \in Sides |-> IF t = s THEN Entries(orders', h) ELSE Queues[t]]
  BY <1>3, <1>4
<1>7. [t \in Sides |-> IF t = s THEN Entries(orders', h) ELSE Queues[t]]
        = [Queues EXCEPT ![s] = Entries(orders', h)]
  BY <1>5
<1> QED BY <1>2, <1>6, <1>7

(* Nothing changes that the book of queues knows of. *)
LEMMA NothingMoves ==
  ASSUME Structure, Structure', Aligned, level' = level,
         \A x \in active : Kept(x)
  PROVE  Aligned' /\ Queues' = Queues
<1> DEFINE s == "BUY"
<1>1. s \in Sides /\ \A t \in Sides : \A x \in Standing(level[t]) : Kept(x)
  BY SidesFacts DEF Sides
<1>2. /\ IsLine(s, level'[s], Line(s))
      /\ Line(s) \in Seq(Ids) /\ ToSet(Line(s)) = Standing(level[s])
  BY <1>1 DEF Aligned, IsLine
<1>3. Entries(orders', Line(s)) = Entries(orders, Line(s))
  BY <1>1, <1>2, EntriesSame DEF Kept
<1>4. Aligned' /\ Queues' = [Queues EXCEPT ![s] = Entries(orders', Line(s))]
  BY <1>1, <1>2, OneSideMoves
<1>5. Queues = [t \in Sides |-> Queues[t]] /\ Queues[s] = Entries(orders, Line(s))
  BY <1>1 DEF Queues, Queue
<1> HIDE DEF s
<1> QED BY <1>1, <1>3, <1>4, <1>5

(* The order at the front of the best level is at the head of the line. *)
LEMMA HeadOfLine ==
  ASSUME Structure, Aligned, NEW s \in Sides, NEW p \in Prices, IsBest(s, p)
  PROVE  /\ level[s][p] # <<>> /\ Line(s) # <<>> /\ Line(s) \in Seq(Ids)
         /\ Line(s)[1] = Head(level[s][p])
<1> DEFINE d == level[s][p]
           h == Line(s)
<1>1. /\ d \in Seq(Ids) /\ d # <<>> /\ IsInjective(d)
      /\ \A q \in Prices : q \in listed[s] <=> level[s][q] # <<>>
  BY StructureFacts DEF IsBest, Deques
<1>2. OneSide(level[s]) /\ IsLine(s, level[s], h)
  BY SidesFacts DEF Aligned
<1>3. Head(d) \in ToSet(d) /\ Head(d) = d[1] /\ 1 \in DOMAIN d /\ DOMAIN d = 1 .. Len(d)
  BY <1>1, PopQueue
<1> HIDE DEF h
<1>4. Head(d) \in Standing(level[s])
  BY <1>2, <1>3, StandingFacts
<1>5. /\ h \in Seq(Ids) /\ Len(h) \in Nat
      /\ \A j, k \in 1 .. Len(h) : j < k => Precedes(s, level[s], h[j], h[k])
      /\ \A x \in Standing(level[s]) : \E k \in 1 .. Len(h) : h[k] = x
  <2>1. h \in Seq(Ids) /\ Len(h) \in Nat /\ ToSet(h) = Standing(level[s])
    BY <1>2 DEF IsLine
  <2>2. \A j, k \in 1 .. Len(h) : j < k => Precedes(s, level[s], h[j], h[k])
    BY <1>2, LineOrder
  <2>3. \A x \in Standing(level[s]) : \E k \in 1 .. Len(h) : h[k] = x
    BY <2>1 DEF ToSet
  <2> QED BY <2>1, <2>2, <2>3
<1>6. PICK k \in 1 .. Len(h) : h[k] = Head(d)
  BY <1>4, <1>5
<1>7. ~Precedes(s, level[s], h[1], Head(d))
  <2> SUFFICES ASSUME Precedes(s, level[s], h[1], Head(d)) PROVE FALSE
    OBVIOUS
  <2>1. PICK q \in Prices, r \in Prices :
          /\ h[1] \in ToSet(level[s][q]) /\ Head(d) \in ToSet(level[s][r])
          /\ Better(s, q, r) \/ (q = r /\ Behind(level[s][q], h[1], Head(d)))
    BY DEF Precedes
  <2>2. r = p
    BY <1>2, <1>3, <2>1 DEF OneSide
  <2>3. ~Better(s, q, p)
    <3>1. q \in listed[s]
      BY <1>1, <2>1, EmptyQueue
    <3> QED BY <3>1, PricesCompare DEF IsBest
  <2>4. Behind(d, h[1], Head(d))
    BY <2>1, <2>2, <2>3
  <2>5. PICK i \in DOMAIN d, j \in DOMAIN d : i < j /\ d[j] = Head(d)
    BY <2>4 DEF Behind
  <2>6. j = 1
    BY <1>1, <1>3, <2>5 DEF IsInjective
  <2> QED BY <1>3, <2>5, <2>6
<1>8. k = 1
  BY <1>5, <1>6, <1>7
<1>9. h # <<>>
  BY <1>5, <1>6
<1> QED BY <1>1, <1>5, <1>6, <1>8, <1>9 DEF h

-----------------------------------------------------------------------------
(* The words of PriorityBook, in those of the book. *)

LEMMA SameWords ==
  /\ \A s : Abstract!Other(s) = Opposite(s)
  /\ \A t, p : Abstract!Accepts(t, p) <=>
                 t.market \/ (IF t.side = "BUY" THEN p <= t.price ELSE p >= t.price)
BY DEF Abstract!Other, Opposite, Abstract!Accepts

LEMMA InsertBehind ==
  ASSUME NEW q, NEW s, NEW e, NEW c,
         Cardinality({j \in DOMAIN q : ~Better(s, e.price, q[j].price)}) = c
  PROVE  Abstract!Insert(q, s, e) = InsertAt(q, c + 1, e)
<1>1. \A T : Abstract!Cardinality(T) = Cardinality(T)
  BY DEF Abstract!Cardinality, Cardinality
<1>2. \A f, i, x : Abstract!InsertAt(f, i, x) = InsertAt(f, i, x)
  BY DEF Abstract!InsertAt, InsertAt
<1>3. \A p1, p2 : Abstract!Ahead(s, p1, p2) <=> Better(s, p1, p2)
  BY DEF Abstract!Ahead, Better
<1>4. {j \in DOMAIN q : ~Abstract!Ahead(s, e.price, q[j].price)}
        = {j \in DOMAIN q : ~Better(s, e.price, q[j].price)}
  BY <1>3
<1> QED BY <1>1, <1>2, <1>4 DEF Abstract!Insert

LEMMA SameRemoval == \A f, i : Abstract!RemoveAt(f, i) = RemoveAt(f, i)
BY DEF Abstract!RemoveAt, RemoveAt

(* An order that joins a line, as an entry that joins a queue. *)
LEMMA EntriesQueued ==
  ASSUME NEW o, NEW s, NEW h \in Seq(Ids), NEW x \in Ids, NEW c \in 0 .. Len(h),
         Cardinality(AsGood(o, s, h, o[x].price)) = c
  PROVE  Abstract!Insert(Entries(o, h), s, EntryOf(o, x)) = Entries(o, InsertAt(h, c + 1, x))
<1> DEFINE q == Entries(o, h)
           e == EntryOf(o, x)
<1>1. /\ Len(h) \in Nat /\ DOMAIN h = 1 .. Len(h) /\ DOMAIN q = 1 .. Len(h)
      /\ \A k \in 1 .. Len(h) : q[k] = EntryOf(o, h[k])
  BY EntriesFacts
<1>2. e.price = o[x].price /\ \A k \in 1 .. Len(h) : q[k].price = o[h[k]].price
  BY <1>1 DEF EntryOf
<1> HIDE DEF q, e
<1>3. {j \in DOMAIN q : ~Better(s, e.price, q[j].price)}
        = AsGood(o, s, h, o[x].price)
  BY <1>1, <1>2 DEF AsGood
<1>4. Abstract!Insert(q, s, e) = InsertAt(q, c + 1, e)
  BY <1>3, InsertBehind
<1>5. InsertAt(q, c + 1, e) = Entries(o, InsertAt(h, c + 1, x))
  <2>1. c + 1 \in 1 .. Len(h) + 1
    BY <1>1
  <2> QED BY <2>1, EntriesInsert DEF q, e
<1> QED BY <1>4, <1>5 DEF q, e

(* The taker, and what it could trade with. *)
LEMMA TakerFacts ==
  ASSUME Structure
  PROVE  /\ ~InLoop => TakerNow = None
         /\ InLoop => /\ TakerNow # None
                      /\ TakerNow = [id |-> cur, side |-> orders[cur].side,
                                     market |-> IsMarket(orders[cur]),
                                     price |-> orders[cur].price, left |-> orders[cur].leaves]
                      /\ cur \in Ids /\ orders[cur] \in Order /\ orders[cur].side \in Sides
<1>1. ~InLoop => TakerNow = None
  BY DEF Structure, LoopState, TakerNow
<1>2. ASSUME InLoop
      PROVE  /\ TakerNow # None
             /\ TakerNow = [id |-> cur, side |-> orders[cur].side,
                            market |-> IsMarket(orders[cur]),
                            price |-> orders[cur].price, left |-> orders[cur].leaves]
             /\ cur \in Ids /\ orders[cur] \in Order /\ orders[cur].side \in Sides
  <2>1. cur \in Ids /\ orders[cur] \in Order
    BY <1>2, StructureFacts
  <2>2. TakerNow = [id |-> cur, side |-> orders[cur].side, market |-> IsMarket(orders[cur]),
                    price |-> orders[cur].price, left |-> orders[cur].leaves]
    BY <2>1, NoneAssumption DEF TakerNow
  <2>3. TakerNow \in Abstract!Taker
    BY <2>1, <2>2 DEF Abstract!Taker, Order, Sides, IsMarket
  <2> QED BY <2>1, <2>2, <2>3, NoTakerAssumption DEF Order
<1> QED BY <1>1, <1>2

LEMMA TakerTrades ==
  ASSUME Structure, Aligned, InLoop, NEW p \in Prices, IsBest(Opposite(orders[cur].side), p)
  PROVE  /\ Abstract!CanTrade(TakerNow) <=> Crosses(orders[cur], p)
         /\ Queues[Opposite(orders[cur].side)] # <<>>
<1> DEFINE opp == Opposite(orders[cur].side)
           h == Line(opp)
<1>1. /\ TakerNow = [id |-> cur, side |-> orders[cur].side, market |-> IsMarket(orders[cur]),
                     price |-> orders[cur].price, left |-> orders[cur].leaves]
      /\ opp \in Sides
  BY TakerFacts, OppositeFacts
<1>2. level[opp][p] # <<>> /\ h # <<>> /\ h \in Seq(Ids) /\ h[1] = Head(level[opp][p])
  BY <1>1, HeadOfLine
<1>3. orders[h[1]].price = p
  BY <1>1, <1>2, StructureFacts, PopQueue DEF Deques
<1>4. Queues[opp] = Entries(orders, h)
  BY <1>1 DEF Queues, Queue
<1> HIDE DEF opp, h
<1>5. Queues[opp] # <<>> /\ Head(Queues[opp]).price = p
  BY <1>2, <1>3, <1>4, EntriesFacts, EntriesTail DEF EntryOf
<1>6. TakerNow.side = orders[cur].side /\ TakerNow.price = orders[cur].price
      /\ (TakerNow.market <=> IsMarket(orders[cur]))
  BY <1>1
<1>7. Abstract!Accepts(TakerNow, p) <=> Crosses(orders[cur], p)
  BY <1>6, SameWords DEF Crosses
<1>8. Abstract!Other(TakerNow.side) = opp
  BY <1>6, SameWords DEF opp
<1> QED BY <1>5, <1>7, <1>8 DEF Abstract!CanTrade, opp

LEMMA TakerIsStuck ==
  ASSUME Structure, Aligned, InLoop, listed[Opposite(orders[cur].side)] = {}
  PROVE  ~Abstract!CanTrade(TakerNow)
<1> DEFINE opp == Opposite(orders[cur].side)
           h == Line(opp)
<1>1. TakerNow.side = orders[cur].side /\ opp \in Sides
  BY TakerFacts, OppositeFacts
<1>2. \A p \in Prices : level[opp][p] = <<>>
  BY <1>1, StructureFacts DEF Deques
<1>3. OneSide(level[opp]) /\ IsLine(opp, level[opp], h)
  BY <1>1, SidesFacts DEF Aligned
<1> HIDE DEF opp, h
<1>4. Standing(level[opp]) = {}
  BY <1>2, <1>3, StandingFacts DEF ToSet
<1>5. h = <<>>
  BY <1>3, <1>4, EmptyQueue DEF IsLine
<1>6. Queues[opp] = <<>>
  BY <1>1, <1>3, <1>5, EntriesFacts DEF Queues, Queue, h, IsLine
<1>7. Abstract!Other(TakerNow.side) = opp
  BY <1>1, SameWords DEF opp
<1> QED BY <1>6, <1>7 DEF Abstract!CanTrade

-----------------------------------------------------------------------------
(* A trade is made at the best price, and nothing moves that price before  *)
(* the resting order is settled.                                           *)
BestTraded == phase \in {"triggers", "settle"} => IsBest(RestingSide, LastTrade.price)

LEMMA TradeTaker ==
  ASSUME Structure, NEW p \in Prices, NEW r \in Ids, Trade(p, r)
  PROVE  /\ cur' = cur /\ level' = level /\ listed' = listed
         /\ SameTerms(orders[cur], orders'[cur])
         /\ LastTrade'.price = p
<1>1. cur' = cur /\ level' = level /\ listed' = listed
  BY DEF Trade
<1> DEFINE qty == TradeQty(orders[cur], orders[r])
<1>2. SameTerms(orders[cur], orders'[cur])
  <2>1. orders'[cur] = Fill(orders[cur], qty) /\ qty \in Quantity /\ orders[cur] \in Order
    BY TradeFacts, FacingFacts DEF Trade
  <2> HIDE DEF qty
  <2> QED BY <2>1, FillTyped
<1>3. LastTrade'.price = p
  <2>1. PICK t : trades' = Append(trades, t) /\ t.price = p
    BY DEF Trade
  <2>2. trades \in Seq(Trades)
    BY DEF Structure, TypeOK, Trades
  <2> QED BY <2>1, <2>2 DEF LastTrade
<1> QED BY <1>1, <1>2, <1>3

LEMMA NextKeepsBestTraded ==
  ASSUME Structure, BestTraded, [Next]_vars
  PROVE  BestTraded'
<1>1. ASSUME NEW p \in Prices, NEW r \in Ids, Trade(p, r) PROVE BestTraded'
  <2>1. RestingSide' = Opposite(orders[cur].side) /\ LastTrade'.price = p /\ listed' = listed
    BY <1>1, TradeTaker DEF RestingSide, SameTerms
  <2>2. IsBest(Opposite(orders[cur].side), p)
    BY <1>1 DEF Trade, Facing
  <2> QED BY <2>1, <2>2 DEF BestTraded, IsBest
<1>2. CASE FireStop
  <2>1. PICK id \in ToSet(pending) : id \in Ids /\ \A x \in Ids : x # id => orders'[x] = orders[x]
    BY <1>2, FireStopFacts
  <2>2. /\ cur' = cur /\ listed' = listed /\ trades' = trades
        /\ phase = "triggers" /\ phase' = "triggers"
    BY <1>2 DEF FireStop
  <2>3. id \in Held /\ cur \in Ids /\ cur \notin Held
    BY <2>1, <2>2, StructureFacts DEF Held, InLoop, Submitted
  <2>4. RestingSide' = RestingSide /\ LastTrade' = LastTrade
    BY <2>1, <2>2, <2>3 DEF RestingSide, LastTrade
  <2> QED BY <2>2, <2>4 DEF BestTraded, IsBest
<1>3. CASE TriggersDone \/ UNCHANGED vars
  BY <1>3 DEF TriggersDone, vars, bookVars, BestTraded, IsBest, RestingSide, LastTrade
<1>4. CASE phase' \notin {"triggers", "settle"}
  BY <1>4 DEF BestTraded
<1>5. \/ \E p \in Prices, r \in Ids : Trade(p, r)
      \/ FireStop \/ TriggersDone \/ UNCHANGED vars \/ phase' \notin {"triggers", "settle"}
  BY StepCases DEF Quiet, HoldStop, BeginMatch, CancelOrder, ModifyOrder, SettlePartial, EndMatch,
     SkipEmpty, Facing, SettleFilled, SettleIceberg, FinishMatch, TakeBatch, MatchStop
<1> QED BY <1>1, <1>2, <1>3, <1>4, <1>5

-----------------------------------------------------------------------------
(* Step by step. *)

(* The next state is aligned, and its step one of the book of queues. *)
Mapped == Aligned' /\ [Abstract!Next]_(Abstract!vars)

LEMMA TakerStays ==
  ASSUME Structure, Structure', cur' = cur, InLoop,
         orders'[cur].side = orders[cur].side, orders'[cur].kind = orders[cur].kind, Kept(cur)
  PROVE  TakerNow' = TakerNow
BY DEF TakerNow, Kept, IsMarket

(* A step that moves neither the lines nor the taker. *)
LEMMA QuietStep ==
  ASSUME Structure, Structure', Aligned, level' = level, \A x \in active : Kept(x),
         TakerNow' = TakerNow
  PROVE  Mapped
<1>1. Aligned' /\ Queues' = Queues
  BY NothingMoves
<1> QED BY <1>1 DEF Mapped, Abstract!vars

LEMMA StutteringSteps ==
  ASSUME Structure, Structure', Aligned,
         \/ \E id \in Ids, r \in Requests : HoldStop(id, r)
         \/ FireStop \/ SettleIceberg \/ TakeBatch
         \/ TriggersDone \/ SettlePartial \/ EndMatch \/ UNCHANGED vars
  PROVE  Mapped
<1>0. active \subseteq Submitted /\ Submitted \subseteq Ids /\ (InLoop => cur \in Ids)
  BY StructureFacts
<1>1. CASE \E id \in Ids, r \in Requests : HoldStop(id, r)
  <2>1. PICK id \in Ids, r \in Requests : HoldStop(id, r)
    BY <1>1
  <2>2. level' = level /\ phase = "idle" /\ cur' = cur
    BY <2>1 DEF HoldStop
  <2>3. \A x \in active : orders'[x] = orders[x]
    BY <1>0, <2>1, ArrivalFacts
  <2>4. TakerNow' = TakerNow
    BY <2>2 DEF TakerNow, Structure, LoopState, InLoop
  <2> QED BY <2>2, <2>3, <2>4, QuietStep DEF Kept
<1>2. CASE FireStop
  <2>1. PICK id \in ToSet(pending) : \A x \in Ids : x # id => orders'[x] = orders[x]
    BY <1>2, FireStopFacts
  <2>2. level' = level /\ cur' = cur /\ InLoop
    BY <1>2 DEF FireStop, InLoop
  <2>3. id \notin active /\ id # cur
    BY <2>1, <2>2, StructureFacts DEF Held, Structure, OnePlaceEach
  <2>4. \A x \in active \cup {cur} : orders'[x] = orders[x]
    BY <1>0, <2>1, <2>2, <2>3
  <2>5. TakerNow' = TakerNow
    BY <2>2, <2>4, TakerStays DEF Kept
  <2> QED BY <2>2, <2>4, <2>5, QuietStep DEF Kept
<1>3. CASE SettleIceberg
  <2>1. level' = level /\ cur' = cur /\ InLoop /\ phase = "settle"
    BY <1>3 DEF SettleIceberg, InLoop, bookVars
  <2>2. /\ \A x \in Ids : x # Resting => orders'[x] = orders[x]
        /\ orders'[Resting].price = orders[Resting].price
        /\ orders'[Resting].leaves = orders[Resting].leaves
    BY <1>3, SettleIcebergFacts DEF SameTerms
  <2>3. Resting # cur
    BY <2>1, RestingFacts
  <2>4. orders'[cur] = orders[cur] /\ \A x \in active : Kept(x)
    BY <1>0, <2>1, <2>2, <2>3 DEF Kept
  <2>5. TakerNow' = TakerNow
    BY <2>1, <2>4, TakerStays DEF Kept
  <2> QED BY <2>1, <2>4, <2>5, QuietStep
<1>4. CASE TakeBatch \/ TriggersDone \/ SettlePartial \/ EndMatch \/ UNCHANGED vars
  <2>1. level' = level /\ orders' = orders /\ cur' = cur
    BY <1>4 DEF TakeBatch, TriggersDone, SettlePartial, EndMatch, vars, bookVars
  <2>2. TakerNow' = TakerNow /\ \A x \in active : Kept(x)
    BY <2>1 DEF TakerNow, Kept
  <2> QED BY <2>1, <2>2, QuietStep
<1> QED BY <1>1, <1>2, <1>3, <1>4

(* The loops never face an order that offers nothing. *)
LEMMA NoEmptyOrder ==
  ASSUME Structure, OnOffer, NEW p \in Prices, NEW r \in Ids, SkipEmpty(p, r)
  PROVE  FALSE
<1>1. r \in active /\ phase = "match" /\ Visible(orders[r]) = 0
  BY FacingFacts DEF SkipEmpty, Facing
<1> QED BY <1>1 DEF OnOffer, BeingSettled

(* match() takes an order to be matched: a new one, or a triggered stop. *)
LEMMA ArrivingSteps ==
  ASSUME Structure, Structure', Aligned,
         (\E id \in Ids, r \in Requests : BeginMatch(id, r)) \/ MatchStop
  PROVE  Mapped
<1>1. level' = level /\ ~InLoop /\ phase' = "match" /\ \A x \in active : orders'[x] = orders[x]
  <2>1. CASE MatchStop
    BY <2>1 DEF MatchStop, InLoop, bookVars
  <2>2. ASSUME NEW id \in Ids, NEW r \in Requests, BeginMatch(id, r)
        PROVE  level' = level /\ ~InLoop /\ phase' = "match"
                 /\ \A x \in active : orders'[x] = orders[x]
    <3>1. level' = level /\ ~InLoop /\ phase' = "match"
      BY <2>2 DEF BeginMatch, InLoop
    <3>2. id \notin active /\ \A x \in Ids : x # id => orders'[x] = orders[x]
      BY <2>2, ArrivalFacts
    <3>3. active \subseteq Ids
      BY StructureFacts DEF Submitted
    <3> QED BY <3>1, <3>2, <3>3
  <2> QED BY <2>1, <2>2
<1>2. Aligned' /\ Queues' = Queues
  BY <1>1, NothingMoves DEF Kept
<1>3. TakerNow = None
  BY <1>1, TakerFacts
<1>4. TakerNow' \in Abstract!Taker
  <2>1. cur' \in Ids /\ cur' # None /\ orders'[cur'] \in Order
    BY <1>1, NoneAssumption
       DEF Structure, TypeOK, LoopState, InLoop, Placed, Submitted
  <2>2. TakerNow' = [id |-> cur', side |-> orders'[cur'].side, market |-> IsMarket(orders'[cur']),
                     price |-> orders'[cur'].price, left |-> orders'[cur'].leaves]
    BY <2>1 DEF TakerNow
  <2> QED BY <2>1, <2>2 DEF Abstract!Taker, Order, Sides, IsMarket
<1>5. Abstract!Arrive(TakerNow')
  BY <1>2, <1>3 DEF Abstract!Arrive
<1> QED BY <1>2, <1>4, <1>5 DEF Mapped, Abstract!Next

(* What a trade makes of the two orders. *)
LEMMA TradeTerms ==
  ASSUME Structure, IcebergSplit, NEW p \in Prices, NEW r \in Ids, Trade(p, r)
  PROVE  LET qty == TradeQty(orders[cur], orders[r]) IN
         /\ qty \in Quantity
         /\ \A x \in {cur, r} : /\ SameTerms(orders[x], orders'[x])
                                /\ orders'[x].leaves = orders[x].leaves - qty
                                /\ qty <= orders[x].leaves
<1> DEFINE qty == TradeQty(orders[cur], orders[r])
<1>1. /\ orders[r] \in Order /\ orders[cur] \in Order /\ Visible(orders[r]) # 0
      /\ \E s \in Sides : r \in ToSet(level[s][p])
  BY FacingFacts DEF Trade
<1>2. qty \in Quantity /\ orders'[cur] = Fill(orders[cur], qty) /\ orders'[r] = Fill(orders[r], qty)
  BY TradeFacts
<1>3. qty <= orders[cur].leaves /\ qty <= Visible(orders[r])
  BY TradeQtyBounds
<1> HIDE DEF qty
<1>4. Visible(orders[r]) \in Int /\ Visible(orders[r]) <= orders[r].leaves
  <2>1. CASE IsIceberg(orders[r])
    <3>1. Visible(orders[r]) = orders[r].display
      BY <2>1 DEF Visible
    <3>2. orders[r].display = 0 \/ orders[r].display + orders[r].hidden = orders[r].leaves
      BY <1>1, <2>1 DEF IcebergSplit
    <3> QED BY <1>1, <3>1, <3>2, OrderNumbers
  <2>2. CASE ~IsIceberg(orders[r])
    <3>1. Visible(orders[r]) = orders[r].leaves
      BY <2>2 DEF Visible
    <3> QED BY <1>1, <3>1, OrderNumbers
  <2> QED BY <2>1, <2>2
<1>5. qty \in Int
  BY <1>2, QuantityFacts
<1>6. ASSUME NEW x \in {cur, r}
      PROVE  /\ SameTerms(orders[x], orders'[x])
             /\ orders'[x].leaves = orders[x].leaves - qty
             /\ qty <= orders[x].leaves
  <2>1. orders[x] \in Order /\ orders'[x] = Fill(orders[x], qty)
    BY <1>1, <1>2
  <2>2. SameTerms(orders[x], orders'[x])
    BY <1>2, <2>1, FillTyped
  <2>3. Fill(orders[x], qty).leaves = IF qty >= orders[x].leaves THEN 0 ELSE orders[x].leaves - qty
    BY <2>1 DEF Fill, Order
  <2>4. orders[x].leaves \in Int /\ qty <= orders[x].leaves
    <3>1. orders[r].leaves \in Int /\ orders[cur].leaves \in Int
      BY <1>1, OrderNumbers
    <3>2. qty <= orders[r].leaves
      BY <1>3, <1>4, <1>5, <3>1
    <3> QED BY <1>3, <3>1, <3>2
  <2> QED BY <1>5, <2>1, <2>2, <2>3, <2>4
<1> QED BY <1>2, <1>6 DEF qty

(* A trade is one with the head of the other side's queue. *)
LEMMA TradeStep ==
  ASSUME Structure, Structure', Aligned, IcebergSplit, NEW p \in Prices, NEW r \in Ids, Trade(p, r)
  PROVE  Mapped
<1> DEFINE qty == TradeQty(orders[cur], orders[r])
           opp == Opposite(orders[cur].side)
           h   == Line(opp)
<1>1. /\ opp \in Sides /\ r \in ToSet(level[opp][p]) /\ r = Head(level[opp][p]) /\ r # cur
      /\ r \in active /\ orders[r] \in Order /\ orders[cur] \in Order /\ orders[r].side = opp
      /\ orders[cur].side \in Sides
  BY FacingFacts DEF Trade
<1>2. /\ InLoop /\ IsBest(opp, p) /\ Crosses(orders[cur], p) /\ Visible(orders[r]) # 0
      /\ level' = level /\ cur' = cur
  BY DEF Trade, Facing, InLoop
<1>3. \A x \in Ids : x # cur /\ x # r => orders'[x] = orders[x]
  BY TradeFacts
<1>4. /\ qty \in Quantity
      /\ \A x \in {cur, r} : /\ SameTerms(orders[x], orders'[x])
                             /\ orders'[x].leaves = orders[x].leaves - qty
                             /\ qty <= orders[x].leaves
  BY TradeTerms
<1> HIDE DEF qty
<1>6. /\ h # <<>> /\ h \in Seq(Ids) /\ h[1] = r /\ IsLine(opp, level[opp], h)
      /\ ToSet(h) = Standing(level[opp]) /\ IsInjective(h)
  <2>1. h # <<>> /\ h \in Seq(Ids) /\ h[1] = r
    BY <1>1, <1>2, HeadOfLine
  <2>2. IsLine(opp, level[opp], h) /\ OneSide(level[opp])
    BY <1>1, SidesFacts DEF Aligned
  <2> QED BY <2>1, <2>2, LineFacts DEF IsLine
<1>7. /\ Queues[opp] = Entries(orders, h)
      /\ Queues = [t \in Sides |-> Queues[t]]
  BY <1>1 DEF Queues, Queue
<1> HIDE DEF h
<1>8. Entries(orders', h) = [Entries(orders, h) EXCEPT ![1].left = @ - qty]
  <2>1. ASSUME NEW x \in ToSet(h) PROVE x \in Ids /\ x # cur
    <3>1. x \in Standing(level[opp])
      BY <1>6
    <3> QED BY <1>1, <3>1, SidesFacts
  <2>2. \A x \in ToSet(h) : orders'[x].price = orders[x].price
    BY <1>3, <1>4, <2>1 DEF SameTerms
  <2>3. \A x \in ToSet(h) : x # h[1] => orders'[x].leaves = orders[x].leaves
    BY <1>3, <1>6, <2>1
  <2>4. orders'[h[1]].leaves = orders[h[1]].leaves - qty
    BY <1>4, <1>6
  <2>5. h \in Seq(Ids) /\ h # <<>> /\ IsInjective(h)
    BY <1>6
  <2> QED BY ONLY <2>2, <2>3, <2>4, <2>5, EntriesTraded
<1>9. Aligned' /\ Queues' = [Queues EXCEPT ![opp] = Entries(orders', h)]
  <2>1. ASSUME NEW t \in Sides, t # opp, NEW x \in Standing(level[t]) PROVE Kept(x)
    <3>1. x \in Ids /\ x # cur /\ orders[x].side = t
      BY <2>1, SidesFacts
    <3>2. x # r
      BY <1>1, <2>1, <3>1
    <3> QED BY <1>3, <3>1, <3>2 DEF Kept
  <2> HIDE DEF opp
  <2> QED BY <1>1, <1>2, <1>6, <2>1, OneSideMoves
<1>10. /\ TakerNow # None
       /\ TakerNow = [id |-> cur, side |-> orders[cur].side, market |-> IsMarket(orders[cur]),
                      price |-> orders[cur].price, left |-> orders[cur].leaves]
       /\ Abstract!Other(TakerNow.side) = opp
  BY <1>2, TakerFacts, SameWords
<1>11. TakerNow' = [TakerNow EXCEPT !.left = @ - qty]
  <2>1. /\ orders'[cur].side = orders[cur].side /\ orders'[cur].price = orders[cur].price
        /\ orders'[cur].kind = orders[cur].kind
        /\ orders'[cur].leaves = orders[cur].leaves - qty
    BY <1>4 DEF SameTerms
  <2>2. TakerNow' = [id |-> cur, side |-> orders'[cur].side, market |-> IsMarket(orders'[cur]),
                     price |-> orders'[cur].price, left |-> orders'[cur].leaves]
    <3>1. cur # None
      BY <1>10 DEF TakerNow
    <3> QED BY <1>2, <3>1 DEF TakerNow
  <2> QED BY <1>10, <2>1, <2>2 DEF IsMarket
<1>12. Abstract!CanTrade(TakerNow)
  BY <1>2, TakerTrades
<1>13. qty <= Head(Queues[opp]).left
  BY <1>4, <1>6, <1>7, EntriesTail DEF EntryOf
<1> HIDE DEF opp
<1>14. Queues' = [Queues EXCEPT ![opp][1].left = @ - qty]
  <2>1. Queues' = [Queues EXCEPT ![opp] = [Queues[opp] EXCEPT ![1].left = @ - qty]]
    BY <1>7, <1>8, <1>9
  <2> QED BY <2>1
<1>15. Abstract!Take(qty)
  <2>1. qty <= TakerNow.left
    BY <1>4, <1>10
  <2> QED BY <1>10, <1>11, <1>12, <1>13, <1>14, <2>1 DEF Abstract!Take
<1>16. Abstract!Next
  BY <1>4, <1>15 DEF Abstract!Next
<1> QED BY <1>9, <1>16 DEF Mapped

(* A filled order leaves the head of its queue. *)
LEMMA SettlingStep ==
  ASSUME Structure, Structure', Aligned, BestTraded, SettleFilled
  PROVE  Mapped
<1> DEFINE s == RestingSide
           p == LastTrade.price
           h == Line(s)
           x == Resting
<1>1. /\ s \in Sides /\ p \in Prices /\ level[s][p] # <<>> /\ x = Head(level[s][p])
      /\ IsBest(s, p) /\ PopFront(s, p) /\ orders[x].leaves = 0
      /\ orders' = orders /\ cur' = cur
  BY RestingFacts DEF SettleFilled, BestTraded, Resting, IsFilled
<1>2. h # <<>> /\ h \in Seq(Ids) /\ h[1] = x
  BY <1>1, HeadOfLine
<1>3. OneSide(level[s]) /\ OneSide(level'[s]) /\ IsLine(s, level[s], h) /\ IsInjective(h)
  <2>1. OneSide(level[s]) /\ OneSide(level'[s]) /\ IsLine(s, level[s], h)
    BY <1>1, SidesFacts, NextSidesFacts DEF Aligned
  <2> QED BY <2>1, LineFacts
<1>4. Queues[s] = Entries(orders, h) /\ Queues = [t \in Sides |-> Queues[t]]
  BY <1>1 DEF Queues, Queue
<1> HIDE DEF s, p, h, x
<1>5. Deques(level, listed)
  BY StructureFacts
<1>6. Tail(h) \in Seq(Ids) /\ ToSet(Tail(h)) = ToSet(h) \ {x}
  BY <1>2, <1>3, PopQueue
<1>7. \A y, z \in Ids : Behind(Tail(h), y, z) => Behind(h, y, z)
  BY <1>2, PopKeepsOrder
<1>8. \A q \in Prices : ToSet(level'[s][q]) = ToSet(level[s][q]) \ {x}
  <2>1. \A t \in Sides, q \in Prices :
          ToSet(level'[t][q]) = IF t = s /\ q = p THEN ToSet(level[t][q]) \ {Head(level[s][p])}
                                                  ELSE ToSet(level[t][q])
    BY <1>1, <1>5, PopFrontFacts
  <2>2. x \in ToSet(level[s][p])
    BY <1>1, <1>5, PopFrontFacts
  <2>3. \A q \in Prices : x \in ToSet(level[s][q]) => q = p
    BY <1>1, <1>3, <2>2 DEF OneSide
  <2> QED BY <1>1, <2>1, <2>3
<1>9. \A q \in Prices : \A y, z \in Ids : Behind(level'[s][q], y, z) => Behind(level[s][q], y, z)
  BY <1>1, <1>5, PopFrontOrder
<1>10. IsLine(s, level'[s], Tail(h))
  BY <1>3, <1>6, <1>7, <1>8, <1>9, LineWithout
<1>11. \A t \in Sides : t # s => level'[t] = level[t]
  BY <1>1, <1>5 DEF PopFront, Deques
<1>12. Aligned' /\ Queues' = [Queues EXCEPT ![s] = Entries(orders', Tail(h))]
  BY <1>1, <1>10, <1>11, OneSideMoves DEF Kept
<1>13. /\ Tail(Queues[s]) = Entries(orders', Tail(h))
       /\ Queues[s] # <<>> /\ Head(Queues[s]).left = 0
  BY <1>1, <1>2, <1>4, EntriesTail, EntriesFacts DEF EntryOf
<1>14. TakerNow' = TakerNow
  BY <1>1 DEF TakerNow
<1>15. Abstract!Retire(s)
  BY <1>12, <1>13, <1>14 DEF Abstract!Retire
<1> QED BY <1>1, <1>12, <1>15 DEF Mapped, Abstract!Next, Sides

(* The matching loops end: the taker leaves, or its remainder is queued. *)
LEMMA FinishingCondition ==
  ASSUME Structure, Aligned, FinishMatch
  PROVE  IsFilled(orders[cur]) \/ ~Abstract!CanTrade(TakerNow)
<1> DEFINE opp == Opposite(orders[cur].side)
<1>1. InLoop /\ cur \in Submitted /\ opp \in Sides
  BY StructureFacts, TakerFacts, OppositeFacts DEF FinishMatch, InLoop
<1>2. CASE ~IsActive(orders[cur])
  BY <1>1, <1>2 DEF Structure, Placed
<1>3. CASE listed[opp] = {}
  BY <1>1, <1>3, TakerIsStuck
<1>4. CASE \E p \in listed[opp] : IsBest(opp, p) /\ ~Crosses(orders[cur], p)
  <2>1. PICK p \in listed[opp] : IsBest(opp, p) /\ ~Crosses(orders[cur], p)
    BY <1>4
  <2>2. p \in Prices
    BY <1>1, StructureFacts DEF Deques
  <2> QED BY <1>1, <2>1, <2>2, TakerTrades
<1> QED BY <1>2, <1>3, <1>4 DEF FinishMatch

LEMMA LeavingStep ==
  ASSUME Structure, Structure', Aligned, FinishMatch, IsFilled(orders[cur]) \/ IsMarket(orders[cur])
  PROVE  Mapped
<1>1. level' = level /\ orders' = orders /\ cur' = None /\ InLoop
  BY DEF FinishMatch, InLoop
<1>2. Aligned' /\ Queues' = Queues
  BY <1>1, NothingMoves DEF Kept
<1>3. TakerNow' = None
  BY <1>1 DEF TakerNow
<1>4. /\ TakerNow # None
      /\ TakerNow.left = 0 <=> IsFilled(orders[cur])
      /\ TakerNow.market <=> IsMarket(orders[cur])
  BY <1>1, TakerFacts DEF IsFilled
<1>5. Abstract!Leave
  BY <1>2, <1>3, <1>4, FinishingCondition DEF Abstract!Leave
<1>6. Abstract!Next
  BY <1>5 DEF Abstract!Next
<1> QED BY <1>2, <1>6 DEF Mapped

LEMMA RestingStep ==
  ASSUME Structure, Structure', Aligned, FinishMatch,
         ~IsFilled(orders[cur]), ~IsMarket(orders[cur])
  PROVE  Mapped
<1> DEFINE s == orders[cur].side
           p == orders[cur].price
           h == Line(s)
<1>1. /\ cur \in Ids /\ s \in Sides /\ p \in Prices /\ cur \notin active
      /\ \A t \in Sides, q \in Prices :
           ToSet(level'[t][q]) =
             ToSet(level[t][q]) \cup (IF t = s /\ q = p THEN {cur} ELSE {})
  BY BookingFacts
<1>2. /\ level' = Pushed(level, s, p, cur) /\ orders' = orders /\ cur' = None /\ InLoop
  BY DEF FinishMatch, AddToBook, Pushed, InLoop
<1>3. OneSide(level[s]) /\ OneSide(level'[s]) /\ IsLine(s, level[s], h) /\ h \in Seq(Ids)
  BY <1>1, SidesFacts, NextSidesFacts DEF Aligned, IsLine
<1>4. Queues[s] = Entries(orders, h) /\ Queues = [t \in Sides |-> Queues[t]]
  BY <1>1 DEF Queues, Queue
<1>5. Deques(level, listed)
  BY StructureFacts
<1> HIDE DEF s, p, h
<1>6. cur \notin Standing(level[s])
  BY <1>1, SidesFacts
<1>7. \A q \in Prices : \A y, z \in Ids :
        Behind(level'[s][q], y, z) => Behind(level[s][q], y, z) \/ z = cur
  BY <1>1, <1>2, <1>5, PushedOrder
<1>8. Priced(orders, level[s])
  BY <1>1, StructureFacts DEF Priced
<1>9. \A t \in Sides : t # s => level'[t] = level[t]
  BY <1>1, <1>2, <1>5 DEF Pushed, Deques
<1>10. \A q \in Prices :
         ToSet(level'[s][q]) = ToSet(level[s][q]) \cup (IF q = p THEN {cur} ELSE {})
  BY <1>1
<1>11. PICK c \in 0 .. Len(h) :
         /\ Cardinality(AsGood(orders, s, h, p)) = c
         /\ IsLine(s, level'[s], InsertAt(h, c + 1, cur))
  <2>1. Gains(level[s], level'[s], p, cur)
    BY <1>7, <1>10 DEF Gains
  <2>2. cur \in Ids /\ p \in Prices
    BY <1>1
  <2> QED BY <1>3, <1>6, <1>8, <2>1, <2>2, LineWith
<1>12. Aligned' /\ Queues' = [Queues EXCEPT ![s] = Entries(orders', InsertAt(h, c + 1, cur))]
  BY <1>1, <1>2, <1>9, <1>11, OneSideMoves DEF Kept
<1>13. Abstract!Insert(Queues[s], s, EntryOf(orders, cur))
         = Entries(orders, InsertAt(h, c + 1, cur))
  BY <1>1, <1>3, <1>4, <1>11, EntriesQueued DEF p
<1>14. /\ TakerNow # None /\ TakerNow.side = s
       /\ EntryOf(orders, cur) = [id |-> TakerNow.id, price |-> TakerNow.price,
                                  left |-> TakerNow.left]
       /\ TakerNow.left # 0 /\ ~TakerNow.market
  BY <1>2, TakerFacts DEF IsFilled, EntryOf, s
<1>15. TakerNow' = None
  BY <1>2 DEF TakerNow
<1>16. Queues' = [Queues EXCEPT ![s] = Abstract!Insert(@, s, EntryOf(orders, cur))]
  BY <1>2, <1>4, <1>12, <1>13
<1>17. Abstract!Rest
  BY <1>14, <1>15, <1>16, FinishingCondition DEF Abstract!Rest
<1>18. Abstract!Next
  BY <1>17 DEF Abstract!Next
<1> QED BY <1>12, <1>18 DEF Mapped

(* An active order stands somewhere in the line of its side. *)
LEMMA PlaceOf ==
  ASSUME Structure, Aligned, OnOffer, NEW id \in active
  PROVE  /\ orders[id].side \in Sides /\ orders[id].price \in Prices
         /\ id \in ToSet(level[orders[id].side][orders[id].price])
         /\ \E i \in 1 .. Len(Line(orders[id].side)) : Line(orders[id].side)[i] = id
<1> DEFINE s == orders[id].side
<1>1. s \in Sides /\ orders[id].price \in Prices
  BY StructureFacts DEF Structure, Placed, Order
<1>2. id \in ToSet(level[s][orders[id].price])
  BY DEF OnOffer, InLevel
<1>3. OneSide(level[s]) /\ IsLine(s, level[s], Line(s))
  BY <1>1, SidesFacts DEF Aligned
<1>4. id \in Standing(level[s])
  BY <1>1, <1>2, <1>3, StandingFacts
<1>5. \E i \in 1 .. Len(Line(s)) : Line(s)[i] = id
  <2> DEFINE h == Line(s)
  <2>1. h \in Seq(Ids) /\ ToSet(h) = Standing(level[s])
    BY <1>3 DEF IsLine
  <2> HIDE DEF s, h
  <2>2. \E i \in 1 .. Len(h) : h[i] = id
    BY <1>4, <2>1 DEF ToSet
  <2> QED BY <2>2 DEF h
<1> QED BY <1>1, <1>2, <1>5

(* The line without an order that cancelLocked() takes out of its level. *)
LEMMA LineAfterRemoval ==
  ASSUME Structure, Aligned, OnOffer, NEW id \in active
  PROVE  LET s == orders[id].side IN
         /\ Deques(LevelWithout(id), ListedWithout(id))
         /\ OneSide(LevelWithout(id)[s])
         /\ \A t \in Sides : t # s => LevelWithout(id)[t] = level[t]
         /\ \A q \in Prices : ToSet(LevelWithout(id)[s][q]) = ToSet(level[s][q]) \ {id}
         /\ \E i \in 1 .. Len(Line(s)) :
              /\ Line(s)[i] = id
              /\ IsLine(s, LevelWithout(id)[s], RemoveAt(Line(s), i))
<1> DEFINE s == orders[id].side
           h == Line(s)
           l == LevelWithout(id)[s]
<1>0. /\ id \in Ids /\ s \in Sides /\ orders[id].price \in Prices
      /\ \A t \in Sides, p \in Prices :
           id \in ToSet(level[t][p]) => t = orders[id].side /\ p = orders[id].price
  BY PlaceOf, StructureFacts
<1>1. PICK i \in 1 .. Len(h) : h[i] = id
  BY PlaceOf
<1>2. /\ Deques(LevelWithout(id), ListedWithout(id))
      /\ \A t \in Sides, q \in Prices :
           ToSet(LevelWithout(id)[t][q]) = ToSet(level[t][q]) \ {id}
  BY <1>0, StructureFacts, LevelWithoutFacts
<1>3. /\ OneSide(level[s]) /\ IsLine(s, level[s], h) /\ h \in Seq(Ids) /\ IsInjective(h)
      /\ DOMAIN h = 1 .. Len(h)
  <2>1. OneSide(level[s]) /\ IsLine(s, level[s], h)
    BY <1>0, SidesFacts DEF Aligned
  <2> QED BY <2>1, LineFacts
<1>4. \A q \in Prices : ToSet(l[q]) = ToSet(level[s][q]) \ {id}
  BY <1>0, <1>2
<1>5. OneSide(l)
  <2>1. l \in [Prices -> Seq(Ids)] /\ \A q \in Prices : IsInjective(l[q])
    BY <1>0, <1>2 DEF Deques
  <2> HIDE DEF s, l
  <2> QED BY <1>3, <1>4, <2>1 DEF OneSide
<1>6. \A q \in Prices : \A y, z \in Ids : Behind(l[q], y, z) => Behind(level[s][q], y, z)
  BY <1>0, StructureFacts, LevelWithoutOrder
<1>7. \A t \in Sides : t # s => LevelWithout(id)[t] = level[t]
  BY StructureFacts DEF LevelWithout, Deques
<1>8. IsLine(s, l, RemoveAt(h, i))
  <2> HIDE DEF s, h, l
  <2>1. /\ RemoveAt(h, i) \in Seq(Ids)
        /\ ToSet(RemoveAt(h, i)) = ToSet(h) \ {id}
    BY <1>1, <1>3, EraseFromQueue
  <2>2. \A y, z \in Ids : Behind(RemoveAt(h, i), y, z) => Behind(h, y, z)
    BY <1>3, EraseKeepsOrder
  <2> QED BY <1>3, <1>4, <1>5, <1>6, <2>1, <2>2, LineWithout
<1> QED BY <1>1, <1>2, <1>4, <1>5, <1>7, <1>8

(* A cancelled order leaves its queue, wherever in it it stands. *)
LEMMA CancellingStep ==
  ASSUME Structure, Structure', Aligned, OnOffer, NEW id \in Ids, CancelOrder(id)
  PROVE  Mapped
<1> DEFINE s == orders[id].side
           h == Line(s)
<1>1. /\ id \in active /\ phase = "idle" /\ level' = LevelWithout(id) /\ cur' = cur
      /\ \A x \in Ids : x # id => orders'[x] = orders[x]
  BY CancelFacts DEF CancelOrder
<1>2. s \in Sides /\ \A t \in Sides : t # s => level'[t] = level[t]
  BY <1>1, PlaceOf, LineAfterRemoval
<1>3. PICK i \in 1 .. Len(h) : h[i] = id /\ IsLine(s, level'[s], RemoveAt(h, i))
  BY <1>1, LineAfterRemoval
<1>4. /\ h \in Seq(Ids) /\ DOMAIN h = 1 .. Len(h) /\ IsInjective(h)
  <2>1. OneSide(level[s]) /\ IsLine(s, level[s], h)
    BY <1>2, SidesFacts DEF Aligned
  <2> HIDE DEF h, s
  <2> QED BY <2>1, LineFacts
<1>5. Queues[s] = Entries(orders, h) /\ Queues = [t \in Sides |-> Queues[t]]
  BY <1>2 DEF Queues, Queue
<1>6. \A t \in Sides : t # s => \A x \in Standing(level[t]) : Kept(x)
  BY <1>1, SidesFacts DEF Kept
<1> HIDE DEF s, h
<1>7. Aligned' /\ Queues' = [Queues EXCEPT ![s] = Entries(orders', RemoveAt(h, i))]
  BY <1>2, <1>3, <1>6, OneSideMoves
<1>8. Entries(orders', RemoveAt(h, i)) = RemoveAt(Queues[s], i)
  <2>1. /\ RemoveAt(h, i) \in Seq(Ids)
        /\ ToSet(RemoveAt(h, i)) = ToSet(h) \ {id}
    BY <1>3, <1>4, EraseFromQueue
  <2>2. \A x \in ToSet(RemoveAt(h, i)) : x \in Ids /\ x # id
    BY <1>4, <2>1 DEF ToSet
  <2>3. Entries(orders', RemoveAt(h, i)) = Entries(orders, RemoveAt(h, i))
    BY <1>1, <2>1, <2>2, EntriesSame
  <2> QED BY <1>4, <1>5, <2>3, EntriesRemove
<1>9. TakerNow = None /\ TakerNow' = None
  <2>1. cur = None
    BY <1>1 DEF Structure, LoopState, InLoop
  <2> QED BY <1>1, <2>1 DEF TakerNow
<1>10. i \in DOMAIN Queues[s]
  BY <1>4, <1>5, EntriesFacts
<1>11. Queues' = [Queues EXCEPT ![s] = RemoveAt(@, i)]
  BY <1>5, <1>7, <1>8
<1>12. Abstract!Withdraw(s, i)
  BY <1>9, <1>11, SameRemoval DEF Abstract!Withdraw
<1>13. Abstract!Next
  BY <1>2, <1>10, <1>12 DEF Abstract!Next, Sides
<1> QED BY <1>7, <1>13 DEF Mapped

(* An amended order leaves its place and joins the queue anew. *)
LEMMA AmendingStep ==
  ASSUME Structure, Structure', Aligned, OnOffer,
         NEW id \in Ids, NEW a \in Amendments, ModifyOrder(id, a)
  PROVE  Mapped
<1> DEFINE s == orders[id].side
           p == a.price
           h == Line(s)
           m == LevelWithout(id)
<1>1. /\ id \in active /\ phase = "idle" /\ cur' = cur
      /\ s \in Sides /\ p \in Prices /\ a.quantity \in Quantity
      /\ \A x \in Ids : x # id => orders'[x] = orders[x]
      /\ orders'[id].price = p /\ orders'[id].leaves = a.quantity
  <2>1. /\ orders'[id] = PlainOrder(orders[id].side, orders[id].kind, a.price, a.quantity)
        /\ \A x \in Ids : x # id => orders'[x] = orders[x]
    BY ModifyFacts
  <2>2. orders'[id].price = p /\ orders'[id].leaves = a.quantity
    BY <2>1 DEF PlainOrder
  <2>3. id \in active /\ s \in Sides /\ p \in Prices /\ a.quantity \in Quantity
    BY AmendingFacts
  <2>4. phase = "idle" /\ cur' = cur
    BY ONLY ModifyOrder(id, a) DEF ModifyOrder, PlainOrder
  <2> QED BY <2>1, <2>2, <2>3, <2>4
<1>2. level' = Pushed(m, s, p, id)
  BY DEF ModifyOrder, PlainOrder, Pushed
<1>3. /\ Deques(m, ListedWithout(id)) /\ OneSide(m[s])
      /\ \A t \in Sides : t # s => m[t] = level[t]
      /\ \A q \in Prices : ToSet(m[s][q]) = ToSet(level[s][q]) \ {id}
  BY <1>1, LineAfterRemoval
<1>4. PICK i \in 1 .. Len(h) : h[i] = id /\ IsLine(s, m[s], RemoveAt(h, i))
  BY <1>1, LineAfterRemoval
<1>5. /\ h \in Seq(Ids) /\ DOMAIN h = 1 .. Len(h) /\ IsInjective(h)
  <2>1. OneSide(level[s]) /\ IsLine(s, level[s], h)
    BY <1>1, SidesFacts DEF Aligned
  <2> HIDE DEF h, s
  <2> QED BY <2>1, LineFacts
<1>6. Queues[s] = Entries(orders, h) /\ Queues = [t \in Sides |-> Queues[t]]
  BY <1>1 DEF Queues, Queue
<1>7. \A t \in Sides : t # s => \A x \in Standing(level[t]) : Kept(x)
  BY <1>1, SidesFacts DEF Kept
<1>8. \A q \in Prices : \A x \in ToSet(level[s][q]) : x \in Ids /\ orders[x].price = q
  BY <1>1, StructureFacts
<1>9. \A q \in Prices : ToSet(level'[s][q]) =
        (ToSet(level[s][q]) \ {id}) \cup (IF q = p THEN {id} ELSE {})
  BY <1>1, AmendingFacts
<1>10. OneSide(level'[s])
  BY <1>1, NextSidesFacts
<1> DEFINE g == RemoveAt(h, i)
<1> HIDE DEF s, p, h, m
<1>11. /\ g \in Seq(Ids) /\ ToSet(g) = ToSet(h) \ {id}
  BY <1>4, <1>5, EraseFromQueue
<1> HIDE DEF g
<1>12. \A t \in Sides : t # s => level'[t] = level[t]
  BY <1>1, <1>2, <1>3 DEF Pushed, Deques
<1>13. Gains(m[s], level'[s], p, id)
  <2>1. \A q \in Prices : \A y, z \in Ids :
          Behind(level'[s][q], y, z) => Behind(m[s][q], y, z) \/ z = id
    BY <1>1, <1>2, <1>3, PushedOrder
  <2>2. \A q \in Prices :
          ToSet(level'[s][q]) = ToSet(m[s][q]) \cup (IF q = p THEN {id} ELSE {})
    BY <1>3, <1>9
  <2> QED BY <2>1, <2>2 DEF Gains
<1>14. Priced(orders', m[s])
  BY <1>1, <1>3, <1>8 DEF Priced
<1>15. id \notin Standing(m[s])
  BY <1>3, StandingFacts
<1>16. PICK c \in 0 .. Len(g) :
         /\ Cardinality(AsGood(orders', s, g, p)) = c
         /\ IsLine(s, level'[s], InsertAt(g, c + 1, id))
  <2>1. IsLine(s, m[s], g)
    BY <1>4 DEF g
  <2>2. OneSide(m[s]) /\ p \in Prices
    BY <1>1, <1>3
  <2> QED BY ONLY id \in Ids, <1>10, <1>13, <1>14, <1>15, <2>1, <2>2, LineWith
<1>17. Aligned' /\ Queues' = [Queues EXCEPT ![s] = Entries(orders', InsertAt(g, c + 1, id))]
  BY <1>1, <1>7, <1>12, <1>16, OneSideMoves
<1>18. Entries(orders', g) = RemoveAt(Queues[s], i)
  <2>1. \A x \in ToSet(g) : x \in Ids /\ x # id
    BY <1>5, <1>11 DEF ToSet
  <2>2. Entries(orders', g) = Entries(orders, g)
    BY <1>1, <1>11, <2>1, EntriesSame
  <2> QED BY <1>5, <1>6, <2>2, EntriesRemove DEF g
<1>19. Abstract!Insert(RemoveAt(Queues[s], i), s, EntryOf(orders', id))
         = Entries(orders', InsertAt(g, c + 1, id))
  BY <1>1, <1>11, <1>16, <1>18, EntriesQueued
<1>20. /\ i \in DOMAIN Queues[s]
       /\ EntryOf(orders', id) = [id |-> Queues[s][i].id, price |-> p, left |-> a.quantity]
  <2>1. i \in DOMAIN Queues[s] /\ Queues[s][i] = EntryOf(orders, h[i])
    BY <1>5, <1>6, EntriesFacts
  <2>2. Queues[s][i].id = id
    BY <1>4, <2>1 DEF EntryOf
  <2> QED BY <1>1, <2>1, <2>2 DEF EntryOf
<1>21. TakerNow = None /\ TakerNow' = None
  <2>1. cur = None
    BY <1>1 DEF Structure, LoopState, InLoop
  <2> QED BY <1>1, <2>1 DEF TakerNow
<1>22. Queues' = [Queues EXCEPT ![s] = Abstract!Insert(RemoveAt(@, i), s,
                                        [id |-> @[i].id, price |-> p, left |-> a.quantity])]
  BY <1>6, <1>17, <1>19, <1>20
<1>23. Abstract!Amend(s, i, p, a.quantity)
  BY <1>21, <1>22, SameRemoval DEF Abstract!Amend
<1>24. Abstract!Next
  BY <1>1, <1>20, <1>23 DEF Abstract!Next, Sides
<1> QED BY <1>17, <1>24 DEF Mapped

-----------------------------------------------------------------------------
LEMMA InitMapped == Init => Aligned /\ Abstract!Init
<1> SUFFICES ASSUME Init PROVE Aligned /\ Abstract!Init
  OBVIOUS
<1>1. Structure
  BY InitStructure
<1>2. ASSUME NEW s \in Sides
      PROVE  IsLine(s, level[s], Line(s)) /\ Queue(s) = <<>>
  <2>1. \A p \in Prices : level[s][p] = <<>>
    BY DEF Init
  <2>2. OneSide(level[s])
    BY <1>1, SidesFacts
  <2>3. Standing(level[s]) = {}
    BY <2>1, <2>2, StandingFacts DEF ToSet
  <2>4. <<>> \in Seq(Ids) /\ ToSet(<<>>) = {} /\ \A x, y : ~Behind(<<>>, x, y)
    BY DEF ToSet, Behind
  <2>5. IsLine(s, level[s], <<>>)
    BY <2>3, <2>4 DEF IsLine
  <2>6. Line(s) = <<>>
    BY <2>2, <2>5, LineUpIsLine DEF Line
  <2> QED BY <2>4, <2>5, <2>6, EntriesFacts DEF Queue
<1>3. Queues = [s \in {"BUY", "SELL"} |-> <<>>] /\ TakerNow = None
  BY <1>2 DEF Queues, Sides, TakerNow, Init
<1> QED BY <1>2, <1>3 DEF Aligned, Abstract!Init

LEMMA NextMapped ==
  ASSUME Structure, Structure', IcebergSplit, OnOffer, BestTraded, Aligned, [Next]_vars
  PROVE  Mapped
<1>1. ASSUME FinishMatch PROVE Mapped
  BY <1>1, LeavingStep, RestingStep
<1>2. ASSUME Quiet PROVE Mapped
  BY <1>2, StutteringSteps, NoEmptyOrder DEF Quiet
<1> QED BY <1>1, <1>2, StepCases, StutteringSteps, ArrivingSteps, TradeStep, SettlingStep,
           CancellingStep, AmendingStep

(* The book of levels, lots and stops is a book of two queues: an order is  *)
(* matched with the head of the other side's queue, leaves its own when     *)
(* nothing is left of it or a client says so, and joins one behind          *)
(* everything of an equal or better price.  This is price-time priority, as *)
(* the README promises it.                                                  *)
THEOREM PriceTimePriority ==
  ASSUME LotsFit, LotsShow, AmendmentsLeave
  PROVE  Spec /\ []IcebergsOnlyRest => RefinesPriorityBook
<1>1. Init => BestTraded
  BY DEF Init, BestTraded
<1>2. Structure /\ BestTraded /\ [Next]_vars => BestTraded'
  BY NextKeepsBestTraded
<1>3. /\ Structure /\ Structure' /\ IcebergSplit /\ OnOffer /\ BestTraded /\ Aligned
      /\ [Next]_vars
      => Aligned' /\ [Abstract!Next]_(Abstract!vars)
  BY NextMapped DEF Mapped
<1> QED BY <1>1, <1>2, <1>3, InitMapped, StructureInvariant, LotsAddUp, EverythingOnOffer, PTL
        DEF Spec, RefinesPriorityBook, Abstract!Spec

(* Of clients without icebergs, whose amendments leave something to trade, *)
(* it holds without any condition on what happens.                         *)
THEOREM PlainPriority ==
  ASSUME PlainClients, AmendmentsLeave
  PROVE  Spec => RefinesPriorityBook
<1>1. LotsFit /\ LotsShow /\ (Spec => []IcebergsOnlyRest)
  BY PlainClientsOnlyRest
<1>2. Spec /\ []IcebergsOnlyRest => RefinesPriorityBook
  BY <1>1, PriceTimePriority
<1> QED BY <1>1, <1>2

=============================================================================

---------------------------- MODULE QueueLemmas ----------------------------
(***************************************************************************)
(* Facts about the sequences that stand for the deques and vectors of the  *)
(* book: what a pop, a push or an erasure does to the set of elements of a *)
(* sequence that holds each element once; the least-number principle,      *)
(* which stands in for induction; and with it, that the folds of the       *)
(* community modules fold every finite set.                                *)
(***************************************************************************)
EXTENDS SequencesExt, SequenceTheorems, FiniteSetTheorems, WellFoundedInduction, TLAPS

(* An empty sequence holds nothing, and only an empty one. *)
LEMMA EmptyQueue ==
  ASSUME NEW S, NEW q \in Seq(S)
  PROVE  /\ ToSet(<<>>) = {} /\ IsInjective(<<>>)
         /\ ToSet(q) \subseteq S
         /\ q = <<>> <=> ToSet(q) = {}
BY DEF ToSet, IsInjective

(* A pop removes the front element and no other. *)
LEMMA PopQueue ==
  ASSUME NEW S, NEW q \in Seq(S), q # <<>>, IsInjective(q)
  PROVE  /\ Tail(q) \in Seq(S)
         /\ Head(q) \in S /\ Head(q) \in ToSet(q)
         /\ IsInjective(Tail(q))
         /\ ToSet(Tail(q)) = ToSet(q) \ {Head(q)}
<1>1. /\ Tail(q) \in Seq(S) /\ Len(Tail(q)) = Len(q) - 1
      /\ \A i \in 1 .. Len(q) - 1 : Tail(q)[i] = q[i + 1]
      /\ Head(q) = q[1] /\ Head(q) \in S
      /\ DOMAIN q = 1 .. Len(q) /\ DOMAIN Tail(q) = 1 .. Len(q) - 1
      /\ Len(q) \in Nat \ {0}
  BY HeadTailProperties
<1>2. IsInjective(Tail(q))
  BY <1>1 DEF IsInjective
<1>3. \A i \in DOMAIN q : q[i] # q[1] => i - 1 \in DOMAIN Tail(q) /\ Tail(q)[i - 1] = q[i]
  BY <1>1
<1>4. \A i \in DOMAIN Tail(q) : i + 1 \in DOMAIN q /\ Tail(q)[i] = q[i + 1] /\ q[i + 1] # q[1]
  BY <1>1 DEF IsInjective
<1>5. ToSet(Tail(q)) \subseteq ToSet(q) \ {Head(q)}
  BY <1>1, <1>4 DEF ToSet
<1>6. ASSUME NEW x \in ToSet(q) \ {Head(q)} PROVE x \in ToSet(Tail(q))
  <2>1. PICK i \in DOMAIN q : q[i] = x /\ q[i] # q[1]
    BY <1>1 DEF ToSet
  <2> QED BY <1>3, <2>1 DEF ToSet
<1>7. Head(q) \in ToSet(q)
  <2>1. 1 \in DOMAIN q
    BY <1>1
  <2> QED BY <1>1, <2>1 DEF ToSet
<1> QED BY <1>1, <1>2, <1>5, <1>6, <1>7

(* A push adds one element. *)
LEMMA PushQueue ==
  ASSUME NEW S, NEW q \in Seq(S), NEW e \in S
  PROVE  /\ Append(q, e) \in Seq(S)
         /\ Append(q, e) # <<>>
         /\ ToSet(Append(q, e)) = ToSet(q) \cup {e}
         /\ IsInjective(q) /\ e \notin ToSet(q) => IsInjective(Append(q, e))
<1>1. /\ Append(q, e) \in Seq(S) /\ Append(q, e) # <<>>
      /\ DOMAIN q = 1 .. Len(q) /\ DOMAIN Append(q, e) = 1 .. Len(q) + 1
      /\ \A i \in 1 .. Len(q) : Append(q, e)[i] = q[i]
      /\ Append(q, e)[Len(q) + 1] = e
      /\ Len(q) \in Nat
  BY AppendProperties
<1>2. ToSet(Append(q, e)) = ToSet(q) \cup {e}
  BY <1>1 DEF ToSet
<1>3. ASSUME IsInjective(q), e \notin ToSet(q) PROVE IsInjective(Append(q, e))
  BY <1>1, <1>3 DEF IsInjective, ToSet
<1> QED BY <1>1, <1>2, <1>3

(* What an erasure at a position leaves at each position. *)
LEMMA ErasedPositions ==
  ASSUME NEW S, NEW q \in Seq(S), NEW i \in DOMAIN q
  PROVE  /\ Len(q) \in Nat /\ DOMAIN q = 1 .. Len(q) /\ i \in 1 .. Len(q)
         /\ RemoveAt(q, i) \in Seq(S)
         /\ DOMAIN RemoveAt(q, i) = 1 .. Len(q) - 1
         /\ \A k \in 1 .. Len(q) - 1 :
              RemoveAt(q, i)[k] = IF k <= i - 1 THEN q[k] ELSE q[k + 1]
<1>1. Len(q) \in Nat /\ DOMAIN q = 1 .. Len(q) /\ i \in 1 .. Len(q)
      /\ \A k \in 1 .. Len(q) : q[k] \in S
  OBVIOUS
<1> DEFINE front == SubSeq(q, 1, i - 1)
           back  == SubSeq(q, i + 1, Len(q))
<1>2. /\ front \in Seq(S)
      /\ Len(front) = i - 1
      /\ \A k \in 1 .. i - 1 : front[k] = q[k]
  BY <1>1, SubSeqProperties
<1>3. /\ back \in Seq(S)
      /\ Len(back) = Len(q) - i
      /\ \A k \in 1 .. Len(q) - i : back[k] = q[i + k]
  BY <1>1, SubSeqProperties
<1>9. RemoveAt(q, i) = front \o back
  BY DEF RemoveAt
<1>4. /\ RemoveAt(q, i) \in Seq(S)
      /\ Len(RemoveAt(q, i)) = Len(q) - 1
      /\ \A k \in 1 .. Len(q) - 1 :
           RemoveAt(q, i)[k] = IF k <= i - 1 THEN q[k] ELSE q[k + 1]
  <2> HIDE DEF front, back
  <2>1. /\ front \o back \in Seq(S)
        /\ Len(front \o back) = Len(q) - 1
        /\ \A k \in 1 .. Len(q) - 1 :
             (front \o back)[k] = IF k <= i - 1 THEN front[k] ELSE back[k - (i - 1)]
    <3>1. /\ front \o back \in Seq(S)
          /\ Len(front \o back) = Len(front) + Len(back)
          /\ \A k \in 1 .. Len(front) + Len(back) :
               (front \o back)[k] = IF k <= Len(front) THEN front[k] ELSE back[k - Len(front)]
      BY <1>2, <1>3, ConcatProperties
    <3>2. Len(front) + Len(back) = Len(q) - 1
      BY <1>1, <1>2, <1>3
    <3> QED BY <1>2, <3>1, <3>2
  <2>2. ASSUME NEW k \in 1 .. Len(q) - 1, ~(k <= i - 1)
        PROVE  back[k - (i - 1)] = q[k + 1]
    <3>1. k - (i - 1) \in 1 .. Len(q) - i /\ i + (k - (i - 1)) = k + 1
      BY <1>1, <2>2
    <3> QED BY <1>3, <3>1
  <2> QED BY <1>1, <1>2, <1>9, <2>1, <2>2
<1>5. DOMAIN RemoveAt(q, i) = 1 .. Len(q) - 1
  BY <1>4
<1> QED BY <1>1, <1>4, <1>5

(* An erasure at a position removes the element there and no other. *)
LEMMA EraseFromQueue ==
  ASSUME NEW S, NEW q \in Seq(S), NEW i \in DOMAIN q, IsInjective(q)
  PROVE  /\ RemoveAt(q, i) \in Seq(S)
         /\ IsInjective(RemoveAt(q, i))
         /\ ToSet(RemoveAt(q, i)) = ToSet(q) \ {q[i]}
<1>1. Len(q) \in Nat /\ DOMAIN q = 1 .. Len(q) /\ i \in 1 .. Len(q)
  BY ErasedPositions
<1>4. /\ RemoveAt(q, i) \in Seq(S)
      /\ \A k \in 1 .. Len(q) - 1 :
           RemoveAt(q, i)[k] = IF k <= i - 1 THEN q[k] ELSE q[k + 1]
  BY ErasedPositions
<1>5. DOMAIN RemoveAt(q, i) = 1 .. Len(q) - 1
  BY ErasedPositions
<1>6. IsInjective(RemoveAt(q, i))
  BY SMTT(30), <1>1, <1>4, <1>5 DEF IsInjective
<1>7. ASSUME NEW x \in ToSet(RemoveAt(q, i)) PROVE x \in ToSet(q) \ {q[i]}
  BY SMTT(30), <1>1, <1>4, <1>5 DEF ToSet, IsInjective
<1>8. ASSUME NEW x \in ToSet(q) \ {q[i]} PROVE x \in ToSet(RemoveAt(q, i))
  <2>1. PICK k \in 1 .. Len(q) : q[k] = x /\ k # i
    BY <1>1 DEF ToSet
  <2>2. CASE k < i
    BY SMTT(30), <1>1, <1>4, <1>5, <2>1, <2>2 DEF ToSet
  <2>3. CASE k > i
    <3>1. k - 1 \in 1 .. Len(q) - 1 /\ RemoveAt(q, i)[k - 1] = x
      BY <1>1, <1>4, <2>1, <2>3
    <3> QED BY <1>5, <3>1 DEF ToSet
  <2> QED BY <1>1, <2>1, <2>2, <2>3
<1> QED BY <1>4, <1>6, <1>7, <1>8

-----------------------------------------------------------------------------
(* y stands behind x in q. *)
Behind(q, x, y) == \E i, j \in DOMAIN q : i < j /\ q[i] = x /\ q[j] = y

LEMMA BehindFacts ==
  ASSUME NEW S, NEW q \in Seq(S), NEW x, NEW y, Behind(q, x, y)
  PROVE  x \in ToSet(q) /\ y \in ToSet(q) /\ x \in S /\ y \in S
BY DEF Behind, ToSet

(* A pop and an erasure leave the others in the order they stood in; a push *)
(* puts nothing behind another element but the one it adds.                 *)
LEMMA PopKeepsOrder ==
  ASSUME NEW S, NEW q \in Seq(S), q # <<>>, NEW x, NEW y, Behind(Tail(q), x, y)
  PROVE  Behind(q, x, y)
<1>1. /\ \A i \in 1 .. Len(q) - 1 : Tail(q)[i] = q[i + 1]
      /\ DOMAIN q = 1 .. Len(q) /\ DOMAIN Tail(q) = 1 .. Len(q) - 1
      /\ Len(q) \in Nat \ {0}
  BY HeadTailProperties
<1>2. PICK i, j \in DOMAIN Tail(q) : i < j /\ Tail(q)[i] = x /\ Tail(q)[j] = y
  BY DEF Behind
<1>3. /\ i + 1 \in DOMAIN q /\ j + 1 \in DOMAIN q /\ i + 1 < j + 1
      /\ q[i + 1] = x /\ q[j + 1] = y
  BY <1>1, <1>2
<1> QED BY <1>3 DEF Behind

LEMMA EraseKeepsOrder ==
  ASSUME NEW S, NEW q \in Seq(S), NEW k \in DOMAIN q, NEW x, NEW y,
         Behind(RemoveAt(q, k), x, y)
  PROVE  Behind(q, x, y)
<1>1. /\ Len(q) \in Nat /\ DOMAIN q = 1 .. Len(q) /\ k \in 1 .. Len(q)
      /\ DOMAIN RemoveAt(q, k) = 1 .. Len(q) - 1
      /\ \A i \in 1 .. Len(q) - 1 :
           RemoveAt(q, k)[i] = IF i <= k - 1 THEN q[i] ELSE q[i + 1]
  BY ErasedPositions
<1>2. PICK i, j \in DOMAIN RemoveAt(q, k) :
        i < j /\ RemoveAt(q, k)[i] = x /\ RemoveAt(q, k)[j] = y
  BY DEF Behind
<1> DEFINE from(n) == IF n <= k - 1 THEN n ELSE n + 1
<1>3. /\ from(i) \in DOMAIN q /\ from(j) \in DOMAIN q /\ from(i) < from(j)
      /\ q[from(i)] = x /\ q[from(j)] = y
  BY <1>1, <1>2
<1> QED BY <1>3 DEF Behind

LEMMA PushKeepsOrder ==
  ASSUME NEW S, NEW q \in Seq(S), NEW e \in S, NEW x, NEW y, Behind(Append(q, e), x, y)
  PROVE  Behind(q, x, y) \/ (y = e /\ x \in ToSet(q))
<1>1. /\ DOMAIN q = 1 .. Len(q) /\ DOMAIN Append(q, e) = 1 .. Len(q) + 1
      /\ \A i \in 1 .. Len(q) : Append(q, e)[i] = q[i]
      /\ Append(q, e)[Len(q) + 1] = e
      /\ Len(q) \in Nat
  BY AppendProperties
<1>2. PICK i, j \in DOMAIN Append(q, e) : i < j /\ Append(q, e)[i] = x /\ Append(q, e)[j] = y
  BY DEF Behind
<1>3. i \in DOMAIN q /\ q[i] = x
  BY <1>1, <1>2
<1>4. CASE j = Len(q) + 1
  BY <1>1, <1>2, <1>3, <1>4 DEF ToSet
<1>5. CASE j # Len(q) + 1
  <2>1. j \in DOMAIN q /\ q[j] = y
    BY <1>1, <1>2, <1>5
  <2> QED BY <1>2, <1>3, <2>1 DEF Behind
<1> QED BY <1>4, <1>5

(* What an insertion at a position puts at each position, and its order.   *)
LEMMA InsertedPositions ==
  ASSUME NEW S, NEW q \in Seq(S), NEW e \in S, NEW i \in 1 .. Len(q) + 1
  PROVE  /\ Len(q) \in Nat /\ DOMAIN q = 1 .. Len(q)
         /\ InsertAt(q, i, e) \in Seq(S)
         /\ DOMAIN InsertAt(q, i, e) = 1 .. Len(q) + 1
         /\ \A k \in 1 .. Len(q) + 1 :
              InsertAt(q, i, e)[k] = IF k < i THEN q[k] ELSE IF k = i THEN e ELSE q[k - 1]
<1> DEFINE front == SubSeq(q, 1, i - 1)
           back  == SubSeq(q, i, Len(q))
           left  == front \o <<e>>
<1>1. Len(q) \in Nat /\ DOMAIN q = 1 .. Len(q) /\ i \in Int /\ 1 <= i /\ i <= Len(q) + 1
  OBVIOUS
<1>2. /\ front \in Seq(S)
      /\ Len(front) = i - 1
      /\ \A k \in 1 .. i - 1 : front[k] = q[k]
  BY <1>1, SubSeqProperties
<1>3. /\ back \in Seq(S)
      /\ Len(back) = Len(q) - i + 1
      /\ \A k \in 1 .. Len(q) - i + 1 : back[k] = q[i + k - 1]
  BY <1>1, SubSeqProperties
<1>4. InsertAt(q, i, e) = left \o back
  BY DEF InsertAt
<1>5. /\ left \in Seq(S) /\ Len(left) = i
      /\ \A k \in 1 .. i - 1 : left[k] = q[k]
      /\ left[i] = e
  <2> HIDE DEF front
  <2>1. <<e>> \in Seq(S) /\ Len(<<e>>) = 1 /\ <<e>>[1] = e
    OBVIOUS
  <2>2. /\ left \in Seq(S)
        /\ Len(left) = Len(front) + Len(<<e>>)
        /\ \A k \in 1 .. Len(front) + Len(<<e>>) :
             left[k] = IF k <= Len(front) THEN front[k] ELSE <<e>>[k - Len(front)]
    BY <1>2, <2>1, ConcatProperties
  <2> HIDE DEF left
  <2>3. Len(left) = i /\ i \in 1 .. i /\ i - Len(front) = 1
    BY <1>1, <1>2, <2>1, <2>2
  <2>4. left[i] = e
    BY <1>1, <1>2, <2>1, <2>2, <2>3
  <2>5. \A k \in 1 .. i - 1 : left[k] = q[k]
    BY <1>1, <1>2, <2>1, <2>2
  <2> QED BY <2>2, <2>3, <2>4, <2>5
<1> HIDE DEF left, back
<1>6. /\ left \o back \in Seq(S)
      /\ Len(left \o back) = Len(q) + 1
      /\ \A k \in 1 .. Len(q) + 1 :
           (left \o back)[k] = IF k <= i THEN left[k] ELSE back[k - i]
  <2>1. /\ left \o back \in Seq(S)
        /\ Len(left \o back) = Len(left) + Len(back)
        /\ \A k \in 1 .. Len(left) + Len(back) :
             (left \o back)[k] = IF k <= Len(left) THEN left[k] ELSE back[k - Len(left)]
    BY <1>3, <1>5, ConcatProperties
  <2>2. Len(left) + Len(back) = Len(q) + 1
    BY <1>1, <1>3, <1>5
  <2> QED BY <1>5, <2>1, <2>2
<1>7. ASSUME NEW k \in 1 .. Len(q) + 1, ~(k <= i) PROVE back[k - i] = q[k - 1]
  <2>1. k - i \in 1 .. Len(q) - i + 1 /\ i + (k - i) - 1 = k - 1
    BY <1>1, <1>7
  <2> QED BY <1>3, <2>1
<1>8. ASSUME NEW k \in 1 .. Len(q) + 1
      PROVE  (left \o back)[k] = IF k < i THEN q[k] ELSE IF k = i THEN e ELSE q[k - 1]
  <2>1. CASE k < i
    BY <1>1, <1>5, <1>6, <2>1
  <2>2. CASE k = i
    BY <1>1, <1>5, <1>6, <2>2
  <2>3. CASE k > i
    <3>1. ~(k <= i) /\ ~(k < i) /\ k # i
      BY <1>1, <2>3
    <3> QED BY <1>6, <1>7, <3>1
  <2>4. k < i \/ k = i \/ k > i
    BY <1>1
  <2> QED BY <2>1, <2>2, <2>3, <2>4
<1>9. DOMAIN (left \o back) = 1 .. Len(q) + 1
  BY <1>6
<1> QED BY <1>1, <1>4, <1>6, <1>8, <1>9

LEMMA InsertKeepsOrder ==
  ASSUME NEW S, NEW q \in Seq(S), NEW e \in S, NEW i \in 1 .. Len(q) + 1
  PROVE  /\ ToSet(InsertAt(q, i, e)) = ToSet(q) \cup {e}
         /\ \A x, y : Behind(InsertAt(q, i, e), x, y) =>
              \/ Behind(q, x, y)
              \/ y = e /\ \E k \in 1 .. i - 1 : x = q[k]
              \/ x = e /\ \E k \in i .. Len(q) : y = q[k]
<1> DEFINE r == InsertAt(q, i, e)
           from(k) == IF k < i THEN k ELSE k - 1
<1>1. /\ Len(q) \in Nat /\ DOMAIN q = 1 .. Len(q) /\ DOMAIN r = 1 .. Len(q) + 1
      /\ \A k \in 1 .. Len(q) + 1 :
           r[k] = IF k < i THEN q[k] ELSE IF k = i THEN e ELSE q[k - 1]
  BY InsertedPositions
<1> HIDE DEF r
<1>2. ASSUME NEW k \in DOMAIN r, k # i
      PROVE  from(k) \in DOMAIN q /\ r[k] = q[from(k)]
  BY <1>1, <1>2
<1>3. i \in DOMAIN r /\ r[i] = e
  BY <1>1
<1>4. ASSUME NEW x \in ToSet(r) PROVE x \in ToSet(q) \cup {e}
  <2>1. PICK k \in DOMAIN r : r[k] = x
    BY DEF ToSet
  <2> QED BY <1>2, <1>3, <2>1 DEF ToSet
<1>5. ASSUME NEW x \in ToSet(q) PROVE x \in ToSet(r)
  <2>1. PICK k \in 1 .. Len(q) : q[k] = x
    BY <1>1 DEF ToSet
  <2>2. CASE k < i
    <3>1. k \in DOMAIN r /\ r[k] = x
      BY <1>1, <2>1, <2>2
    <3> QED BY <3>1 DEF ToSet
  <2>3. CASE ~(k < i)
    <3>1. k + 1 \in DOMAIN r /\ r[k + 1] = x
      BY <1>1, <2>1, <2>3
    <3> QED BY <3>1 DEF ToSet
  <2> QED BY <2>2, <2>3
<1>6. e \in ToSet(r)
  BY <1>3 DEF ToSet
<1>7. ASSUME NEW x, NEW y, Behind(r, x, y)
      PROVE  \/ Behind(q, x, y)
             \/ y = e /\ \E k \in 1 .. i - 1 : x = q[k]
             \/ x = e /\ \E k \in i .. Len(q) : y = q[k]
  <2>1. PICK j, k \in DOMAIN r : j < k /\ r[j] = x /\ r[k] = y
    BY <1>7 DEF Behind
  <2>2. CASE k = i
    <3>1. j \in 1 .. i - 1 /\ x = q[j]
      BY <1>1, <2>1, <2>2
    <3> QED BY <1>3, <2>1, <2>2, <3>1
  <2>3. CASE j = i
    <3>1. k - 1 \in i .. Len(q) /\ y = q[k - 1]
      BY <1>1, <2>1, <2>3
    <3> QED BY <1>3, <2>1, <2>3, <3>1
  <2>4. CASE j # i /\ k # i
    <3>1. from(j) \in DOMAIN q /\ from(k) \in DOMAIN q /\ q[from(j)] = x /\ q[from(k)] = y
      BY <1>2, <2>1, <2>4
    <3>2. from(j) < from(k)
      BY <1>1, <2>1, <2>4
    <3> QED BY <3>1, <3>2 DEF Behind
  <2> QED BY <2>2, <2>3, <2>4
<1> QED BY <1>4, <1>5, <1>6, <1>7 DEF r

(* The smaller of two integers is one of them and exceeds neither. *)
LEMMA MinOfTwo ==
  ASSUME NEW a \in Int, NEW b \in Int
  PROVE  /\ Min({a, b}) \in {a, b}
         /\ Min({a, b}) <= a /\ Min({a, b}) <= b
<1>1. \E x \in {a, b} : \A y \in {a, b} : x <= y
  OBVIOUS
<1> QED BY <1>1 DEF Min

(* A set of numbers that holds one holds a least one.  A least             *)
(* counterexample is how the proofs argue by induction.                    *)
LEMMA LeastNumber ==
  ASSUME NEW S, S \subseteq Nat, S # {}
  PROVE  \E n \in S : \A m \in S : n <= m
<1> DEFINE R == OpToRel(<, Nat)
<1>1. IsWellFoundedOn(R, Nat)
  BY NatLessThanWellFounded
<1>2. \A x, y \in Nat : y < x => <<y, x>> \in R
  BY DEF OpToRel
<1> HIDE DEF R
<1>3. PICK n \in S : \A m \in S : ~(<<m, n>> \in R)
  BY <1>1, WFMin
<1>4. ASSUME NEW m \in S PROVE n <= m
  <2>1. m \in Nat /\ n \in Nat
    OBVIOUS
  <2>2. ~ (m < n)
    BY <1>2, <1>3, <2>1
  <2> QED BY <2>1, <2>2
<1> QED BY <1>4

(* The same, for a step from one number to the next. *)
LEMMA FirstNumber ==
  ASSUME NEW S, S \subseteq Nat, S # {}
  PROVE  \E n \in S : n \in Nat /\ (n # 0 => n - 1 \in Nat /\ n - 1 \notin S)
<1>1. PICK n \in S : \A m \in S : n <= m
  BY LeastNumber
<1>2. n \in Nat
  OBVIOUS
<1>3. ASSUME n # 0 PROVE n - 1 \in Nat /\ n - 1 \notin S
  <2>1. n - 1 \in Nat /\ ~(n <= n - 1)
    BY <1>2, <1>3
  <2> QED BY <1>1, <2>1
<1> QED BY <1>2, <1>3

-----------------------------------------------------------------------------
(* The folds of the community modules are recursive functions on the       *)
(* subsets of a finite set.                                                *)

(* What such a function has at s: base, or what the element chosen in s    *)
(* makes of the value without it.                                          *)
FoldAt(f, s, base, pick, step) ==
  IF s = {} THEN base ELSE step[pick[s]][f[s \ {pick[s]}]]

Picks(pick, S) == \A s \in SUBSET S : s # {} => pick[s] \in s

Steps(S, V) == [S -> [V -> V]]

Folds(f, S, V, base, pick, step) ==
  /\ f \in [SUBSET S -> V]
  /\ \A s \in SUBSET S : f[s] = FoldAt(f, s, base, pick, step)

UpToSize(S, n) == {s \in SUBSET S : Cardinality(s) <= n}

FoldsUpTo(f, S, n, base, pick, step) ==
  \A s \in UpToSize(S, n) : f[s] = FoldAt(f, s, base, pick, step)

FoldsSomeUpTo(S, n, V, base, pick, step) ==
  \E f \in [UpToSize(S, n) -> V] : FoldsUpTo(f, S, n, base, pick, step)

(* One element more can be folded. *)
LEMMA FoldGrows ==
  ASSUME NEW S, IsFiniteSet(S), NEW V, NEW base \in V, NEW step \in Steps(S, V),
         NEW pick, Picks(pick, S),
         NEW n \in Nat, FoldsSomeUpTo(S, n, V, base, pick, step)
  PROVE  FoldsSomeUpTo(S, n + 1, V, base, pick, step)
<1>1. PICK g \in [UpToSize(S, n) -> V] : FoldsUpTo(g, S, n, base, pick, step)
  BY DEF FoldsSomeUpTo
<1> DEFINE f == [s \in UpToSize(S, n + 1) |-> FoldAt(g, s, base, pick, step)]
<1>2. ASSUME NEW s \in UpToSize(S, n + 1), s # {}
      PROVE  /\ pick[s] \in s /\ pick[s] \in S
             /\ s \ {pick[s]} \in UpToSize(S, n)
             /\ s \ {pick[s]} \in UpToSize(S, n + 1)
  <2>1. s \in SUBSET S /\ Cardinality(s) <= n + 1 /\ IsFiniteSet(s)
    BY FS_Subset DEF UpToSize
  <2>2. pick[s] \in s /\ pick[s] \in S
    BY <1>2, <2>1 DEF Picks
  <2>3. Cardinality(s) \in Nat /\ Cardinality(s \ {pick[s]}) = Cardinality(s) - 1
    BY <2>1, <2>2, FS_CardinalityType, FS_RemoveElement
  <2>4. s \ {pick[s]} \in SUBSET S
    BY <2>1
  <2> QED BY <2>1, <2>2, <2>3, <2>4 DEF UpToSize
<1>3. ASSUME NEW s \in UpToSize(S, n + 1) PROVE FoldAt(g, s, base, pick, step) \in V
  BY <1>1, <1>2 DEF FoldAt, Steps
<1>4. f \in [UpToSize(S, n + 1) -> V]
  BY <1>3
<1>5. \A s \in UpToSize(S, n) : s \in UpToSize(S, n + 1) /\ f[s] = g[s]
  <2> SUFFICES ASSUME NEW s \in UpToSize(S, n)
               PROVE  s \in UpToSize(S, n + 1) /\ f[s] = g[s]
    OBVIOUS
  <2>1. s \in UpToSize(S, n + 1)
    <3>1. s \in SUBSET S /\ Cardinality(s) <= n /\ Cardinality(s) \in Nat
      BY FS_Subset, FS_CardinalityType DEF UpToSize
    <3> QED BY <3>1 DEF UpToSize
  <2> QED BY <1>1, <2>1 DEF FoldsUpTo
<1>6. ASSUME NEW s \in UpToSize(S, n + 1)
      PROVE  f[s] = FoldAt(f, s, base, pick, step)
  <2>1. f[s] = FoldAt(g, s, base, pick, step)
    OBVIOUS
  <2> HIDE DEF f
  <2> QED BY <1>2, <1>5, <2>1 DEF FoldAt
<1> HIDE DEF f
<1> QED BY <1>4, <1>6 DEF FoldsSomeUpTo, FoldsUpTo

(* Every finite set can be folded. *)
LEMMA FoldExists ==
  ASSUME NEW S, IsFiniteSet(S), NEW V, NEW base \in V, NEW step \in Steps(S, V),
         NEW pick, Picks(pick, S)
  PROVE  \E f : Folds(f, S, V, base, pick, step)
<1> DEFINE Bad == {n \in Nat : ~FoldsSomeUpTo(S, n, V, base, pick, step)}
<1>1. Bad = {}
  <2> SUFFICES ASSUME Bad # {} PROVE FALSE
    OBVIOUS
  <2>1. PICK n \in Bad : n \in Nat /\ (n # 0 => n - 1 \in Nat /\ n - 1 \notin Bad)
    <3>1. Bad \subseteq Nat
      OBVIOUS
    <3> HIDE DEF Bad
    <3> QED BY <3>1, FirstNumber
  <2>2. CASE n = 0
    <3> DEFINE f == [s \in UpToSize(S, 0) |-> base]
    <3>1. ASSUME NEW s \in UpToSize(S, 0) PROVE s = {}
      <4>1. IsFiniteSet(s) /\ Cardinality(s) \in Nat /\ Cardinality(s) <= 0
        BY FS_Subset, FS_CardinalityType DEF UpToSize
      <4> QED BY <4>1, FS_EmptySet
    <3>2. f \in [UpToSize(S, 0) -> V] /\ \A s \in UpToSize(S, 0) : f[s] = base
      OBVIOUS
    <3> HIDE DEF f
    <3>3. FoldsSomeUpTo(S, 0, V, base, pick, step)
      BY <3>1, <3>2 DEF FoldsSomeUpTo, FoldsUpTo, FoldAt
    <3> QED BY <2>1, <2>2, <3>3
  <2>3. CASE n # 0
    <3>1. n - 1 \in Nat /\ n - 1 \notin Bad /\ n - 1 + 1 = n
      BY <2>1, <2>3
    <3>2. FoldsSomeUpTo(S, n - 1, V, base, pick, step)
      BY <3>1
    <3> HIDE DEF Bad
    <3>3. FoldsSomeUpTo(S, n - 1 + 1, V, base, pick, step)
      BY <3>1, <3>2, FoldGrows
    <3>4. FoldsSomeUpTo(S, n, V, base, pick, step)
      BY <3>1, <3>3
    <3> QED BY <2>1, <3>4 DEF Bad
  <2> QED BY <2>2, <2>3
<1>2. Cardinality(S) \in Nat
  BY FS_CardinalityType
<1>3. FoldsSomeUpTo(S, Cardinality(S), V, base, pick, step)
  BY <1>1, <1>2
<1> HIDE DEF Bad
<1>4. UpToSize(S, Cardinality(S)) = SUBSET S
  BY FS_Subset DEF UpToSize
<1> QED BY <1>3, <1>4 DEF FoldsSomeUpTo, FoldsUpTo, Folds

LEMMA LastOfFront ==
  ASSUME NEW n \in Nat
  PROVE  /\ \A s \in SUBSET (1 .. n) : s # {} => Max(s) \in s
         /\ \A i \in 1 .. n : Max(1 .. i) = i /\ (1 .. i) \ {i} = 1 .. i - 1
<1>1. ASSUME NEW s \in SUBSET (1 .. n), s # {} PROVE Max(s) \in s
  <2> DEFINE T == {n - x : x \in s}
  <2>1. T \subseteq Nat /\ T # {}
    <3>1. ASSUME NEW x \in s PROVE n - x \in Nat
      <4>1. x \in 1 .. n
        OBVIOUS
      <4> QED BY <4>1
    <3> QED BY <1>1, <3>1
  <2>2. PICK m \in T : \A t \in T : m <= t
    <3> HIDE DEF T
    <3> QED BY <2>1, LeastNumber
  <2>3. PICK x \in s : m = n - x
    OBVIOUS
  <2>4. \A y \in s : x >= y
    <3> SUFFICES ASSUME NEW y \in s PROVE x >= y
      OBVIOUS
    <3>1. n - x <= n - y /\ x \in Int /\ y \in Int
      BY <2>2, <2>3
    <3> QED BY <3>1
  <2> QED BY <2>4 DEF Max
<1>2. ASSUME NEW i \in 1 .. n PROVE Max(1 .. i) = i /\ (1 .. i) \ {i} = 1 .. i - 1
  <2>1. i \in 1 .. i /\ \A y \in 1 .. i : i >= y
    OBVIOUS
  <2>2. \A x \in 1 .. i : (\A y \in 1 .. i : x >= y) => x = i
    OBVIOUS
  <2> QED BY <2>1, <2>2 DEF Max
<1> QED BY <1>1, <1>2

(* A sequence can be folded from left to right. *)
FoldsInTurn(f, n, c, step) ==
  /\ f \in [SUBSET (1 .. n) -> Int]
  /\ \A s \in SUBSET (1 .. n) : f[s] = IF s = {} THEN c ELSE step[Max(s)][f[s \ {Max(s)}]]

LEMMA FoldAlong ==
  ASSUME NEW n \in Nat, NEW c \in Int, NEW step \in Steps(1 .. n, Int)
  PROVE  \E f : FoldsInTurn(f, n, c, step)
<1> DEFINE pick == [s \in SUBSET (1 .. n) |-> Max(s)]
<1>1. IsFiniteSet(1 .. n)
  BY FS_Interval
<1>2. \A s \in SUBSET (1 .. n) : pick[s] = Max(s)
  OBVIOUS
<1> HIDE DEF pick
<1>3. Picks(pick, 1 .. n)
  BY <1>2, LastOfFront DEF Picks
<1>4. PICK f : Folds(f, 1 .. n, Int, c, pick, step)
  BY <1>1, <1>3, FoldExists
<1>5. /\ f \in [SUBSET (1 .. n) -> Int]
      /\ \A s \in SUBSET (1 .. n) : f[s] = IF s = {} THEN c ELSE step[pick[s]][f[s \ {pick[s]}]]
  BY <1>4 DEF Folds, FoldAt
<1>6. \A s \in SUBSET (1 .. n) :
        f[s] = IF s = {} THEN c ELSE step[Max(s)][f[s \ {Max(s)}]]
  BY <1>2, <1>5
<1> QED BY <1>5, <1>6 DEF FoldsInTurn

(* What is left when a multiple of w is taken off. *)
LEMMA Remainder ==
  ASSUME NEW w \in Nat \ {0}, NEW n \in Int
  PROVE  /\ n = (n \div w) * w + (n % w) /\ n \div w \in Int
         /\ n % w \in 0 .. w - 1
         /\ \A k \in Int, r \in 0 .. w - 1 : n = k * w + r => n % w = r
<1>1. n = (n \div w) * w + (n % w) /\ n \div w \in Int
  OBVIOUS
<1>2. n % w \in 0 .. w - 1
  OBVIOUS
<1>3. ASSUME NEW k \in Int, NEW r \in 0 .. w - 1, n = k * w + r
      PROVE  n % w = r
  <2> DEFINE d == n \div w
  <2>1. (d - k) * w = r - (n % w) /\ d - k \in Int
    BY <1>1, <1>3
  <2>2. -w < r - (n % w) /\ r - (n % w) < w
    BY <1>2
  <2> HIDE DEF d
  <2>3. CASE d - k >= 1
    <3>1. (d - k) * w >= w
      BY <2>1, <2>3
    <3> QED BY <2>1, <2>2, <3>1
  <2>4. CASE d - k <= -1
    <3>1. (d - k) * w <= -w
      BY <2>1, <2>4
    <3> QED BY <2>1, <2>2, <3>1
  <2>5. CASE d - k = 0
    <3>1. (d - k) * w = 0
      BY <2>5
    <3> QED BY <1>2, <2>1, <3>1
  <2> QED BY <2>1, <2>3, <2>4, <2>5
<1> QED BY <1>1, <1>2, <1>3

=============================================================================

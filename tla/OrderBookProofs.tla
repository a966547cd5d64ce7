--------------------------- MODULE OrderBookProofs ---------------------------
(***************************************************************************)
(* The structure of the order book is an invariant of its specification,   *)
(* whatever the orders, their ids, the prices and the width of a quantity. *)
(***************************************************************************)
EXTENDS OrderBookProperties, QueueLemmas

(* Quantities are integers, and both sides are opposite to each other. *)
LEMMA QuantityFacts ==
  /\ Quantity \subseteq Int /\ 0 \in Quantity /\ Word \in Int
  /\ \A q \in Quantity : 0 <= q /\ q < Word
  /\ \A n \in Int : 0 <= n /\ n < Word => n \in Quantity
BY WordAssumption DEF Quantity

LEMMA OppositeFacts ==
  ASSUME NEW s \in Sides
  PROVE  Opposite(s) \in Sides /\ Opposite(s) # s
BY DEF Opposite, Sides

-----------------------------------------------------------------------------
(* The constructors and mutators of an order return an order. *)

LEMMA PlainOrderTyped ==
  ASSUME NEW s \in Sides, NEW k \in Kinds, NEW p \in Prices \cup {0}, NEW q \in Quantity
  PROVE  /\ PlainOrder(s, k, p, q) \in Order
         /\ IsActive(PlainOrder(s, k, p, q))
BY QuantityFacts DEF PlainOrder, Order, Statuses, IsActive

LEMMA NewOrderTyped ==
  ASSUME NEW r \in Requests
  PROVE  /\ NewOrder(r) \in Order
         /\ NewOrder(r).kind = r.kind
         /\ NewOrder(r).side = r.side
         /\ IsActive(NewOrder(r))
         /\ ~IsMarket(NewOrder(r)) => NewOrder(r).price \in Prices
<1>1. r \in Request /\ r.kind \in Kinds /\ r.side \in Sides /\ r.price \in Prices
      /\ r.quantity \in Quantity /\ r.display \in Quantity /\ r.trigger \in Prices
  BY RequestsAssumption DEF Request
<1>2. (r.quantity - r.display) % Word \in Quantity
  BY <1>1, WordAssumption DEF Quantity
<1>3. CASE r.kind = "LIMIT"
  BY <1>1, <1>3, PlainOrderTyped DEF NewOrder, PlainOrder, IsMarket
<1>4. CASE r.kind = "MARKET"
  BY <1>1, <1>4, PlainOrderTyped DEF NewOrder, PlainOrder, IsMarket
<1>5. CASE r.kind = "ICEBERG"
  <2> DEFINE plain == PlainOrder(r.side, "ICEBERG", r.price, r.quantity)
  <2>1. /\ plain \in Order /\ IsActive(plain)
        /\ plain.kind = "ICEBERG" /\ plain.side = r.side /\ plain.price = r.price
    BY <1>1, <1>5, PlainOrderTyped DEF PlainOrder
  <2>2. NewOrder(r) = [plain EXCEPT !.display = r.display,
                                    !.hidden = (r.quantity - r.display) % Word,
                                    !.orig = r.display]
    BY <1>5 DEF NewOrder, IcebergOrder
  <2> HIDE DEF plain
  <2> QED BY <1>1, <1>2, <1>5, <2>1, <2>2 DEF Order, IsActive, IsMarket
<1>6. CASE r.kind = "STOP_LOSS"
  <2> DEFINE plain == PlainOrder(r.side, "STOP_LOSS", r.price, r.quantity)
  <2>1. /\ plain \in Order /\ IsActive(plain)
        /\ plain.kind = "STOP_LOSS" /\ plain.side = r.side /\ plain.price = r.price
    BY <1>1, <1>6, PlainOrderTyped DEF PlainOrder
  <2>2. NewOrder(r) = [plain EXCEPT !.trigger = r.trigger]
    BY <1>6 DEF NewOrder, StopLossOrder
  <2> HIDE DEF plain
  <2> QED BY <1>1, <1>6, <2>1, <2>2 DEF Order, IsActive, IsMarket
<1> QED BY <1>1, <1>3, <1>4, <1>5, <1>6 DEF Kinds

(* What no mutator changes. *)
SameTerms(o, n) ==
  n.side = o.side /\ n.kind = o.kind /\ n.price = o.price /\ n.quantity = o.quantity
  /\ n.trigger = o.trigger

LEMMA FillTyped ==
  ASSUME NEW o \in Order, NEW q \in Quantity
  PROVE  /\ Fill(o, q) \in Order
         /\ SameTerms(o, Fill(o, q))
         /\ Fill(o, q).status \in {"FILLED", "PARTIAL"}
         /\ Fill(o, q).status = "FILLED" <=> IsFilled(Fill(o, q))
         /\ Fill(o, q).leaves = IF q >= o.leaves THEN 0 ELSE o.leaves - q
<1>1. o.leaves \in Int /\ o.display \in Int /\ q \in Int /\ 0 <= q /\ 0 <= o.leaves
      /\ 0 <= o.display /\ o.leaves < Word /\ o.display < Word
  BY QuantityFacts DEF Order
<1>2. CASE q >= o.leaves
  BY <1>1, <1>2, QuantityFacts DEF Fill, Order, SameTerms, IsFilled, Statuses
<1>3. CASE ~(q >= o.leaves)
  <2> DEFINE m == Min({q, o.display})
  <2>1. m \in {q, o.display} /\ m <= o.display
    BY <1>1, MinOfTwo
  <2> HIDE DEF m
  <2>2. m \in Int /\ 0 <= m
    BY <1>1, <2>1
  <2>3. o.display - m \in Quantity /\ o.leaves - q \in Quantity /\ o.leaves - q # 0
    BY <1>1, <1>3, <2>1, <2>2, QuantityFacts
  <2>4. Fill(o, q) = [o EXCEPT !.leaves  = o.leaves - q,
                               !.display = IF IsIceberg(o) THEN o.display - m ELSE o.display,
                               !.status  = "PARTIAL"]
    BY <1>3 DEF Fill, m
  <2>5. Fill(o, q) \in Order
    BY <1>1, <2>3, <2>4 DEF Order, Statuses
  <2>6. /\ Fill(o, q).leaves = o.leaves - q
        /\ Fill(o, q).status = "PARTIAL"
        /\ SameTerms(o, Fill(o, q))
    BY <2>4 DEF Order, SameTerms
  <2> QED BY <1>3, <2>3, <2>5, <2>6 DEF IsFilled
<1> QED BY <1>2, <1>3

LEMMA ReplenishTyped ==
  ASSUME NEW o \in Order
  PROVE  /\ Replenish(o) \in Order
         /\ SameTerms(o, Replenish(o))
         /\ Replenish(o).leaves = o.leaves /\ Replenish(o).status = o.status
<1>1. CASE ~IsIceberg(o) \/ o.hidden = 0
  BY <1>1 DEF Replenish, SameTerms
<1>2. CASE IsIceberg(o) /\ o.hidden # 0
  <2> DEFINE lot == Min({o.hidden, o.orig})
  <2>1. o.hidden \in Int /\ o.orig \in Int /\ o.display \in Int
        /\ 0 <= o.hidden /\ o.hidden < Word /\ 0 <= o.orig
    BY QuantityFacts DEF Order
  <2>2. lot \in {o.hidden, o.orig} /\ lot <= o.hidden
    BY <2>1, MinOfTwo
  <2> HIDE DEF lot
  <2>3. (o.display + lot) % Word \in Quantity /\ o.hidden - lot \in Quantity
    BY <2>1, <2>2, WordAssumption DEF Quantity
  <2>4. Replenish(o) = [o EXCEPT !.display = (o.display + lot) % Word,
                                 !.hidden = o.hidden - lot]
    BY <1>2 DEF Replenish, lot
  <2> QED BY <2>3, <2>4 DEF Order, SameTerms
<1> QED BY <1>1, <1>2

LEMMA CancelTyped ==
  ASSUME NEW o \in Order
  PROVE  CancelOf(o) \in Order /\ SameTerms(o, CancelOf(o)) /\ IsFilled(CancelOf(o))
BY QuantityFacts DEF CancelOf, Order, Statuses, SameTerms, IsFilled

-----------------------------------------------------------------------------
(* What each helper makes of the deques and of the keys of the maps. *)

Deques(l, k) ==
  /\ l \in [Sides -> [Prices -> Seq(Ids)]]
  /\ k \in [Sides -> SUBSET Prices]
  /\ \A s \in Sides, p \in Prices : p \in k[s] <=> l[s][p] # <<>>
  /\ \A s \in Sides, p \in Prices : IsInjective(l[s][p])

LEMMA PopFrontFacts ==
  ASSUME Deques(level, listed), NEW s \in Sides, NEW p \in Prices,
         level[s][p] # <<>>, PopFront(s, p)
  PROVE  /\ Deques(level', listed')
         /\ Head(level[s][p]) \in ToSet(level[s][p])
         /\ \A t \in Sides, q \in Prices :
              ToSet(level'[t][q]) = IF t = s /\ q = p
                                    THEN ToSet(level[t][q]) \ {Head(level[s][p])}
                                    ELSE ToSet(level[t][q])
<1> DEFINE rest == Tail(level[s][p])
<1>1. level[s][p] \in Seq(Ids) /\ IsInjective(level[s][p])
  BY DEF Deques
<1>2. /\ rest \in Seq(Ids) /\ IsInjective(rest)
      /\ Head(level[s][p]) \in ToSet(level[s][p])
      /\ ToSet(rest) = ToSet(level[s][p]) \ {Head(level[s][p])}
  BY <1>1, PopQueue
<1>3. /\ level' = [level EXCEPT ![s][p] = rest]
      /\ listed' = [listed EXCEPT ![s] = IF rest = <<>> THEN @ \ {p} ELSE @]
  BY DEF PopFront, Relist
<1> HIDE DEF rest
<1>4. \A t \in Sides, q \in Prices :
        level'[t][q] = IF t = s /\ q = p THEN rest ELSE level[t][q]
  BY <1>3 DEF Deques
<1>5. \A t \in Sides, q \in Prices : q \in listed'[t] <=> level'[t][q] # <<>>
  BY <1>3, <1>4 DEF Deques
<1>6. level' \in [Sides -> [Prices -> Seq(Ids)]] /\ listed' \in [Sides -> SUBSET Prices]
  BY <1>2, <1>3 DEF Deques
<1> QED BY <1>2, <1>4, <1>5, <1>6 DEF Deques

(* Pushing onto the back of a deque an order that is not in it. *)
Pushed(l, s, p, id) == [l EXCEPT ![s][p] = Append(@, id)]
Keyed(k, s, p)      == [k EXCEPT ![s] = @ \cup {p}]

LEMMA PushedDeques ==
  ASSUME NEW l, NEW k, Deques(l, k), NEW s \in Sides, NEW p \in Prices,
         NEW id \in Ids, id \notin ToSet(l[s][p])
  PROVE  Deques(Pushed(l, s, p, id), Keyed(k, s, p))
<1> DEFINE d == Append(l[s][p], id)
           m == Pushed(l, s, p, id)
           n == Keyed(k, s, p)
<1>1. l[s][p] \in Seq(Ids) /\ IsInjective(l[s][p])
  BY DEF Deques
<1>2. d \in Seq(Ids) /\ d # <<>> /\ IsInjective(d)
  BY <1>1, PushQueue
<1>3. m = [l EXCEPT ![s][p] = d] /\ n = [k EXCEPT ![s] = @ \cup {p}]
  BY DEF Pushed, Keyed
<1> HIDE DEF d, m, n
<1>4. \A t \in Sides, q \in Prices : m[t][q] = IF t = s /\ q = p THEN d ELSE l[t][q]
  BY <1>3 DEF Deques
<1>5. \A t \in Sides, q \in Prices : q \in n[t] <=> m[t][q] # <<>>
  BY <1>2, <1>3, <1>4 DEF Deques
<1>6. m \in [Sides -> [Prices -> Seq(Ids)]] /\ n \in [Sides -> SUBSET Prices]
  BY <1>2, <1>3 DEF Deques
<1>7. Deques(m, n)
  BY <1>2, <1>4, <1>5, <1>6 DEF Deques
<1> QED BY <1>7 DEF m, n

LEMMA WithoutFacts ==
  ASSUME NEW q \in Seq(Ids), IsInjective(q), NEW e
  PROVE  /\ Without(q, e) \in Seq(Ids)
         /\ IsInjective(Without(q, e))
         /\ ToSet(Without(q, e)) = ToSet(q) \ {e}
<1>1. CASE e \in ToSet(q)
  <2> DEFINE i == CHOOSE i \in DOMAIN q : q[i] = e
  <2>1. i \in DOMAIN q /\ q[i] = e
    BY <1>1 DEF ToSet
  <2>2. Without(q, e) = RemoveAt(q, i)
    BY <1>1 DEF Without
  <2> HIDE DEF i
  <2> QED BY <2>1, <2>2, EraseFromQueue
<1>2. CASE e \notin ToSet(q)
  BY <1>2 DEF Without
<1> QED BY <1>1, <1>2

(* What cancelLocked() leaves, of an order that stands in no level but its own. *)
LEMMA LevelWithoutFacts ==
  ASSUME Deques(level, listed), NEW id \in Ids,
         orders[id].side \in Sides, orders[id].price \in Prices,
         \A s \in Sides, p \in Prices :
           id \in ToSet(level[s][p]) => s = orders[id].side /\ p = orders[id].price
  PROVE  /\ Deques(LevelWithout(id), ListedWithout(id))
         /\ \A s \in Sides, p \in Prices :
              ToSet(LevelWithout(id)[s][p]) = ToSet(level[s][p]) \ {id}
<1> DEFINE s == orders[id].side
           p == orders[id].price
           d == Without(level[s][p], id)
<1>1. CASE p \in listed[s]
  <2>1. level[s][p] \in Seq(Ids) /\ IsInjective(level[s][p])
    BY DEF Deques
  <2>2. d \in Seq(Ids) /\ IsInjective(d) /\ ToSet(d) = ToSet(level[s][p]) \ {id}
    BY <2>1, WithoutFacts
  <2>3. LevelWithout(id) = [level EXCEPT ![s][p] = d]
    BY <1>1 DEF LevelWithout
  <2> HIDE DEF d
  <2>4. \A t \in Sides, q \in Prices :
          LevelWithout(id)[t][q] = IF t = s /\ q = p THEN d ELSE level[t][q]
    BY <2>3 DEF Deques
  <2>5. ListedWithout(id) = [listed EXCEPT ![s] = IF d = <<>> THEN @ \ {p} ELSE @]
    BY <1>1, <2>4 DEF ListedWithout, Relist, Deques
  <2>6. \A t \in Sides, q \in Prices :
          q \in ListedWithout(id)[t] <=> LevelWithout(id)[t][q] # <<>>
    BY <1>1, <2>4, <2>5 DEF Deques
  <2>7. /\ LevelWithout(id) \in [Sides -> [Prices -> Seq(Ids)]]
        /\ ListedWithout(id) \in [Sides -> SUBSET Prices]
    BY <2>2, <2>3, <2>5 DEF Deques
  <2>8. \A t \in Sides, q \in Prices :
          ToSet(LevelWithout(id)[t][q]) = ToSet(level[t][q]) \ {id}
    BY <2>2, <2>4
  <2>9. Deques(LevelWithout(id), ListedWithout(id))
    BY <2>2, <2>4, <2>6, <2>7 DEF Deques
  <2> QED BY <2>8, <2>9
<1>2. CASE p \notin listed[s]
  <2>1. LevelWithout(id) = level /\ ListedWithout(id) = listed
    BY <1>2 DEF LevelWithout, ListedWithout, Deques
  <2>2. level[s][p] = <<>>
    BY <1>2 DEF Deques
  <2>3. id \notin ToSet(level[s][p])
    BY <2>2 DEF ToSet
  <2> QED BY <2>1, <2>3
<1> QED BY <1>1, <1>2

-----------------------------------------------------------------------------
(* The structure, read once for all the steps below. *)
LEMMA StructureFacts ==
  ASSUME Structure
  PROVE  /\ Deques(level, listed)
         /\ \A id \in Submitted : id \in Ids /\ orders[id] \in Order
         /\ \A id \in Ids : orders[id] \in Order <=> id \in Submitted
         /\ active \subseteq Submitted /\ Held \subseteq Submitted
         /\ InLoop => cur \in Submitted /\ cur \notin active /\ cur \notin Held
         /\ \A s \in Sides, p \in Prices : \A id \in ToSet(level[s][p]) :
              id \in active /\ id # cur /\ orders[id].side = s /\ orders[id].price = p
<1>1. Deques(level, listed)
  BY DEF Structure, TypeOK, BookIndexed, Deques
<1>2. \A id \in Ids : orders[id] \in Order <=> id \in Submitted
  BY NoneAssumption DEF Structure, TypeOK, Submitted
<1> QED BY <1>1, <1>2 DEF Structure, Placed, LoopState, BookIndexed, OnePlaceEach, Submitted

LEMMA HoldStopKeeps ==
  ASSUME Structure, NEW id \in Ids, NEW r \in Requests, HoldStop(id, r)
  PROVE  Structure'
<1> USE DEF HoldStop
<1>1. /\ NewOrder(r) \in Order /\ ~IsMarket(NewOrder(r)) /\ NewOrder(r).price \in Prices
      /\ IsActive(NewOrder(r))
  BY NewOrderTyped DEF IsMarket
<1>2. orders \in [Ids -> Order \cup {None}] /\ id \notin Submitted
  BY DEF Structure, TypeOK, Submitted
<1>3. Submitted' = Submitted \cup {id} /\ \A x \in Submitted : orders'[x] = orders[x]
  BY <1>1, <1>2, NoneAssumption DEF Submitted
<1>4. /\ pending' \in Seq(Ids) /\ ToSet(pending') = ToSet(pending) \cup {id}
      /\ IsInjective(pending')
  BY <1>2, StructureFacts, PushQueue DEF Structure, TypeOK, Held, OnePlaceEach
<1>5. TypeOK'
  BY <1>1, <1>2, <1>4 DEF Structure, TypeOK
<1>6. BookIndexed'
  BY <1>3, StructureFacts DEF Structure, BookIndexed
<1>7. OnePlaceEach'
  BY <1>2, <1>4, StructureFacts, NoneAssumption DEF Structure, OnePlaceEach, Held, LoopState, InLoop
<1>8. Placed'
  BY <1>1, <1>2, <1>3, <1>4, StructureFacts DEF Structure, Placed, Held
<1>9. LoopState'
  BY DEF Structure, LoopState, InLoop
<1> QED BY <1>5, <1>6, <1>7, <1>8, <1>9 DEF Structure

LEMMA BeginMatchKeeps ==
  ASSUME Structure, NEW id \in Ids, NEW r \in Requests, BeginMatch(id, r)
  PROVE  Structure'
<1> USE DEF BeginMatch, stopVars, history
<1>1. /\ NewOrder(r) \in Order /\ IsActive(NewOrder(r))
      /\ ~IsMarket(NewOrder(r)) => NewOrder(r).price \in Prices
  BY NewOrderTyped
<1>2. orders \in [Ids -> Order \cup {None}] /\ id \notin Submitted
  BY DEF Structure, TypeOK, Submitted
<1>3. Submitted' = Submitted \cup {id} /\ \A x \in Submitted : orders'[x] = orders[x]
  BY <1>1, <1>2, NoneAssumption DEF Submitted
<1>4. TypeOK'
  BY <1>1, <1>2 DEF Structure, TypeOK, Phases
<1>5. BookIndexed'
  BY <1>3, StructureFacts DEF Structure, BookIndexed
<1>6. OnePlaceEach'
  BY <1>2, StructureFacts DEF Structure, OnePlaceEach, Held
<1>7. Placed'
  BY <1>1, <1>2, <1>3, StructureFacts DEF Structure, Placed, Held
<1>8. LoopState'
  BY NoneAssumption DEF Structure, LoopState, InLoop
<1> QED BY <1>4, <1>5, <1>6, <1>7, <1>8 DEF Structure

(* The two sides of a match: the order being matched and the resting order *)
(* that faces it are two submitted orders of opposite sides.               *)
LEMMA FacingFacts ==
  ASSUME Structure, NEW p \in Prices, NEW r \in Ids, Facing(p, r)
  PROVE  LET opp == Opposite(orders[cur].side) IN
         /\ cur \in Submitted /\ orders[cur] \in Order /\ orders[cur].side \in Sides
         /\ r \in Submitted /\ orders[r] \in Order /\ r \in active /\ r # cur
         /\ opp \in Sides /\ level[opp][p] # <<>> /\ r = Head(level[opp][p])
         /\ r \in ToSet(level[opp][p])
         /\ orders[r].side = opp /\ orders[r].price = p
<1> DEFINE opp == Opposite(orders[cur].side)
<1>1. cur \in Submitted /\ orders[cur] \in Order /\ orders[cur].side \in Sides
  BY StructureFacts DEF Facing, InLoop, Order
<1>2. opp \in Sides
  BY <1>1, OppositeFacts
<1>3. level[opp][p] # <<>> /\ r = Head(level[opp][p])
  BY DEF Facing
<1> HIDE DEF opp
<1>4. r \in ToSet(level[opp][p])
  BY <1>2, <1>3, StructureFacts, PopQueue DEF Deques
<1>5. /\ r \in Submitted /\ orders[r] \in Order /\ r \in active /\ r # cur
      /\ orders[r].side = opp /\ orders[r].price = p
  BY <1>2, <1>4, StructureFacts
<1> QED BY <1>1, <1>2, <1>3, <1>4, <1>5 DEF opp

LEMMA SkipEmptyKeeps ==
  ASSUME Structure, NEW p \in Prices, NEW r \in Ids, SkipEmpty(p, r)
  PROVE  Structure'
<1> DEFINE opp == Opposite(orders[cur].side)
<1> USE DEF SkipEmpty, stopVars, history
<1>1. opp \in Sides /\ level[opp][p] # <<>> /\ PopFront(opp, p)
  BY FacingFacts
<1> HIDE DEF opp
<1>2. /\ Deques(level', listed')
      /\ \A s \in Sides, q \in Prices : ToSet(level'[s][q]) \subseteq ToSet(level[s][q])
  <2>1. Deques(level, listed)
    BY StructureFacts
  <2> QED BY <1>1, <2>1, PopFrontFacts
<1>3. TypeOK'
  BY <1>2 DEF Structure, TypeOK, Deques
<1>4. BookIndexed'
  <2>1. ASSUME NEW s \in Sides, NEW q \in Prices, NEW id \in ToSet(level'[s][q])
        PROVE  id \in active' /\ orders'[id].side = s /\ orders'[id].price = q
    <3>1. id \in ToSet(level[s][q])
      BY <1>2
    <3> QED BY <3>1, StructureFacts
  <2> QED BY <1>2, <2>1 DEF BookIndexed, Deques
<1>5. OnePlaceEach' /\ Placed'
  BY DEF Structure, OnePlaceEach, Placed, Held, Submitted
<1>6. LoopState'
  BY DEF Structure, LoopState, InLoop, Facing
<1> QED BY <1>3, <1>4, <1>5, <1>6 DEF Structure

(* Order n is o after a fill, or o itself. *)
FilledFrom(o, n) ==
  n = o \/ (n \in Order /\ SameTerms(o, n) /\ (~IsActive(n) => IsFilled(n)))

(* What a trade changes of the two orders. *)
LEMMA TradeFacts ==
  ASSUME Structure, NEW p \in Prices, NEW r \in Ids, Trade(p, r)
  PROVE  LET qty == TradeQty(orders[cur], orders[r]) IN
         /\ qty \in Quantity
         /\ orders' \in [Ids -> Order \cup {None}]
         /\ orders'[cur] = Fill(orders[cur], qty)
         /\ orders'[r] = Fill(orders[r], qty)
         /\ \A id \in Ids : id # cur /\ id # r => orders'[id] = orders[id]
         /\ \A id \in Ids : FilledFrom(orders[id], orders'[id])
         /\ Submitted' = Submitted
<1> DEFINE qty == TradeQty(orders[cur], orders[r])
<1>1. /\ cur \in Submitted /\ cur \in Ids /\ orders[cur] \in Order
      /\ r \in Submitted /\ orders[r] \in Order /\ r # cur
  BY FacingFacts DEF Trade, Submitted
<1>2. qty \in Quantity
  <2>1. orders[cur].leaves \in Quantity /\ Visible(orders[r]) \in Quantity
    BY <1>1 DEF Order, Visible
  <2> QED BY <2>1, QuantityFacts, MinOfTwo DEF TradeQty
<1>3. orders' = [orders EXCEPT ![cur] = Fill(@, qty), ![r] = Fill(@, qty)]
  BY DEF Trade
<1> HIDE DEF qty
<1>4. /\ orders \in [Ids -> Order \cup {None}]
      /\ Fill(orders[cur], qty) \in Order /\ Fill(orders[r], qty) \in Order
  BY <1>1, <1>2, FillTyped DEF Structure, TypeOK
<1>5. /\ orders' \in [Ids -> Order \cup {None}]
      /\ orders'[cur] = Fill(orders[cur], qty)
      /\ orders'[r] = Fill(orders[r], qty)
      /\ \A id \in Ids : id # cur /\ id # r => orders'[id] = orders[id]
  BY <1>1, <1>3, <1>4
<1>6. FilledFrom(orders[cur], orders'[cur]) /\ FilledFrom(orders[r], orders'[r])
  BY <1>1, <1>2, <1>5, FillTyped DEF FilledFrom, IsActive
<1>7. \A id \in Ids : FilledFrom(orders[id], orders'[id])
  <2>1. ASSUME NEW id \in Ids, id # cur, id # r PROVE FilledFrom(orders[id], orders'[id])
    BY <1>5, <2>1 DEF FilledFrom
  <2> QED BY <1>6, <2>1
<1>8. \A id \in Ids : orders'[id] # None <=> orders[id] # None
  BY <1>1, <1>4, <1>5, NoneAssumption
<1>9. Submitted' = Submitted
  BY <1>8 DEF Submitted
<1> QED BY <1>2, <1>5, <1>7, <1>9 DEF qty

LEMMA TradeKeeps ==
  ASSUME Structure, NEW p \in Prices, NEW r \in Ids, Trade(p, r)
  PROVE  Structure'
<1> DEFINE qty == TradeQty(orders[cur], orders[r])
           opp == Opposite(orders[cur].side)
           t   == [buy   |-> IF orders[cur].side = "BUY" THEN cur ELSE r,
                   sell  |-> IF orders[cur].side = "BUY" THEN r ELSE cur,
                   price |-> p, quantity |-> qty]
<1>1. /\ cur \in Submitted /\ cur \in Ids /\ r \in Submitted /\ r # cur
      /\ opp \in Sides /\ level[opp][p] # <<>>
  BY FacingFacts, StructureFacts DEF Trade
<1>2. /\ qty \in Quantity /\ Submitted' = Submitted
      /\ orders' \in [Ids -> Order \cup {None}]
      /\ \A id \in Ids : FilledFrom(orders[id], orders'[id])
  BY TradeFacts
<1>3. /\ trades' = Append(trades, t)
      /\ executed' = [executed EXCEPT ![cur] = @ + qty, ![r] = @ + qty]
      /\ phase = "match" /\ phase' = "triggers"
      /\ UNCHANGED <<level, listed, active, pending, staged, batch, cur, modified, placedAt>>
  BY DEF Trade, Facing, stopVars
<1>4. t \in [buy : Ids, sell : Ids, price : Prices, quantity : Quantity] /\ t.price = p
  BY <1>1, <1>2
<1> HIDE DEF qty, opp, t
<1>5. /\ trades' \in Seq([buy : Ids, sell : Ids, price : Prices, quantity : Quantity])
      /\ trades' # <<>> /\ trades'[Len(trades')] = t
  <2> DEFINE T == [buy : Ids, sell : Ids, price : Prices, quantity : Quantity]
  <2>1. trades \in Seq(T) /\ t \in T
    BY <1>4 DEF Structure, TypeOK
  <2> HIDE DEF T
  <2>2. /\ Append(trades, t) \in Seq(T) /\ Append(trades, t) # <<>>
        /\ Append(trades, t)[Len(Append(trades, t))] = t
    BY <2>1, AppendProperties
  <2> QED BY <1>3, <2>2 DEF T
<1>6. TypeOK'
  <2>1. executed \in [Ids -> Nat] /\ qty \in Nat
    BY <1>2, QuantityFacts DEF Structure, TypeOK
  <2>2. executed' \in [Ids -> Nat]
    BY <1>1, <1>3, <2>1
  <2> QED BY <1>2, <1>3, <1>5, <2>2 DEF Structure, TypeOK, Phases
<1>7. \A id \in Ids : /\ orders'[id].side = orders[id].side
                     /\ orders'[id].price = orders[id].price
                     /\ orders'[id].kind = orders[id].kind
  BY <1>2 DEF SameTerms, FilledFrom
<1>8. BookIndexed'
  BY <1>3, <1>7, StructureFacts DEF Structure, BookIndexed
<1>9. OnePlaceEach'
  BY <1>3 DEF Structure, OnePlaceEach, Held
<1>10. Placed'
  <2>1. \A id \in Submitted : ~IsActive(orders'[id]) => IsFilled(orders'[id])
    BY <1>2, StructureFacts DEF Structure, Placed, FilledFrom
  <2> QED BY <1>2, <1>3, <1>7, <2>1, StructureFacts DEF Structure, Placed, Held, IsMarket
<1>11. LoopState'
  <2>1. RestingSide' = opp
    BY <1>1, <1>3, <1>7 DEF RestingSide, opp
  <2>2. LastTrade'.price = p
    BY <1>4, <1>5 DEF LastTrade
  <2> QED BY <1>1, <1>3, <1>5, <2>1, <2>2 DEF Structure, LoopState, InLoop
<1> QED BY <1>6, <1>8, <1>9, <1>10, <1>11 DEF Structure

LEMMA FireStopKeeps ==
  ASSUME Structure, FireStop
  PROVE  Structure'
<1> USE DEF FireStop, history
<1>1. PICK i \in DOMAIN pending :
        /\ orders'  = [orders EXCEPT ![pending[i]].triggered = TRUE]
        /\ staged'  = Append(staged, pending[i])
        /\ pending' = RemoveAt(pending, i)
  OBVIOUS
<1> DEFINE id == pending[i]
<1>2. id \in ToSet(pending)
  BY DEF ToSet
<1>3. /\ id \in Submitted /\ id \in Ids /\ orders[id] \in Order /\ id # cur
      /\ id \notin active /\ id \notin ToSet(staged) /\ id \notin ToSet(batch)
  BY <1>2, StructureFacts DEF Structure, OnePlaceEach, Held
<1>4. /\ RemoveAt(pending, i) \in Seq(Ids) /\ IsInjective(RemoveAt(pending, i))
      /\ ToSet(RemoveAt(pending, i)) = ToSet(pending) \ {id}
  BY EraseFromQueue DEF Structure, TypeOK, OnePlaceEach
<1>5. orders' = [orders EXCEPT ![id] = [orders[id] EXCEPT !.triggered = TRUE]]
  BY <1>1
<1> HIDE DEF id
<1>6. /\ staged' \in Seq(Ids) /\ IsInjective(staged')
      /\ ToSet(staged') = ToSet(staged) \cup {id}
  BY <1>1, <1>3, PushQueue DEF id, Structure, TypeOK, OnePlaceEach
<1>7. /\ orders' \in [Ids -> Order \cup {None}]
      /\ \A x \in Ids : x # id => orders'[x] = orders[x]
      /\ orders'[id] \in Order /\ SameTerms(orders[id], orders'[id])
      /\ orders'[id].status = orders[id].status /\ orders'[id].leaves = orders[id].leaves
  BY <1>3, <1>5 DEF Structure, TypeOK, Order, SameTerms
<1>8. \A x \in Ids : /\ orders'[x].side = orders[x].side
                    /\ orders'[x].price = orders[x].price
                    /\ orders'[x].kind = orders[x].kind
                    /\ orders'[x].status = orders[x].status
                    /\ orders'[x].leaves = orders[x].leaves
  BY <1>7 DEF SameTerms
<1>9. Submitted' = Submitted
  <2>1. orders'[id] # None /\ orders[id] # None
    BY <1>3, <1>7, NoneAssumption
  <2>2. \A x \in Ids : orders'[x] # None <=> orders[x] # None
    BY <1>7, <2>1
  <2> QED BY <2>2 DEF Submitted
<1>10. TypeOK'
  BY <1>1, <1>4, <1>6, <1>7 DEF Structure, TypeOK
<1>11. BookIndexed'
  BY <1>8, StructureFacts DEF Structure, BookIndexed
<1>12. OnePlaceEach'
  BY <1>1, <1>3, <1>4, <1>6 DEF Structure, OnePlaceEach, Held
<1>13. Placed'
  <2>1. Held' \subseteq Held
    BY <1>1, <1>2, <1>4, <1>6 DEF Held, id
  <2> QED BY <1>8, <1>9, <2>1, StructureFacts
          DEF Structure, Placed, IsMarket, IsActive, IsFilled
<1>14. LoopState'
  BY <1>8, StructureFacts DEF Structure, LoopState, InLoop, RestingSide, LastTrade, Submitted
<1> QED BY <1>10, <1>11, <1>12, <1>13, <1>14 DEF Structure

LEMMA TriggersDoneKeeps ==
  ASSUME Structure, TriggersDone
  PROVE  Structure'
<1> USE DEF TriggersDone, bookVars, stopVars, history
<1>1. TypeOK'
  BY DEF Structure, TypeOK, Phases
<1>2. BookIndexed' /\ OnePlaceEach' /\ Placed'
  BY DEF Structure, BookIndexed, OnePlaceEach, Placed, Held, Submitted
<1>3. LoopState'
  BY DEF Structure, LoopState, InLoop, RestingSide, LastTrade
<1> QED BY <1>1, <1>2, <1>3 DEF Structure

(* From a trade until it is settled, the resting order it was with. *)
LEMMA RestingFacts ==
  ASSUME Structure, phase \in {"triggers", "settle"}
  PROVE  /\ cur \in Submitted /\ orders[cur].side \in Sides
         /\ RestingSide \in Sides /\ LastTrade.price \in Prices
         /\ level[RestingSide][LastTrade.price] # <<>>
         /\ Resting \in ToSet(level[RestingSide][LastTrade.price])
         /\ Resting \in Ids /\ Resting \in Submitted /\ orders[Resting] \in Order
         /\ Resting \in active /\ Resting # cur /\ Resting \notin Held
<1>1. cur \in Submitted /\ orders[cur].side \in Sides
  BY StructureFacts DEF InLoop, Order
<1>2. RestingSide \in Sides
  BY <1>1, OppositeFacts DEF RestingSide
<1>3. LastTrade.price \in Prices /\ level[RestingSide][LastTrade.price] # <<>>
  <2> DEFINE T == [buy : Ids, sell : Ids, price : Prices, quantity : Quantity]
  <2>1. trades \in Seq(T) /\ trades # <<>>
    BY DEF Structure, TypeOK, LoopState
  <2>2. trades[Len(trades)] \in T
    <3> HIDE DEF T
    <3> QED BY <2>1
  <2> QED BY <2>2 DEF LastTrade, Structure, LoopState
<1>4. Resting \in ToSet(level[RestingSide][LastTrade.price])
  BY <1>2, <1>3, StructureFacts, PopQueue DEF Resting, Deques
<1>5. Resting \in active /\ Resting # cur
  BY <1>2, <1>3, <1>4, StructureFacts
<1> QED BY <1>1, <1>2, <1>3, <1>4, <1>5, StructureFacts DEF Structure, OnePlaceEach

LEMMA SettleFilledKeeps ==
  ASSUME Structure, SettleFilled
  PROVE  Structure'
<1> USE DEF SettleFilled, stopVars, history
<1>1. /\ RestingSide \in Sides /\ LastTrade.price \in Prices
      /\ level[RestingSide][LastTrade.price] # <<>> /\ Resting \in active
  BY RestingFacts
<1>2. Deques(level, listed)
  BY StructureFacts
<1>3. /\ Deques(level', listed')
      /\ \A s \in Sides, q \in Prices : ToSet(level'[s][q]) \subseteq ToSet(level[s][q])
      /\ Resting \notin ToSet(level'[RestingSide][LastTrade.price])
  <2> DEFINE s == RestingSide
             p == LastTrade.price
  <2>1. s \in Sides /\ p \in Prices /\ level[s][p] # <<>> /\ PopFront(s, p)
        /\ Resting = Head(level[s][p])
    BY <1>1 DEF Resting
  <2> HIDE DEF s, p
  <2>2. /\ Deques(level', listed')
        /\ \A t \in Sides, q \in Prices :
             ToSet(level'[t][q]) = IF t = s /\ q = p
                                   THEN ToSet(level[t][q]) \ {Head(level[s][p])}
                                   ELSE ToSet(level[t][q])
    BY <1>2, <2>1, PopFrontFacts
  <2>3. Resting \notin ToSet(level'[s][p])
    BY <2>1, <2>2
  <2> QED BY <2>2, <2>3 DEF s, p
<1>4. TypeOK'
  BY <1>3 DEF Structure, TypeOK, Deques, Phases
<1>5. BookIndexed'
  <2>1. ASSUME NEW s \in Sides, NEW q \in Prices, NEW id \in ToSet(level'[s][q])
        PROVE  id \in active' /\ orders'[id].side = s /\ orders'[id].price = q
    <3>1. id \in ToSet(level[s][q]) /\ id \in active
          /\ orders[id].side = s /\ orders[id].price = q
      BY <1>3, StructureFacts
    <3>2. ASSUME id = Resting PROVE FALSE
      <4>1. s = RestingSide /\ q = LastTrade.price
        BY <3>1, <3>2, RestingFacts, StructureFacts
      <4> QED BY <1>3, <3>2, <4>1
    <3> QED BY <3>1, <3>2
  <2> QED BY <1>3, <2>1 DEF BookIndexed, Deques
<1>6. OnePlaceEach'
  BY DEF Structure, OnePlaceEach, Held
<1>7. Placed'
  BY DEF Structure, Placed, Held, Submitted
<1>8. LoopState'
  BY DEF Structure, LoopState, InLoop
<1> QED BY <1>4, <1>5, <1>6, <1>7, <1>8 DEF Structure

LEMMA SettleIcebergKeeps ==
  ASSUME Structure, SettleIceberg
  PROVE  Structure'
<1> DEFINE id == Resting
<1> USE DEF SettleIceberg, stopVars, history
<1>1. id \in Ids /\ id \in Submitted /\ orders[id] \in Order
  BY RestingFacts
<1>2. orders' = [orders EXCEPT ![id] = Replenish(@)]
  OBVIOUS
<1> HIDE DEF id
<1>3. /\ orders' \in [Ids -> Order \cup {None}]
      /\ \A x \in Ids : x # id => orders'[x] = orders[x]
      /\ orders'[id] \in Order /\ SameTerms(orders[id], orders'[id])
      /\ orders'[id].status = orders[id].status /\ orders'[id].leaves = orders[id].leaves
  BY <1>1, <1>2, ReplenishTyped DEF Structure, TypeOK
<1>4. \A x \in Ids : /\ orders'[x].side = orders[x].side
                    /\ orders'[x].price = orders[x].price
                    /\ orders'[x].kind = orders[x].kind
                    /\ orders'[x].status = orders[x].status
                    /\ orders'[x].leaves = orders[x].leaves
  BY <1>3 DEF SameTerms
<1>5. Submitted' = Submitted
  <2>1. \A x \in Ids : orders'[x] # None <=> orders[x] # None
    BY <1>1, <1>3, NoneAssumption
  <2> QED BY <2>1 DEF Submitted
<1>6. TypeOK'
  BY <1>3 DEF Structure, TypeOK, Phases
<1>7. BookIndexed'
  BY <1>4, StructureFacts DEF Structure, BookIndexed
<1>8. OnePlaceEach'
  BY DEF Structure, OnePlaceEach, Held
<1>9. Placed'
  BY <1>4, <1>5, StructureFacts DEF Structure, Placed, Held, IsMarket, IsActive, IsFilled
<1>10. LoopState'
  BY DEF Structure, LoopState, InLoop
<1> QED BY <1>6, <1>7, <1>8, <1>9, <1>10 DEF Structure

LEMMA SettlePartialKeeps ==
  ASSUME Structure, SettlePartial
  PROVE  Structure'
<1> USE DEF SettlePartial, bookVars, stopVars, history
<1>1. TypeOK' /\ BookIndexed' /\ OnePlaceEach' /\ Placed'
  BY DEF Structure, TypeOK, BookIndexed, OnePlaceEach, Placed, Held, Submitted, Phases
<1>2. LoopState'
  BY DEF Structure, LoopState, InLoop
<1> QED BY <1>1, <1>2 DEF Structure

(* What FinishMatch makes of the levels when the order is booked. *)
LEMMA BookingFacts ==
  ASSUME Structure, FinishMatch, ~IsFilled(orders[cur]), ~IsMarket(orders[cur])
  PROVE  LET o == orders[cur] IN
         /\ cur \in Submitted /\ cur \in Ids /\ o \in Order
         /\ o.side \in Sides /\ o.price \in Prices
         /\ cur \notin active /\ cur \notin Held
         /\ active' = active \cup {cur}
         /\ Deques(level', listed')
         /\ \A t \in Sides, q \in Prices :
              ToSet(level'[t][q]) =
                ToSet(level[t][q]) \cup (IF t = o.side /\ q = o.price THEN {cur} ELSE {})
<1> DEFINE o == orders[cur]
           s == o.side
           p == o.price
           d == Append(level[s][p], cur)
<1>1. /\ cur \in Submitted /\ cur \in Ids /\ o \in Order /\ s \in Sides
      /\ cur \notin active /\ cur \notin Held
  BY StructureFacts DEF FinishMatch, InLoop, Order
<1>2. p \in Prices
  BY <1>1 DEF Structure, Placed
<1>3. /\ level' = Pushed(level, s, p, cur) /\ listed' = Keyed(listed, s, p)
      /\ active' = active \cup {cur}
  BY DEF FinishMatch, AddToBook, Pushed, Keyed
<1>4. /\ cur \notin ToSet(level[s][p]) /\ Deques(level, listed)
      /\ level \in [Sides -> [Prices -> Seq(Ids)]]
  BY <1>1, <1>2, StructureFacts DEF Deques
<1>5. ToSet(d) = ToSet(level[s][p]) \cup {cur}
  BY <1>1, <1>2, <1>4, PushQueue
<1>6. level' = [level EXCEPT ![s][p] = d]
  BY <1>3 DEF Pushed
<1> HIDE DEF s, p, d
<1>7. Deques(level', listed')
  BY <1>1, <1>2, <1>3, <1>4, PushedDeques
<1>8. \A t \in Sides, q \in Prices : level'[t][q] = IF t = s /\ q = p THEN d ELSE level[t][q]
  BY <1>1, <1>2, <1>4, <1>6
<1>9. \A t \in Sides, q \in Prices :
        ToSet(level'[t][q]) = ToSet(level[t][q]) \cup (IF t = s /\ q = p THEN {cur} ELSE {})
  BY <1>5, <1>8
<1> QED BY <1>1, <1>2, <1>3, <1>7, <1>9 DEF s, p

LEMMA FinishMatchKeeps ==
  ASSUME Structure, FinishMatch
  PROVE  Structure'
<1> DEFINE o == orders[cur]
<1>0. /\ phase = "match" /\ phase' = "drain" /\ cur' = None
      /\ UNCHANGED <<orders, pending, staged, batch, trades, executed, modified, placedAt>>
  BY DEF FinishMatch, stopVars, history
<1>1. /\ cur \in Submitted /\ cur \in Ids /\ o \in Order /\ o.side \in Sides
      /\ cur \notin active /\ cur \notin Held
  BY <1>0, StructureFacts DEF InLoop, Order
<1>2. CASE ~IsFilled(o) /\ ~IsMarket(o)
  <2>1. /\ o.price \in Prices /\ active' = active \cup {cur}
        /\ Deques(level', listed')
        /\ \A t \in Sides, q \in Prices :
             ToSet(level'[t][q]) =
               ToSet(level[t][q]) \cup (IF t = o.side /\ q = o.price THEN {cur} ELSE {})
    BY <1>2, BookingFacts
  <2>6. TypeOK'
    BY <1>0, <1>1, <2>1 DEF Structure, TypeOK, Deques, Phases
  <2>7. BookIndexed'
    <3>1. ASSUME NEW s \in Sides, NEW q \in Prices, NEW id \in ToSet(level'[s][q])
          PROVE  id \in active' /\ orders'[id].side = s /\ orders'[id].price = q
      <4>1. CASE id \in ToSet(level[s][q])
        BY <1>0, <2>1, <4>1, StructureFacts
      <4>2. CASE id \notin ToSet(level[s][q])
        BY <1>0, <2>1, <4>2
      <4> QED BY <4>1, <4>2
    <3> QED BY <2>1, <3>1 DEF BookIndexed, Deques
  <2>8. OnePlaceEach'
    BY <1>0, <1>1, <2>1, NoneAssumption, StructureFacts DEF Structure, OnePlaceEach, Held, Submitted
  <2>9. Placed'
    BY <1>0, <1>1, <2>1 DEF Structure, Placed, Held, Submitted
  <2>10. LoopState'
    BY <1>0 DEF Structure, LoopState, InLoop
  <2> QED BY <2>6, <2>7, <2>8, <2>9, <2>10 DEF Structure
<1>3. CASE ~(~IsFilled(o) /\ ~IsMarket(o))
  <2>1. UNCHANGED <<level, listed, active>>
    BY <1>3 DEF FinishMatch
  <2>2. TypeOK' /\ BookIndexed'
    BY <1>0, <2>1 DEF Structure, TypeOK, BookIndexed, Phases
  <2>3. OnePlaceEach'
    BY <1>0, <2>1, NoneAssumption, StructureFacts DEF Structure, OnePlaceEach, Held, Submitted
  <2>4. Placed'
    BY <1>0, <2>1 DEF Structure, Placed, Held, Submitted
  <2>5. LoopState'
    BY <1>0 DEF Structure, LoopState, InLoop
  <2> QED BY <2>2, <2>3, <2>4, <2>5 DEF Structure
<1> QED BY <1>2, <1>3

LEMMA TakeBatchKeeps ==
  ASSUME Structure, TakeBatch
  PROVE  Structure'
<1> USE DEF TakeBatch, bookVars, history
<1>1. TypeOK'
  BY EmptyQueue DEF Structure, TypeOK
<1>2. BookIndexed'
  BY DEF Structure, BookIndexed
<1>3. ToSet(staged') = {} /\ IsInjective(staged') /\ ToSet(batch) = {}
      /\ ToSet(batch') = ToSet(staged)
  BY EmptyQueue DEF Structure, TypeOK
<1>4. OnePlaceEach'
  BY <1>3 DEF Structure, OnePlaceEach, Held
<1>5. Placed'
  BY <1>3 DEF Structure, Placed, Held, Submitted
<1>6. LoopState'
  BY DEF Structure, LoopState, InLoop
<1> QED BY <1>1, <1>2, <1>4, <1>5, <1>6 DEF Structure

LEMMA MatchStopKeeps ==
  ASSUME Structure, MatchStop
  PROVE  Structure'
<1> USE DEF MatchStop, bookVars, history
<1>1. /\ batch' \in Seq(Ids) /\ IsInjective(batch')
      /\ cur' \in ToSet(batch) /\ cur' \in Ids
      /\ ToSet(batch') = ToSet(batch) \ {cur'}
  BY PopQueue DEF Structure, TypeOK, OnePlaceEach
<1>2. cur' \in Submitted /\ cur' \notin active /\ cur' # None
  BY <1>1, StructureFacts, NoneAssumption DEF Structure, OnePlaceEach, Held
<1>3. TypeOK' /\ BookIndexed'
  <2>1. TypeOK'
    BY <1>1 DEF Structure, TypeOK, Phases
  <2>2. BookIndexed'
    BY DEF Structure, BookIndexed
  <2> QED BY <2>1, <2>2
<1>4. OnePlaceEach'
  BY <1>1, <1>2 DEF Structure, OnePlaceEach, Held
<1>5. Placed'
  BY <1>1, <1>2 DEF Structure, Placed, Held, Submitted
<1>6. LoopState'
  BY <1>2 DEF Structure, LoopState, InLoop
<1> QED BY <1>3, <1>4, <1>5, <1>6 DEF Structure

LEMMA EndMatchKeeps ==
  ASSUME Structure, EndMatch
  PROVE  Structure'
<1> USE DEF EndMatch, bookVars, stopVars, history
<1>1. TypeOK' /\ BookIndexed' /\ OnePlaceEach' /\ Placed'
  BY DEF Structure, TypeOK, BookIndexed, OnePlaceEach, Placed, Held, Submitted, Phases
<1>2. LoopState'
  BY DEF Structure, LoopState, InLoop
<1> QED BY <1>1, <1>2 DEF Structure

LEMMA CancelOrderKeeps ==
  ASSUME Structure, NEW id \in Ids, CancelOrder(id)
  PROVE  Structure'
<1> USE DEF CancelOrder, stopVars, history
<1>1. /\ id \in Submitted /\ orders[id] \in Order /\ id \notin Held
      /\ orders[id].side \in Sides /\ orders[id].price \in Prices
  BY StructureFacts DEF Structure, Placed, Order, OnePlaceEach
<1>2. /\ Deques(level', listed')
      /\ \A s \in Sides, q \in Prices : ToSet(level'[s][q]) = ToSet(level[s][q]) \ {id}
  <2>1. Deques(level, listed)
    BY StructureFacts
  <2>2. \A s \in Sides, q \in Prices :
          id \in ToSet(level[s][q]) => s = orders[id].side /\ q = orders[id].price
    BY StructureFacts
  <2> QED BY <1>1, <2>1, <2>2, LevelWithoutFacts
<1>3. /\ orders' \in [Ids -> Order \cup {None}]
      /\ \A x \in Ids : x # id => orders'[x] = orders[x]
      /\ orders'[id] \in Order /\ SameTerms(orders[id], orders'[id])
      /\ IsFilled(orders'[id])
  BY <1>1, CancelTyped DEF Structure, TypeOK
<1>4. Submitted' = Submitted
  <2>1. \A x \in Ids : orders'[x] # None <=> orders[x] # None
    BY <1>1, <1>3, NoneAssumption
  <2> QED BY <2>1 DEF Submitted
<1>5. TypeOK'
  BY <1>2, <1>3 DEF Structure, TypeOK, Deques
<1>6. BookIndexed'
  <2>1. ASSUME NEW s \in Sides, NEW q \in Prices, NEW x \in ToSet(level'[s][q])
        PROVE  x \in active' /\ orders'[x].side = s /\ orders'[x].price = q
    <3>1. x \in ToSet(level[s][q]) /\ x # id
      BY <1>2
    <3> QED BY <1>3, <3>1, StructureFacts
  <2> QED BY <1>2, <2>1 DEF BookIndexed, Deques
<1>7. OnePlaceEach'
  BY DEF Structure, OnePlaceEach, Held
<1>8. Placed'
  BY <1>3, <1>4, StructureFacts DEF Structure, Placed, Held, SameTerms, IsMarket
<1>9. LoopState'
  BY DEF Structure, LoopState, InLoop
<1> QED BY <1>5, <1>6, <1>7, <1>8, <1>9 DEF Structure

(* What ModifyOrder makes of the levels. *)
LEMMA AmendingFacts ==
  ASSUME Structure, NEW id \in Ids, NEW a \in Amendments, ModifyOrder(id, a)
  PROVE  LET s == orders[id].side IN
         /\ id \in active /\ id \in Submitted /\ orders[id] \in Order /\ id \notin Held
         /\ s \in Sides /\ orders[id].kind \in Kinds
         /\ a.price \in Prices /\ a.quantity \in Quantity
         /\ Deques(level', listed')
         /\ \A t \in Sides, q \in Prices :
              ToSet(level'[t][q]) =
                (ToSet(level[t][q]) \ {id}) \cup (IF t = s /\ q = a.price THEN {id} ELSE {})
<1> DEFINE s == orders[id].side
           p == a.price
           l == LevelWithout(id)
           k == ListedWithout(id)
           d == Append(l[s][p], id)
<1>1. /\ id \in active /\ id \in Submitted /\ orders[id] \in Order /\ id \notin Held
      /\ s \in Sides /\ orders[id].kind \in Kinds /\ orders[id].price \in Prices
  BY StructureFacts DEF ModifyOrder, Structure, Placed, Order, OnePlaceEach
<1>2. p \in Prices /\ a.quantity \in Quantity
  BY AmendmentsAssumption
<1>3. /\ Deques(l, k)
      /\ \A t \in Sides, q \in Prices : ToSet(l[t][q]) = ToSet(level[t][q]) \ {id}
  <2>1. Deques(level, listed)
    BY StructureFacts
  <2>2. \A t \in Sides, q \in Prices :
          id \in ToSet(level[t][q]) => t = orders[id].side /\ q = orders[id].price
    BY StructureFacts
  <2> QED BY <1>1, <2>1, <2>2, LevelWithoutFacts
<1>4. level' = Pushed(l, s, p, id) /\ listed' = Keyed(k, s, p)
  BY DEF ModifyOrder, Pushed, Keyed, PlainOrder
<1> HIDE DEF l, k, s, p
<1>5. id \notin ToSet(l[s][p]) /\ l \in [Sides -> [Prices -> Seq(Ids)]]
  BY <1>1, <1>2, <1>3 DEF Deques
<1>6. ToSet(d) = ToSet(l[s][p]) \cup {id}
  BY <1>1, <1>2, <1>5, PushQueue
<1>7. level' = [l EXCEPT ![s][p] = d]
  BY <1>4 DEF Pushed
<1> HIDE DEF d
<1>8. Deques(level', listed')
  BY <1>1, <1>2, <1>3, <1>4, <1>5, PushedDeques
<1>9. \A t \in Sides, q \in Prices : level'[t][q] = IF t = s /\ q = p THEN d ELSE l[t][q]
  BY <1>5, <1>7
<1>10. \A t \in Sides, q \in Prices :
         ToSet(level'[t][q]) =
           (ToSet(level[t][q]) \ {id}) \cup (IF t = s /\ q = p THEN {id} ELSE {})
  BY <1>3, <1>6, <1>9
<1> QED BY <1>1, <1>2, <1>8, <1>10 DEF s, p

LEMMA ModifyOrderKeeps ==
  ASSUME Structure, NEW id \in Ids, NEW a \in Amendments, ModifyOrder(id, a)
  PROVE  Structure'
<1> DEFINE s == orders[id].side
           p == a.price
           o == PlainOrder(s, orders[id].kind, p, a.quantity)
<1>0. /\ phase = "idle" /\ id \in active
      /\ orders' = [orders EXCEPT ![id] = o]
      /\ executed' = [executed EXCEPT ![id] = 0]
      /\ modified' = modified \cup {id}
      /\ UNCHANGED <<active, pending, staged, batch, trades, phase, cur, placedAt>>
  BY DEF ModifyOrder, stopVars
<1>1. /\ id \in active /\ id \in Submitted /\ orders[id] \in Order /\ id \notin Held
      /\ s \in Sides /\ orders[id].kind \in Kinds /\ p \in Prices /\ a.quantity \in Quantity
      /\ Deques(level', listed')
      /\ \A t \in Sides, q \in Prices :
           ToSet(level'[t][q]) =
             (ToSet(level[t][q]) \ {id}) \cup (IF t = s /\ q = p THEN {id} ELSE {})
  BY AmendingFacts
<1>3. o \in Order /\ IsActive(o) /\ o.side = s /\ o.price = p
  BY <1>1, PlainOrderTyped DEF PlainOrder
<1> HIDE DEF s, p, o
<1>8. /\ orders' \in [Ids -> Order \cup {None}]
      /\ \A x \in Ids : x # id => orders'[x] = orders[x]
      /\ orders'[id] = o
  BY <1>0, <1>1, <1>3 DEF Structure, TypeOK
<1>9. Submitted' = Submitted
  <2>1. \A x \in Ids : orders'[x] # None <=> orders[x] # None
    BY <1>1, <1>3, <1>8, NoneAssumption
  <2> QED BY <2>1 DEF Submitted
<1>10. TypeOK'
  <2>1. level' \in [Sides -> [Prices -> Seq(Ids)]] /\ listed' \in [Sides -> SUBSET Prices]
    BY <1>1 DEF Deques
  <2> QED BY <1>0, <1>8, <2>1 DEF Structure, TypeOK
<1>11. BookIndexed'
  <2>1. ASSUME NEW t \in Sides, NEW q \in Prices, NEW x \in ToSet(level'[t][q])
        PROVE  x \in active' /\ orders'[x].side = t /\ orders'[x].price = q
    <3>1. CASE x = id
      <4>1. t = s /\ q = p
        BY <1>1, <3>1
      <4> QED BY <1>0, <1>1, <1>3, <1>8, <3>1, <4>1
    <3>2. CASE x # id
      <4>1. x \in ToSet(level[t][q])
        BY <1>1, <3>2
      <4> QED BY <1>0, <1>8, <3>2, <4>1, StructureFacts
    <3> QED BY <3>1, <3>2
  <2> QED BY <1>1, <2>1 DEF BookIndexed, Deques
<1>12. OnePlaceEach'
  BY <1>0 DEF Structure, OnePlaceEach, Held
<1>13. Placed'
  BY <1>0, <1>1, <1>3, <1>8, <1>9, StructureFacts DEF Structure, Placed, Held
<1>14. LoopState'
  BY <1>0 DEF Structure, LoopState, InLoop
<1> QED BY <1>10, <1>11, <1>12, <1>13, <1>14 DEF Structure

-----------------------------------------------------------------------------
LEMMA InitStructure == Init => Structure
<1> SUFFICES ASSUME Init PROVE Structure
  OBVIOUS
<1> USE DEF Init
<1>1. ToSet(<<>>) = {} /\ IsInjective(<<>>)
  BY DEF ToSet, IsInjective
<1>2. Submitted = {}
  BY DEF Submitted
<1>3. TypeOK
  BY DEF TypeOK, Phases
<1>4. BookIndexed
  BY <1>1 DEF BookIndexed
<1>5. OnePlaceEach /\ Placed
  BY <1>1, <1>2 DEF OnePlaceEach, Placed, Held
<1>6. LoopState
  BY DEF LoopState, InLoop
<1> QED BY <1>3, <1>4, <1>5, <1>6 DEF Structure

LEMMA StutterKeeps ==
  ASSUME Structure, UNCHANGED vars
  PROVE  Structure'
<1> USE DEF vars, bookVars, stopVars, history
<1>1. TypeOK' /\ BookIndexed'
  BY DEF Structure, TypeOK, BookIndexed
<1>2. OnePlaceEach' /\ Placed'
  BY DEF Structure, OnePlaceEach, Placed, Held, Submitted
<1>3. LoopState'
  BY DEF Structure, LoopState, InLoop, RestingSide, LastTrade
<1> QED BY <1>1, <1>2, <1>3 DEF Structure

LEMMA NextKeepsStructure == Structure /\ [Next]_vars => Structure'
<1> SUFFICES ASSUME Structure, [Next]_vars PROVE Structure'
  OBVIOUS
<1>1. CASE \E id \in Ids, r \in Requests : HoldStop(id, r) \/ BeginMatch(id, r)
  BY <1>1, HoldStopKeeps, BeginMatchKeeps
<1>2. CASE \E id \in Ids : CancelOrder(id)
  BY <1>2, CancelOrderKeeps
<1>3. CASE \E id \in Ids, a \in Amendments : ModifyOrder(id, a)
  BY <1>3, ModifyOrderKeeps
<1>4. CASE \E p \in Prices, r \in Ids : SkipEmpty(p, r) \/ Trade(p, r)
  BY <1>4, SkipEmptyKeeps, TradeKeeps
<1>5. CASE FireStop \/ TriggersDone
  BY <1>5, FireStopKeeps, TriggersDoneKeeps
<1>6. CASE SettleFilled \/ SettleIceberg \/ SettlePartial
  BY <1>6, SettleFilledKeeps, SettleIcebergKeeps, SettlePartialKeeps
<1>7. CASE FinishMatch \/ TakeBatch \/ MatchStop \/ EndMatch
  BY <1>7, FinishMatchKeeps, TakeBatchKeeps, MatchStopKeeps, EndMatchKeeps
<1>8. CASE UNCHANGED vars
  BY <1>8, StutterKeeps
<1> QED BY <1>1, <1>2, <1>3, <1>4, <1>5, <1>6, <1>7, <1>8 DEF Next, MatchStep

(* The members of OrderBook and the order objects keep their types, the    *)
(* maps, active_ and the stop vectors agree with each other, and no order  *)
(* is in two places: for any orders, ids, prices and word.                 *)
THEOREM StructureInvariant == Spec => []Structure
<1>1. Init => Structure
  BY InitStructure
<1>2. Structure /\ [Next]_vars => Structure'
  BY NextKeepsStructure
<1> QED BY <1>1, <1>2, PTL DEF Spec

(* Type correctness of the book. *)
THEOREM TypeCorrect == Spec => []TypeOK
<1>1. Structure => TypeOK
  BY DEF Structure
<1> QED BY <1>1, StructureInvariant, PTL

(* The keys of the maps, the deques and active_ always agree. *)
THEOREM IndexesAgree == Spec => []BookIndexed
<1>1. Structure => BookIndexed
  BY DEF Structure
<1> QED BY <1>1, StructureInvariant, PTL

(* No order, and in particular no stop, is ever at two places of the book. *)
THEOREM NoOrderTwice == Spec => []OnePlaceEach
<1>1. Structure => OnePlaceEach
  BY DEF Structure
<1> QED BY <1>1, StructureInvariant, PTL

=============================================================================

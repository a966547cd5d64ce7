--------------------------- MODULE OrderBookLedger ---------------------------
(***************************************************************************)
(* Quantities are conserved, proved for clients whose icebergs display no  *)
(* more than their quantity (LotsFit), and what the book holds is on offer, *)
(* proved under the conditions in which the code keeps that promise.       *)
(***************************************************************************)
EXTENDS OrderBookSafety, OrderBookQueries, FiniteSetTheorems

-----------------------------------------------------------------------------
(* What the constructors and mutators of an order do to its lots. *)

GoodLots(o) ==
  IsIceberg(o) /\ o.status # "CANCELLED" => o.display = 0 \/ LotsInOrder(o)

LEMMA OrderNumbers ==
  ASSUME NEW o \in Order
  PROVE  /\ o.leaves \in Int /\ 0 <= o.leaves /\ o.leaves < Word
         /\ o.display \in Int /\ 0 <= o.display /\ o.display < Word
         /\ o.hidden \in Int /\ 0 <= o.hidden /\ o.hidden < Word
         /\ o.orig \in Int /\ 0 <= o.orig /\ o.orig < Word
         /\ o.quantity \in Int /\ 0 <= o.quantity /\ o.quantity < Word
BY QuantityFacts DEF Order

(* A number that fits a word is not changed by wrapping. *)
LEMMA NoWrap ==
  ASSUME NEW n \in Int, 0 <= n, n < Word
  PROVE  n % Word = n
BY WordAssumption

LEMMA NewOrderLots ==
  ASSUME LotsFit, NEW r \in Requests
  PROVE  GoodLots(NewOrder(r)) /\ NewOrder(r).leaves = NewOrder(r).quantity
<1>1. r \in Request /\ r.kind \in Kinds /\ r.display \in Quantity /\ r.quantity \in Quantity
  BY RequestsAssumption DEF Request
<1>2. CASE r.kind = "ICEBERG"
  <2>1. r.display <= r.quantity
    BY <1>2 DEF LotsFit
  <2>2. (r.quantity - r.display) % Word = r.quantity - r.display
    <3> DEFINE n == r.quantity - r.display
    <3>1. n \in Int /\ 0 <= n /\ n < Word
      <4>1. /\ r.quantity \in Int /\ r.display \in Int /\ Word \in Int
            /\ 0 <= r.display /\ r.quantity < Word
        BY <1>1, QuantityFacts
      <4> QED BY <2>1, <4>1
    <3> HIDE DEF n
    <3>2. n % Word = n
      BY <3>1, NoWrap
    <3> QED BY <3>2 DEF n
  <2> DEFINE plain == PlainOrder(r.side, "ICEBERG", r.price, r.quantity)
             h == (r.quantity - r.display) % Word
  <2>3. NewOrder(r) = [plain EXCEPT !.display = r.display, !.hidden = h, !.orig = r.display]
    BY <1>2 DEF NewOrder, IcebergOrder
  <2> HIDE DEF h
  <2>4. /\ NewOrder(r).display = r.display /\ NewOrder(r).hidden = h
        /\ NewOrder(r).leaves = r.quantity /\ NewOrder(r).quantity = r.quantity
    BY <2>3 DEF PlainOrder
  <2>5. h = r.quantity - r.display
    BY <2>2 DEF h
  <2>6. r.quantity \in Int /\ r.display \in Int
    BY <1>1, QuantityFacts
  <2> QED BY <2>4, <2>5, <2>6 DEF GoodLots, LotsInOrder
<1>3. CASE r.kind # "ICEBERG"
  <2>1. NewOrder(r).kind # "ICEBERG"
    BY <1>3, NewOrderTyped
  <2>2. NewOrder(r).leaves = NewOrder(r).quantity
    BY <1>1, <1>3 DEF NewOrder, PlainOrder, StopLossOrder, Kinds
  <2> QED BY <2>1, <2>2 DEF GoodLots, IsIceberg
<1> QED BY <1>2, <1>3

LEMMA FillLots ==
  ASSUME NEW o \in Order, NEW q \in Quantity, GoodLots(o), o.status # "CANCELLED"
  PROVE  /\ GoodLots(Fill(o, q))
         /\ IsIceberg(o) /\ LotsInOrder(o) /\ q <= o.display => LotsInOrder(Fill(o, q))
<1>1. q \in Int /\ 0 <= q
  BY QuantityFacts
<1>2. CASE q >= o.leaves
  <2>1. /\ Fill(o, q).leaves = 0 /\ Fill(o, q).kind = o.kind
        /\ IsIceberg(o) => Fill(o, q).display = 0 /\ Fill(o, q).hidden = 0
    BY <1>2 DEF Fill, Order
  <2> QED BY <2>1 DEF GoodLots, LotsInOrder, IsIceberg
<1>3. CASE ~(q >= o.leaves)
  <2> DEFINE m == Min({q, o.display})
  <2>1. m \in {q, o.display} /\ m <= q /\ m <= o.display
    BY <1>1, OrderNumbers, MinOfTwo
  <2>2. Fill(o, q) = [o EXCEPT !.leaves  = o.leaves - q,
                               !.display = IF IsIceberg(o) THEN o.display - m ELSE o.display,
                               !.status  = "PARTIAL"]
    BY <1>3 DEF Fill
  <2> HIDE DEF m
  <2>3. /\ Fill(o, q).leaves = o.leaves - q /\ Fill(o, q).kind = o.kind
        /\ Fill(o, q).hidden = o.hidden
        /\ IsIceberg(o) => Fill(o, q).display = o.display - m
    BY <2>2 DEF Order
  <2> QED BY <1>1, <2>1, <2>3, OrderNumbers DEF GoodLots, LotsInOrder, IsIceberg
<1> QED BY <1>2, <1>3

LEMMA ReplenishLots ==
  ASSUME NEW o \in Order, IsIceberg(o), LotsInOrder(o), o.display = 0
  PROVE  LotsInOrder(Replenish(o))
<1>1. CASE o.hidden = 0
  BY <1>1 DEF Replenish
<1>2. CASE o.hidden # 0
  <2> DEFINE lot == Min({o.hidden, o.orig})
  <2>1. lot \in {o.hidden, o.orig} /\ lot <= o.hidden
    BY OrderNumbers, MinOfTwo
  <2>2. Replenish(o) = [o EXCEPT !.display = (0 + lot) % Word, !.hidden = o.hidden - lot]
    BY <1>2 DEF Replenish
  <2> HIDE DEF lot
  <2>3. lot \in Int /\ 0 <= lot /\ lot < Word
    BY <2>1, OrderNumbers
  <2>4. (0 + lot) % Word = lot
    BY <2>3, NoWrap
  <2>5. Replenish(o) = [o EXCEPT !.display = lot, !.hidden = o.hidden - lot]
    BY <2>2, <2>4
  <2>6. /\ Replenish(o).display = lot /\ Replenish(o).hidden = o.hidden - lot
        /\ Replenish(o).leaves = o.leaves
    BY <2>5 DEF Order
  <2> QED BY <2>3, <2>6, OrderNumbers DEF LotsInOrder
<1> QED BY <1>1, <1>2

-----------------------------------------------------------------------------
(* The lots of every iceberg stay in order. *)

LEMMA LotsFacts ==
  ASSUME Lots
  PROVE  \A id \in Submitted : GoodLots(orders[id])
BY DEF Lots, GoodLots

(* A trade leaves the terms of both orders, and the resting one is r. *)
LEMMA TradeResting ==
  ASSUME Structure, NEW p \in Prices, NEW r \in Ids, Trade(p, r)
  PROVE  Resting' = r
<1> DEFINE qty == TradeQty(orders[cur], orders[r])
           opp == Opposite(orders[cur].side)
<1>1. cur' = cur /\ level' = level /\ r = Head(level[opp][p])
  BY FacingFacts DEF Trade
<1>2. orders'[cur].side = orders[cur].side
  <2>1. orders'[cur] = Fill(orders[cur], qty) /\ qty \in Quantity /\ orders[cur] \in Order
    BY TradeFacts, FacingFacts DEF Trade
  <2> HIDE DEF qty
  <2> QED BY <2>1, FillTyped DEF SameTerms
<1>3. trades'[Len(trades')].price = p
  <2>1. PICK t : trades' = Append(trades, t) /\ t.price = p
    BY DEF Trade
  <2>2. trades \in Seq(Trades)
    BY DEF Structure, TypeOK, Trades
  <2> QED BY <2>1, <2>2
<1> QED BY <1>1, <1>2, <1>3 DEF Resting, RestingSide, LastTrade

(* What a trade moves: no more than the taker wants or the maker shows. *)
LEMMA TradeQtyBounds ==
  ASSUME Structure, NEW p \in Prices, NEW r \in Ids, Trade(p, r)
  PROVE  LET qty == TradeQty(orders[cur], orders[r]) IN
         qty <= orders[cur].leaves /\ qty <= Visible(orders[r])
<1>1. orders[cur] \in Order /\ orders[r] \in Order
  BY FacingFacts DEF Trade
<1>2. orders[cur].leaves \in Int /\ Visible(orders[r]) \in Int
  BY <1>1, OrderNumbers DEF Visible
<1> QED BY <1>2, MinOfTwo DEF TradeQty

LEMMA NextKeepsLots ==
  ASSUME LotsFit, Structure, CancelledNowhere, Lots, [Next]_vars
  PROVE  Lots'
<1> DEFINE Good == \A id \in Submitted' : GoodLots(orders'[id])
           Trading == phase' \in {"triggers", "settle"}
<1>0. (Good /\ (Trading /\ IsIceberg(orders'[Resting']) => LotsInOrder(orders'[Resting'])))
        => Lots'
  BY DEF Lots, GoodLots, IsIceberg, LotsInOrder
<1>1. CASE \E id \in Ids, r \in Requests : HoldStop(id, r) \/ BeginMatch(id, r)
  <2>1. PICK id \in Ids, r \in Requests : HoldStop(id, r) \/ BeginMatch(id, r)
    BY <1>1
  <2>2. /\ Submitted' = Submitted \cup {id} /\ \A x \in Submitted : orders'[x] = orders[x]
        /\ GoodLots(orders'[id])
    BY <2>1, ArrivalFacts, NewOrderLots DEF Submitted
  <2>3. Good
    BY <2>2, LotsFacts
  <2>4. ~Trading
    BY <2>1 DEF HoldStop, BeginMatch
  <2> QED BY <1>0, <2>3, <2>4
<1>2. CASE \E id \in Ids : CancelOrder(id)
  <2>1. PICK id \in Ids : CancelOrder(id)
    BY <1>2
  <2>2. /\ Submitted' = Submitted /\ \A x \in Submitted : x # id => orders'[x] = orders[x]
        /\ orders'[id] = CancelOf(orders[id]) /\ id \in Submitted
    BY <2>1, CancelFacts DEF Submitted
  <2>3. orders'[id].status = "CANCELLED"
    BY <2>2, StructureFacts DEF CancelOf, Order
  <2>4. Good
    BY <2>2, <2>3, LotsFacts DEF GoodLots
  <2>5. ~Trading
    BY <2>1 DEF CancelOrder
  <2> QED BY <1>0, <2>4, <2>5
<1>3. CASE \E id \in Ids, a \in Amendments : ModifyOrder(id, a)
  <2>1. PICK id \in Ids, a \in Amendments : ModifyOrder(id, a)
    BY <1>3
  <2>2. /\ Submitted' = Submitted /\ \A x \in Submitted : x # id => orders'[x] = orders[x]
        /\ orders'[id].display = 0
    <3>1. /\ Submitted' = Submitted /\ \A x \in Ids : x # id => orders'[x] = orders[x]
          /\ orders'[id] = PlainOrder(orders[id].side, orders[id].kind, a.price, a.quantity)
      BY <2>1, ModifyFacts
    <3> QED BY <3>1 DEF Submitted, PlainOrder
  <2>3. Good
    BY <2>2, LotsFacts DEF GoodLots
  <2>4. ~Trading
    BY <2>1 DEF ModifyOrder
  <2> QED BY <1>0, <2>3, <2>4
<1>4. CASE \E p \in Prices, r \in Ids : Trade(p, r)
  <2>1. PICK p \in Prices, r \in Ids : Trade(p, r)
    BY <1>4
  <2> DEFINE qty == TradeQty(orders[cur], orders[r])
  <2>2. /\ qty \in Quantity /\ Submitted' = Submitted
        /\ orders'[cur] = Fill(orders[cur], qty) /\ orders'[r] = Fill(orders[r], qty)
        /\ \A x \in Ids : x # cur /\ x # r => orders'[x] = orders[x]
    BY <2>1, TradeFacts
  <2>3. /\ cur \in Submitted /\ r \in Submitted /\ r \in active
        /\ orders[cur] \in Order /\ orders[r] \in Order
    BY <2>1, FacingFacts DEF Trade
  <2>4. orders[cur].status # "CANCELLED" /\ orders[r].status # "CANCELLED"
    BY <2>3, NoneAssumption DEF CancelledNowhere, Submitted
  <2>5. GoodLots(orders[cur]) /\ GoodLots(orders[r])
    BY <2>3, LotsFacts
  <2>6. Visible(orders[r]) # 0 /\ qty <= Visible(orders[r])
    BY <2>1, TradeQtyBounds DEF Trade
  <2>7. IsIceberg(orders[r]) => LotsInOrder(orders[r]) /\ qty <= orders[r].display
    BY <2>4, <2>5, <2>6 DEF GoodLots, Visible
  <2>8. Resting' = r
    BY <2>1, TradeResting
  <2> HIDE DEF qty
  <2>9. Good
    <3>1. GoodLots(orders'[cur]) /\ GoodLots(orders'[r])
      BY <2>2, <2>3, <2>4, <2>5, FillLots
    <3> QED BY <2>2, <3>1, LotsFacts DEF Submitted
  <2>10. IsIceberg(orders'[r]) => LotsInOrder(orders'[r])
    <3>1. IsIceberg(orders'[r]) <=> IsIceberg(orders[r])
      BY <2>2, <2>3, FillTyped DEF SameTerms, IsIceberg
    <3> QED BY <2>2, <2>3, <2>4, <2>5, <2>7, <3>1, FillLots
  <2> QED BY <1>0, <2>8, <2>9, <2>10
<1>5. CASE FireStop
  <2>1. PICK id \in ToSet(pending) :
           /\ id \in Submitted /\ Submitted' = Submitted
           /\ orders'[id] = [orders[id] EXCEPT !.triggered = TRUE]
           /\ \A x \in Ids : x # id => orders'[x] = orders[x]
    BY <1>5, FireStopFacts
  <2>2. /\ cur' = cur /\ level' = level /\ trades' = trades
        /\ phase = "triggers" /\ phase' = "triggers"
    BY <1>5 DEF FireStop
  <2>3. id \in Held /\ cur \in Ids /\ cur \notin Held /\ Resting \in Ids /\ Resting \notin Held
    BY <2>1, <2>2, RestingFacts, StructureFacts DEF Held, InLoop, Submitted
  <2>4. orders'[cur] = orders[cur] /\ orders'[Resting] = orders[Resting]
    BY <2>1, <2>3
  <2>5. Resting' = Resting
    BY <2>2, <2>4 DEF Resting, RestingSide, LastTrade
  <2>6. GoodLots(orders'[id])
    <3>1. orders[id] \in Order /\ GoodLots(orders[id])
      BY <2>1, LotsFacts, StructureFacts
    <3>2. /\ orders'[id].kind = orders[id].kind /\ orders'[id].status = orders[id].status
          /\ orders'[id].display = orders[id].display
          /\ orders'[id].hidden = orders[id].hidden /\ orders'[id].leaves = orders[id].leaves
      BY <2>1, <3>1 DEF Order
    <3> QED BY <3>1, <3>2 DEF GoodLots, IsIceberg, LotsInOrder
  <2>7. Good
    BY <2>1, <2>6, LotsFacts DEF Submitted
  <2> QED BY <1>0, <2>2, <2>4, <2>5, <2>7 DEF Lots
<1>6. CASE SettleIceberg
  <2>1. PICK id \in Ids :
          /\ id = Resting /\ Submitted' = Submitted /\ orders[id] \in Order
          /\ orders'[id] = Replenish(orders[id])
          /\ \A x \in Ids : x # id => orders'[x] = orders[x]
    BY <1>6, SettleIcebergFacts
  <2>2. /\ IsIceberg(orders[id]) /\ orders[id].display = 0 /\ LotsInOrder(orders[id])
        /\ ~Trading
    BY <1>6, <2>1 DEF SettleIceberg, Visible, Lots
  <2>3. LotsInOrder(orders'[id])
    BY <2>1, <2>2, ReplenishLots
  <2>4. Good
    BY <2>1, <2>3, LotsFacts DEF Submitted, GoodLots
  <2> QED BY <1>0, <2>2, <2>4
<1>7. CASE orders' = orders /\ ~Trading
  <2>1. Good
    BY <1>7, LotsFacts DEF Submitted
  <2> QED BY <1>0, <1>7, <2>1
<1>8. CASE TriggersDone \/ UNCHANGED vars
  BY <1>8 DEF TriggersDone, vars, bookVars, Lots, Submitted, Resting, RestingSide, LastTrade,
     IsIceberg, LotsInOrder
<1>9. \/ \E id \in Ids, r \in Requests : HoldStop(id, r) \/ BeginMatch(id, r)
      \/ \E id \in Ids : CancelOrder(id)
      \/ \E id \in Ids, a \in Amendments : ModifyOrder(id, a)
      \/ \E p \in Prices, r \in Ids : Trade(p, r)
      \/ FireStop \/ SettleIceberg \/ TriggersDone \/ UNCHANGED vars
      \/ orders' = orders /\ ~Trading
  BY StepCases DEF Quiet, SettlePartial, EndMatch, SkipEmpty, Facing, SettleFilled, FinishMatch,
     TakeBatch, MatchStop, bookVars
<1> QED BY <1>1, <1>2, <1>3, <1>4, <1>5, <1>6, <1>7, <1>8, <1>9


-----------------------------------------------------------------------------
(* What every order traded and what is left of it make up its quantity. *)

(* An order that was not submitted has traded nothing. *)
Untraded == \A id \in Ids \ Submitted : executed[id] = 0

Balanced(o, done) ==
  IF o.status = "CANCELLED" THEN done <= o.quantity ELSE done + o.leaves = o.quantity

LEMMA NextKeepsLedger ==
  ASSUME LotsFit, Structure, CancelledNowhere, Lots, Ledger, Untraded, [Next]_vars
  PROVE  Ledger' /\ Untraded'
<1> DEFINE Same(id) == executed'[id] = executed[id] /\ orders'[id].status = orders[id].status
                       /\ orders'[id].leaves = orders[id].leaves
                       /\ orders'[id].quantity = orders[id].quantity
           Balances(id) == Balanced(orders'[id], executed'[id])
<1>0. /\ executed \in [Ids -> Nat] /\ Submitted \subseteq Ids
      /\ \A id \in Submitted : Balanced(orders[id], executed[id])
  BY DEF Structure, TypeOK, Submitted, Ledger, Balanced
<1>1. ASSUME \A id \in Submitted' : Balances(id)
      PROVE  Ledger'
  BY <1>1 DEF Ledger, Balanced
<1>2. CASE \E id \in Ids, r \in Requests : HoldStop(id, r) \/ BeginMatch(id, r)
  <2>1. PICK id \in Ids, r \in Requests : HoldStop(id, r) \/ BeginMatch(id, r)
    BY <1>2
  <2>2. /\ Submitted' = Submitted \cup {id} /\ \A x \in Submitted : orders'[x] = orders[x]
        /\ orders'[id] = NewOrder(r) /\ id \notin Submitted
    BY <2>1, ArrivalFacts DEF Submitted
  <2>3. executed' = executed /\ executed[id] = 0
    BY <2>1, <2>2 DEF HoldStop, BeginMatch, history, Untraded
  <2>4. NewOrder(r).status # "CANCELLED" /\ NewOrder(r).leaves = NewOrder(r).quantity
        /\ NewOrder(r).leaves \in Int
    BY NewOrderTyped, NewOrderLots, OrderNumbers DEF IsActive
  <2>5. Balances(id)
    BY <2>2, <2>3, <2>4 DEF Balanced
  <2> QED BY <1>0, <1>1, <2>2, <2>3, <2>5 DEF Untraded
<1>3. CASE \E id \in Ids : CancelOrder(id)
  <2>1. PICK id \in Ids : CancelOrder(id)
    BY <1>3
  <2>2. /\ Submitted' = Submitted /\ \A x \in Submitted : x # id => orders'[x] = orders[x]
        /\ orders'[id] = CancelOf(orders[id]) /\ id \in Submitted /\ id \in active
    BY <2>1, CancelFacts DEF Submitted
  <2>3. executed' = executed
    BY <2>1 DEF CancelOrder, history
  <2>4. orders[id] \in Order /\ orders[id].status # "CANCELLED"
    BY <2>2, StructureFacts, NoneAssumption DEF CancelledNowhere, Submitted
  <2>5. orders'[id].status = "CANCELLED" /\ orders'[id].quantity = orders[id].quantity
    BY <2>2, <2>4 DEF CancelOf, Order
  <2>6. Balances(id)
    BY <1>0, <2>2, <2>3, <2>4, <2>5, OrderNumbers DEF Balanced
  <2> QED BY <1>0, <1>1, <2>2, <2>3, <2>6 DEF Untraded
<1>4. CASE \E id \in Ids, a \in Amendments : ModifyOrder(id, a)
  <2>1. PICK id \in Ids, a \in Amendments : ModifyOrder(id, a)
    BY <1>4
  <2> DEFINE o == PlainOrder(orders[id].side, orders[id].kind, a.price, a.quantity)
  <2>2. /\ Submitted' = Submitted /\ \A x \in Submitted : x # id => orders'[x] = orders[x]
        /\ orders'[id] = o /\ id \in Submitted
    BY <2>1, ModifyFacts DEF Submitted
  <2>3. executed' = [executed EXCEPT ![id] = 0]
    BY <2>1 DEF ModifyOrder
  <2>4. o.leaves = o.quantity /\ o.quantity \in Int /\ o.status # "CANCELLED"
    BY AmendmentsAssumption, QuantityFacts DEF PlainOrder
  <2> HIDE DEF o
  <2>5. /\ executed'[id] = 0 /\ \A x \in Ids : x # id => executed'[x] = executed[x]
    BY <1>0, <2>3
  <2>6. Balances(id)
    BY <2>2, <2>4, <2>5 DEF Balanced
  <2>7. \A x \in Submitted' : Balances(x)
    BY <1>0, <2>2, <2>5, <2>6
  <2> QED BY <1>0, <1>1, <2>2, <2>5, <2>7 DEF Untraded
<1>5. CASE \E p \in Prices, r \in Ids : Trade(p, r)
  <2>1. PICK p \in Prices, r \in Ids : Trade(p, r)
    BY <1>5
  <2> DEFINE qty == TradeQty(orders[cur], orders[r])
  <2>2. /\ qty \in Quantity /\ Submitted' = Submitted
        /\ orders'[cur] = Fill(orders[cur], qty) /\ orders'[r] = Fill(orders[r], qty)
        /\ \A x \in Ids : x # cur /\ x # r => orders'[x] = orders[x]
    BY <2>1, TradeFacts
  <2>3. /\ cur \in Submitted /\ r \in Submitted /\ r \in active /\ r # cur
        /\ orders[cur] \in Order /\ orders[r] \in Order
    BY <2>1, FacingFacts DEF Trade
  <2>4. orders[cur].status # "CANCELLED" /\ orders[r].status # "CANCELLED"
    BY <2>3, NoneAssumption DEF CancelledNowhere, Submitted
  <2>5. executed' = [executed EXCEPT ![cur] = @ + qty, ![r] = @ + qty]
    BY <2>1 DEF Trade
  <2>6. qty <= orders[cur].leaves /\ qty <= orders[r].leaves
    <3>1. qty <= orders[cur].leaves /\ qty <= Visible(orders[r]) /\ Visible(orders[r]) # 0
      BY <2>1, TradeQtyBounds DEF Trade
    <3>2. IsIceberg(orders[r]) => LotsInOrder(orders[r])
      BY <2>3, <2>4, <3>1, LotsFacts DEF GoodLots, Visible
    <3>3. Visible(orders[r]) <= orders[r].leaves
      BY <2>3, <3>2, OrderNumbers DEF LotsInOrder, Visible
    <3>4. orders[r].leaves \in Int /\ Visible(orders[r]) \in Int /\ qty \in Int
      BY <2>2, <2>3, OrderNumbers, QuantityFacts DEF Visible
    <3> HIDE DEF qty
    <3> QED BY <3>1, <3>3, <3>4
  <2> HIDE DEF qty
  <2>7. /\ executed'[cur] = executed[cur] + qty /\ executed'[r] = executed[r] + qty
        /\ \A x \in Ids : x # cur /\ x # r => executed'[x] = executed[x]
    BY <1>0, <2>3, <2>5
  <2>8. ASSUME NEW x \in {cur, r} PROVE Balances(x)
    <3>1. /\ orders[x] \in Order /\ orders'[x] = Fill(orders[x], qty)
          /\ qty \in Int /\ qty <= orders[x].leaves /\ x \in Submitted
          /\ executed'[x] = executed[x] + qty /\ executed[x] \in Int
      BY <1>0, <2>2, <2>3, <2>6, <2>7, QuantityFacts
    <3>2. /\ orders'[x].leaves = orders[x].leaves - qty /\ orders[x].leaves \in Int
          /\ orders'[x].status # "CANCELLED"
          /\ orders'[x].quantity = orders[x].quantity /\ orders[x].quantity \in Int
      <4>1. qty \in Quantity
        BY <2>2
      <4>2. orders'[x].leaves = IF qty >= orders[x].leaves THEN 0 ELSE orders[x].leaves - qty
        BY <3>1, <4>1, FillTyped
      <4>3. orders'[x].status # "CANCELLED" /\ orders'[x].quantity = orders[x].quantity
        BY <3>1, <4>1, FillTyped DEF SameTerms
      <4>4. orders[x].leaves \in Int /\ orders[x].quantity \in Int
        BY <3>1, OrderNumbers
      <4> QED BY <3>1, <4>2, <4>3, <4>4
    <3>3. executed[x] + orders[x].leaves = orders[x].quantity
      BY <1>0, <2>4, <3>1 DEF Balanced
    <3> QED BY <3>1, <3>2, <3>3 DEF Balanced
  <2>9. \A x \in Submitted' : Balances(x)
    BY <1>0, <2>2, <2>7, <2>8
  <2>10. Ledger'
    BY <1>1, <2>9
  <2>11. Untraded'
    BY <1>0, <2>2, <2>3, <2>7 DEF Untraded
  <2> QED BY <2>10, <2>11
<1>6. CASE FireStop
  <2>1. PICK id \in ToSet(pending) :
           /\ id \in Submitted /\ Submitted' = Submitted
           /\ orders'[id] = [orders[id] EXCEPT !.triggered = TRUE]
           /\ \A x \in Ids : x # id => orders'[x] = orders[x]
    BY <1>6, FireStopFacts
  <2>2. executed' = executed
    BY <1>6 DEF FireStop, history
  <2>3. orders[id] \in Order
    BY <2>1, StructureFacts
  <2>4. \A x \in Submitted : Same(x)
    BY <1>0, <2>1, <2>2, <2>3 DEF Order
  <2> QED BY <1>0, <1>1, <2>1, <2>2, <2>4 DEF Untraded, Balanced
<1>7. CASE SettleIceberg
  <2>1. PICK id \in Ids :
          /\ Submitted' = Submitted /\ orders[id] \in Order
          /\ orders'[id] = Replenish(orders[id])
          /\ SameTerms(orders[id], orders'[id])
          /\ orders'[id].leaves = orders[id].leaves
          /\ orders'[id].status = orders[id].status
          /\ \A x \in Ids : x # id => orders'[x] = orders[x]
    BY <1>7, SettleIcebergFacts
  <2>2. executed' = executed
    BY <1>7 DEF SettleIceberg, history
  <2>3. \A x \in Submitted : Same(x)
    BY <1>0, <2>1, <2>2 DEF SameTerms
  <2> QED BY <1>0, <1>1, <2>1, <2>2, <2>3 DEF Untraded, Balanced
<1>8. CASE orders' = orders /\ executed' = executed
  BY <1>8 DEF Ledger, Untraded, Submitted
<1>9. \/ \E id \in Ids, r \in Requests : HoldStop(id, r) \/ BeginMatch(id, r)
      \/ \E id \in Ids : CancelOrder(id)
      \/ \E id \in Ids, a \in Amendments : ModifyOrder(id, a)
      \/ \E p \in Prices, r \in Ids : Trade(p, r)
      \/ FireStop \/ SettleIceberg
      \/ orders' = orders /\ executed' = executed
  BY StepCases, QuietFacts DEF SettleFilled, FinishMatch, TakeBatch, MatchStop, bookVars, history
<1> QED BY <1>2, <1>3, <1>4, <1>5, <1>6, <1>7, <1>8, <1>9

(* Where no client displays more than it has to trade, a booked iceberg    *)
(* shows a part of what is left of it and hides the rest, or shows nothing. *)
THEOREM LotsAddUp ==
  ASSUME LotsFit
  PROVE  Spec => []IcebergSplit
<1>1. Init => CancelledNowhere /\ Lots
  BY DEF Init, CancelledNowhere, Held, ToSet, Lots, Submitted
<1>2. Structure /\ CancelledNowhere /\ Lots /\ [Next]_vars => CancelledNowhere' /\ Lots'
  BY NextKeepsCancelledNowhere, NextKeepsLots
<1>3. Structure /\ CancelledNowhere /\ Lots => IcebergSplit
  <2> SUFFICES ASSUME Structure, CancelledNowhere, Lots, NEW s \in Sides, NEW p \in Prices,
                      NEW id \in ToSet(level[s][p]), IsIceberg(orders[id])
               PROVE  orders[id].display = 0
                        \/ orders[id].display + orders[id].hidden = orders[id].leaves
    BY DEF IcebergSplit
  <2>1. id \in active /\ id \in Submitted
    BY StructureFacts
  <2>2. orders[id].status # "CANCELLED"
    BY <2>1, NoneAssumption DEF CancelledNowhere, Submitted
  <2> QED BY <2>1, <2>2, LotsFacts DEF GoodLots, LotsInOrder
<1> QED BY <1>1, <1>2, <1>3, StructureInvariant, PTL DEF Spec

(* Under the same condition quantities are conserved: an order has traded  *)
(* its quantity less what is left of it, and never more.                   *)
THEOREM LedgerBalances ==
  ASSUME LotsFit
  PROVE  Spec => []Ledger
<1> DEFINE Inv == CancelledNowhere /\ Lots /\ Ledger /\ Untraded
<1>1. Init => Inv
  BY DEF Init, CancelledNowhere, Held, ToSet, Lots, Ledger, Untraded, Submitted
<1>2. Structure /\ Inv /\ [Next]_vars => Inv'
  BY NextKeepsCancelledNowhere, NextKeepsLots, NextKeepsLedger
<1>3. Inv => Ledger
  OBVIOUS
<1> HIDE DEF Inv
<1> QED BY <1>1, <1>2, <1>3, StructureInvariant, PTL DEF Spec

-----------------------------------------------------------------------------
(* What the book holds is on offer.  It is not so of every client: the     *)
(* conditions are that an iceberg has lots to show, that an amendment      *)
(* leaves something to trade, and that icebergs only rest: they arrive     *)
(* when they face nothing, and are not amended.                            *)

LotsShow        == \A r \in Requests : r.kind = "ICEBERG" => r.display > 0
AmendmentsLeave == \A a \in Amendments : a.quantity > 0

IcebergsOnlyRest ==
  /\ phase = "triggers" => ~IsIceberg(orders[cur])
  /\ \A id \in modified : ~IsIceberg(orders[id])

(* The one order that may offer nothing is the one just traded with. *)
BeingSettled(id) == phase \in {"triggers", "settle"} /\ id = Resting

NothingEmpty == \A id \in active : orders[id].leaves > 0 \/ BeingSettled(id)

IcebergsOffer ==
  /\ \A id \in Submitted : IsIceberg(orders[id]) => orders[id].orig > 0
  /\ \A id \in Held \cup {cur} :
       id # None /\ IsIceberg(orders[id]) => orders[id].display > 0
  /\ \A id \in active :
       IsIceberg(orders[id]) /\ orders[id].leaves > 0
         => orders[id].display > 0 \/ BeingSettled(id)

(* An order the book holds after a step was traded with, stood there as it  *)
(* is, is booked now, was replenished or was amended.                      *)
LEMMA ActiveStep ==
  ASSUME Structure, [Next]_vars, NEW x \in active'
  PROVE  \/ BeingSettled(x)'
         \/ /\ x \in active /\ orders'[x] = orders[x]
            /\ BeingSettled(x) => ~IsFilled(orders[x]) /\ Visible(orders[x]) # 0
         \/ x = cur /\ x # None /\ orders'[x] = orders[x] /\ ~IsFilled(orders[x])
         \/ /\ phase = "settle" /\ x = Resting /\ x \in active
            /\ IsIceberg(orders[x]) /\ ~IsFilled(orders[x]) /\ Visible(orders[x]) = 0
            /\ orders'[x] = Replenish(orders[x])
         \/ \E a \in Amendments : x \in Ids /\ ModifyOrder(x, a)
<1> DEFINE Stays == /\ x \in active /\ orders'[x] = orders[x]
                    /\ BeingSettled(x) => ~IsFilled(orders[x]) /\ Visible(orders[x]) # 0
<1>0. active \subseteq Ids
  BY StructureFacts
<1>1. ASSUME NEW id \in Ids, NEW r \in Requests, HoldStop(id, r) \/ BeginMatch(id, r)
      PROVE  Stays
  BY <1>1, ArrivalBook DEF SameBook, BeingSettled, HoldStop, BeginMatch
<1>2. ASSUME NEW id \in Ids, CancelOrder(id) PROVE Stays
  BY <1>0, <1>2, CancelFacts DEF CancelOrder, BeingSettled
<1>3. ASSUME NEW id \in Ids, NEW a \in Amendments, ModifyOrder(id, a), x # id PROVE Stays
  BY <1>0, <1>3, ModifyFacts DEF ModifyOrder, BeingSettled
<1>4. ASSUME NEW p \in Prices, NEW r \in Ids, Trade(p, r) PROVE Stays \/ BeingSettled(x)'
  <2>1. active' = active /\ phase = "match" /\ phase' = "triggers" /\ x # cur /\ Resting' = r
    BY <1>4, TradeResting DEF Trade, Facing, Structure, OnePlaceEach
  <2>2. x # r => orders'[x] = orders[x]
    BY <1>0, <1>4, <2>1, TradeFacts
  <2> QED BY <2>1, <2>2 DEF BeingSettled
<1>5. ASSUME FireStop \/ TriggersDone PROVE Stays \/ BeingSettled(x)'
  <2>1. /\ active' = active /\ phase = "triggers" /\ phase' \in {"triggers", "settle"}
        /\ cur' = cur /\ level' = level /\ trades' = trades
    BY <1>5 DEF FireStop, TriggersDone, bookVars
  <2>2. \A y \in active \cup {cur} : orders'[y] = orders[y]
    <3>1. CASE TriggersDone
      BY <3>1 DEF TriggersDone, bookVars
    <3>2. CASE FireStop
      <4>1. PICK id \in ToSet(pending) : \A y \in Ids : y # id => orders'[y] = orders[y]
        BY <3>2, FireStopFacts
      <4>2. id \in Held /\ cur \in Ids /\ cur \notin Held /\ Held \cap active = {}
        BY <2>1, StructureFacts DEF Held, InLoop, Submitted, Structure, OnePlaceEach
      <4> QED BY <1>0, <4>1, <4>2
    <3> QED BY <1>5, <3>1, <3>2
  <2>3. Resting' = Resting
    BY <2>1, <2>2 DEF Resting, RestingSide, LastTrade
  <2> QED BY <2>1, <2>2, <2>3 DEF BeingSettled
<1>6. ASSUME SettleFilled \/ SettlePartial PROVE Stays
  BY <1>6 DEF SettleFilled, SettlePartial, BeingSettled, bookVars, Visible, IsFilled
<1>7. ASSUME SettleIceberg, x # Resting PROVE Stays
  BY <1>0, <1>7, SettleIcebergFacts DEF SettleIceberg, BeingSettled
<1>8. ASSUME SettleIceberg, x = Resting
      PROVE  /\ phase = "settle" /\ x = Resting /\ x \in active
             /\ IsIceberg(orders[x]) /\ ~IsFilled(orders[x]) /\ Visible(orders[x]) = 0
             /\ orders'[x] = Replenish(orders[x])
  BY <1>8, SettleIcebergFacts DEF SettleIceberg
<1>9. ASSUME FinishMatch
      PROVE  \/ Stays
             \/ x = cur /\ x # None /\ orders'[x] = orders[x] /\ ~IsFilled(orders[x])
  <2>1. orders' = orders /\ phase = "match"
    BY <1>9 DEF FinishMatch
  <2>2. CASE x \in active
    BY <2>1, <2>2 DEF BeingSettled
  <2>3. CASE x \notin active
    <3>1. ~IsFilled(orders[cur]) /\ ~IsMarket(orders[cur])
      BY <1>9, <2>3 DEF FinishMatch
    <3>2. x = cur /\ x # None
      BY <1>9, <2>3, <3>1, BookingFacts, NoneAssumption
    <3> QED BY <2>1, <3>1, <3>2
  <2> QED BY <2>2, <2>3
<1>10. ASSUME \/ TakeBatch \/ MatchStop \/ EndMatch
              \/ \E p \in Prices, r \in Ids : SkipEmpty(p, r)
       PROVE  Stays
  BY <1>10 DEF TakeBatch, MatchStop, EndMatch, SkipEmpty, Facing, BeingSettled, bookVars
<1>11. ASSUME UNCHANGED vars PROVE Stays \/ BeingSettled(x)'
  BY <1>11 DEF vars, bookVars, BeingSettled, Resting, RestingSide, LastTrade
<1> QED BY <1>1, <1>2, <1>3, <1>4, <1>5, <1>6, <1>7, <1>8, <1>9, <1>10, <1>11, StepCases DEF Quiet

LEMMA NextKeepsNothingEmpty ==
  ASSUME AmendmentsLeave, Structure, NothingEmpty, [Next]_vars
  PROVE  NothingEmpty'
<1> SUFFICES ASSUME NEW x \in active', ~BeingSettled(x)' PROVE orders'[x].leaves > 0
  BY DEF NothingEmpty, BeingSettled, Resting, RestingSide, LastTrade
<1>1. \A id \in active : orders[id] \in Order
  BY StructureFacts
<1>2. CASE /\ x \in active /\ orders'[x] = orders[x]
           /\ BeingSettled(x) => ~IsFilled(orders[x]) /\ Visible(orders[x]) # 0
  BY <1>1, <1>2, OrderNumbers DEF NothingEmpty, IsFilled
<1>3. CASE x = cur /\ x # None /\ orders'[x] = orders[x] /\ ~IsFilled(orders[x])
  <2>1. orders[x] \in Order
    BY <1>3, StructureFacts DEF Structure, Placed
  <2> QED BY <1>3, <2>1, OrderNumbers DEF IsFilled
<1>4. CASE /\ x \in active /\ ~IsFilled(orders[x]) /\ orders'[x] = Replenish(orders[x])
  BY <1>1, <1>4, ReplenishTyped, OrderNumbers DEF IsFilled
<1>5. CASE \E a \in Amendments : x \in Ids /\ ModifyOrder(x, a)
  <2>1. PICK a \in Amendments : x \in Ids /\ ModifyOrder(x, a)
    BY <1>5
  <2>2. orders'[x] = PlainOrder(orders[x].side, orders[x].kind, a.price, a.quantity)
    BY <2>1, ModifyFacts
  <2> QED BY <2>2 DEF AmendmentsLeave, PlainOrder
<1> QED BY <1>2, <1>3, <1>4, <1>5, ActiveStep

(* The size of an iceberg's lot is what the request said, until it is amended. *)
LEMMA LotSizeStep ==
  ASSUME Structure, [Next]_vars, NEW x \in Submitted'
  PROVE  \/ x \in Submitted /\ orders'[x].orig = orders[x].orig /\ orders'[x].kind = orders[x].kind
         \/ \E r \in Requests : orders'[x] = NewOrder(r)
         \/ \E a \in Amendments : x \in Ids /\ ModifyOrder(x, a)
<1> DEFINE Stays == /\ x \in Submitted /\ orders'[x].orig = orders[x].orig
                    /\ orders'[x].kind = orders[x].kind
<1>0. \A id \in Submitted : id \in Ids /\ orders[id] \in Order
  BY StructureFacts
<1>1. ASSUME NEW id \in Ids, NEW r \in Requests, HoldStop(id, r) \/ BeginMatch(id, r)
      PROVE  Stays \/ orders'[x] = NewOrder(r)
  BY <1>0, <1>1, ArrivalFacts
<1>2. ASSUME NEW id \in Ids, CancelOrder(id) PROVE Stays
  <2>1. ASSUME NEW o \in Order PROVE CancelOf(o).orig = o.orig /\ CancelOf(o).kind = o.kind
    BY DEF CancelOf, Order
  <2> QED BY <1>0, <1>2, <2>1, CancelFacts
<1>3. ASSUME NEW id \in Ids, NEW a \in Amendments, ModifyOrder(id, a), x # id PROVE Stays
  BY <1>0, <1>3, ModifyFacts
<1>4. ASSUME NEW p \in Prices, NEW r \in Ids, Trade(p, r) PROVE Stays
  <2> DEFINE qty == TradeQty(orders[cur], orders[r])
  <2>1. /\ qty \in Quantity /\ Submitted' = Submitted
        /\ orders'[cur] = Fill(orders[cur], qty) /\ orders'[r] = Fill(orders[r], qty)
        /\ \A y \in Ids : y # cur /\ y # r => orders'[y] = orders[y]
    BY <1>4, TradeFacts
  <2> HIDE DEF qty
  <2>2. orders'[x] = orders[x] \/ orders'[x] = Fill(orders[x], qty)
    BY <1>0, <2>1
  <2>3. ASSUME NEW o \in Order PROVE Fill(o, qty).orig = o.orig /\ Fill(o, qty).kind = o.kind
    BY DEF Fill, Order
  <2> QED BY <1>0, <2>1, <2>2, <2>3
<1>5. ASSUME FireStop PROVE Stays
  <2>1. PICK id \in ToSet(pending) :
          /\ orders[id] \in Order /\ Submitted' = Submitted
          /\ orders'[id] = [orders[id] EXCEPT !.triggered = TRUE]
          /\ \A y \in Ids : y # id => orders'[y] = orders[y]
    BY <1>0, <1>5, FireStopFacts
  <2>2. orders'[id].orig = orders[id].orig /\ orders'[id].kind = orders[id].kind
    BY <2>1 DEF Order
  <2> QED BY <1>0, <2>1, <2>2
<1>6. ASSUME SettleIceberg PROVE Stays
  <2>1. ASSUME NEW o \in Order PROVE Replenish(o).orig = o.orig /\ Replenish(o).kind = o.kind
    BY DEF Replenish, Order
  <2>2. PICK id \in Ids :
          /\ orders[id] \in Order /\ orders'[id] = Replenish(orders[id])
          /\ \A y \in Ids : y # id => orders'[y] = orders[y]
          /\ Submitted' = Submitted
    BY <1>6, SettleIcebergFacts
  <2> QED BY <1>0, <2>1, <2>2
<1>7. ASSUME SettleFilled \/ FinishMatch \/ TakeBatch \/ MatchStop \/ Quiet PROVE Stays
  <2>1. orders' = orders
    BY <1>7, QuietFacts DEF SettleFilled, FinishMatch, TakeBatch, MatchStop, bookVars
  <2> QED BY <2>1 DEF Submitted
<1> QED BY <1>1, <1>2, <1>3, <1>4, <1>5, <1>6, <1>7, StepCases

(* What waits or is being matched shows what it showed, unless it trades. *)
LEMMA UnbookedStep ==
  ASSUME Structure, [Next]_vars, NEW x \in Held' \cup {cur'}, x # None
  PROVE  \/ /\ x \in Held \cup {cur}
            /\ orders'[x].display = orders[x].display /\ orders'[x].kind = orders[x].kind
         \/ \E r \in Requests : orders'[x] = NewOrder(r)
         \/ x = cur' /\ phase' = "triggers"
<1> DEFINE Stays == /\ x \in Held \cup {cur}
                    /\ orders'[x].display = orders[x].display
                    /\ orders'[x].kind = orders[x].kind
<1>0. /\ Held \subseteq Ids /\ (cur # None => cur \in Ids) /\ Held \cap active = {}
      /\ cur \notin active /\ cur \notin Held
      /\ \A id \in Held \cup {cur} : id # None => orders[id] \in Order
  BY StructureFacts DEF Structure, Placed, OnePlaceEach
<1>1. ASSUME NEW id \in Ids, NEW r \in Requests, HoldStop(id, r) \/ BeginMatch(id, r)
      PROVE  Stays \/ orders'[x] = NewOrder(r)
  <2>1. x \in Held \cup {cur} \cup {id}
    BY <1>1, HoldStopFacts DEF HoldStop, BeginMatch, stopVars, Held
  <2> QED BY <1>0, <1>1, <2>1, ArrivalFacts
<1>2. ASSUME NEW id \in Ids, CancelOrder(id) PROVE Stays
  <2>1. x \in Held \cup {cur}
    BY <1>2 DEF CancelOrder, stopVars, Held
  <2> QED BY <1>0, <1>2, <2>1, CancelFacts
<1>3. ASSUME NEW id \in Ids, NEW a \in Amendments, ModifyOrder(id, a) PROVE Stays
  <2>1. x \in Held \cup {cur}
    BY <1>3 DEF ModifyOrder, stopVars, Held
  <2> QED BY <1>0, <1>3, <2>1, ModifyFacts
<1>4. ASSUME NEW p \in Prices, NEW r \in Ids, Trade(p, r)
      PROVE  \/ Stays
             \/ x = cur' /\ phase' = "triggers"
  <2>1. x \in Held \cup {cur} /\ cur' = cur /\ phase' = "triggers"
    BY <1>4 DEF Trade, stopVars, Held
  <2>2. r \in active
    BY <1>4, FacingFacts DEF Trade
  <2> QED BY <1>0, <1>4, <2>1, <2>2, TradeFacts
<1>5. ASSUME FireStop PROVE Stays
  <2>1. PICK id \in ToSet(pending) :
          /\ id \in Ids /\ Held' = Held /\ orders[id] \in Order
          /\ orders'[id] = [orders[id] EXCEPT !.triggered = TRUE]
          /\ \A y \in Ids : y # id => orders'[y] = orders[y]
    BY <1>5, FireStopFacts, StructureFacts
  <2>2. x \in Held \cup {cur}
    BY <1>5, <2>1 DEF FireStop
  <2> QED BY <1>0, <2>1, <2>2 DEF Order
<1>6. ASSUME SettleIceberg PROVE Stays
  <2>1. x \in Held \cup {cur}
    BY <1>6 DEF SettleIceberg, stopVars, Held
  <2> QED BY <1>0, <1>6, <2>1, SettleIcebergFacts
<1>7. ASSUME SettleFilled \/ FinishMatch \/ TakeBatch \/ MatchStop \/ Quiet PROVE Stays
  <2>1. orders' = orders
    BY <1>7, QuietFacts DEF SettleFilled, FinishMatch, TakeBatch, MatchStop, bookVars
  <2>2. x \in Held \cup {cur}
    BY <1>7, QuietFacts, TakeBatchFacts, MatchStopFacts
    DEF SettleFilled, FinishMatch, TakeBatch, stopVars, Held
  <2> QED BY <2>1, <2>2
<1> QED BY <1>1, <1>2, <1>3, <1>4, <1>5, <1>6, <1>7, StepCases

(* A new iceberg shows a lot, of the size in which it is to be replenished. *)
LEMMA NewOrderShows ==
  ASSUME LotsShow, NEW r \in Requests, IsIceberg(NewOrder(r))
  PROVE  NewOrder(r).orig > 0 /\ NewOrder(r).display > 0
<1>1. r.kind = "ICEBERG"
  BY NewOrderTyped DEF IsIceberg
<1> DEFINE plain == PlainOrder(r.side, "ICEBERG", r.price, r.quantity)
           h == (r.quantity - r.display) % Word
<1>2. NewOrder(r) = [plain EXCEPT !.display = r.display, !.hidden = h, !.orig = r.display]
  BY <1>1 DEF NewOrder, IcebergOrder
<1> HIDE DEF h
<1>3. NewOrder(r).orig = r.display /\ NewOrder(r).display = r.display
  BY <1>2 DEF PlainOrder
<1> QED BY <1>1, <1>3 DEF LotsShow

(* An iceberg with quantity left and its lots in order has a lot to show. *)
LEMMA ReplenishShows ==
  ASSUME NEW o \in Order, IsIceberg(o), LotsInOrder(o), o.display = 0, o.leaves > 0, o.orig > 0
  PROVE  Replenish(o).display > 0
<1>1. o.hidden # 0
  BY OrderNumbers DEF LotsInOrder
<1> DEFINE lot == Min({o.hidden, o.orig})
<1>2. lot \in {o.hidden, o.orig}
  BY OrderNumbers, MinOfTwo
<1>3. Replenish(o) = [o EXCEPT !.display = (0 + lot) % Word, !.hidden = o.hidden - lot]
  BY <1>1 DEF Replenish
<1> HIDE DEF lot
<1>4. lot \in Int /\ 0 < lot /\ lot < Word
  BY <1>1, <1>2, OrderNumbers
<1>5. (0 + lot) % Word = lot
  BY <1>4, NoWrap
<1>6. Replenish(o).display = (0 + lot) % Word
  BY <1>3 DEF Order
<1> QED BY <1>4, <1>5, <1>6

LEMMA NextKeepsIcebergsOffer ==
  ASSUME LotsShow, Structure, CancelledNowhere, Lots, IcebergsOffer, [Next]_vars,
         IcebergsOnlyRest'
  PROVE  IcebergsOffer'
<1>0. ASSUME NEW id \in Ids, NEW a \in Amendments, ModifyOrder(id, a)
      PROVE  ~IsIceberg(orders'[id])
  BY <1>0 DEF ModifyOrder, IcebergsOnlyRest, IsIceberg
<1>1. ASSUME NEW x \in Submitted', IsIceberg(orders'[x])
      PROVE  orders'[x].orig > 0
  <2>1. CASE /\ x \in Submitted /\ orders'[x].orig = orders[x].orig
             /\ orders'[x].kind = orders[x].kind
    BY <1>1, <2>1 DEF IcebergsOffer, IsIceberg
  <2>2. CASE \E r \in Requests : orders'[x] = NewOrder(r)
    BY <1>1, <2>2, NewOrderShows
  <2>3. CASE \E a \in Amendments : x \in Ids /\ ModifyOrder(x, a)
    BY <1>0, <1>1, <2>3
  <2> QED BY <2>1, <2>2, <2>3, LotSizeStep
<1>2. ASSUME NEW x \in Held' \cup {cur'}, x # None, IsIceberg(orders'[x])
      PROVE  orders'[x].display > 0
  <2>1. CASE /\ x \in Held \cup {cur}
             /\ orders'[x].display = orders[x].display /\ orders'[x].kind = orders[x].kind
    BY <1>2, <2>1 DEF IcebergsOffer, IsIceberg
  <2>2. CASE \E r \in Requests : orders'[x] = NewOrder(r)
    BY <1>2, <2>2, NewOrderShows
  <2>3. CASE x = cur' /\ phase' = "triggers"
    BY <1>2, <2>3 DEF IcebergsOnlyRest, IsIceberg
  <2> QED BY <1>2, <2>1, <2>2, <2>3, UnbookedStep
<1>3. ASSUME NEW x \in active', IsIceberg(orders'[x]), orders'[x].leaves > 0, ~BeingSettled(x)'
      PROVE  orders'[x].display > 0
  <2>1. \A id \in active : id \in Submitted /\ orders[id] \in Order
    BY StructureFacts
  <2>2. CASE /\ x \in active /\ orders'[x] = orders[x]
             /\ BeingSettled(x) => ~IsFilled(orders[x]) /\ Visible(orders[x]) # 0
    BY <1>3, <2>1, <2>2, OrderNumbers DEF IcebergsOffer, IsIceberg, Visible
  <2>3. CASE x = cur /\ x # None /\ orders'[x] = orders[x]
    BY <1>3, <2>3 DEF IcebergsOffer, IsIceberg
  <2>4. CASE /\ phase = "settle" /\ x = Resting /\ x \in active
             /\ IsIceberg(orders[x]) /\ ~IsFilled(orders[x]) /\ Visible(orders[x]) = 0
             /\ orders'[x] = Replenish(orders[x])
    <3>1. LotsInOrder(orders[x]) /\ orders[x].display = 0 /\ orders[x].orig > 0
      BY <2>1, <2>4 DEF Lots, Visible, IcebergsOffer
    <3>2. orders[x] \in Order /\ orders[x].leaves > 0
      BY <2>1, <2>4, OrderNumbers DEF IsFilled
    <3> QED BY <2>4, <3>1, <3>2, ReplenishShows
  <2>5. CASE \E a \in Amendments : x \in Ids /\ ModifyOrder(x, a)
    BY <1>0, <1>3, <2>5
  <2> QED BY <1>3, <2>2, <2>3, <2>4, <2>5, ActiveStep
<1> QED BY <1>1, <1>2, <1>3
        DEF IcebergsOffer, IsIceberg, BeingSettled, Resting, RestingSide, LastTrade

(* The conditions are met by clients that use no icebergs, whatever else    *)
(* they do.                                                                *)
PlainClients == \A r \in Requests : r.kind # "ICEBERG"

LEMMA PlainClientsOnlyRest ==
  ASSUME PlainClients
  PROVE  /\ LotsFit /\ LotsShow
         /\ Spec => []IcebergsOnlyRest
<1> DEFINE Inv == modified \subseteq Submitted /\ \A id \in Submitted : ~IsIceberg(orders[id])
<1>1. Init => Inv
  BY DEF Init, Submitted
<1>2. ASSUME Structure, Inv, [Next]_vars PROVE Inv'
  <2>1. ASSUME NEW x \in Submitted' PROVE ~IsIceberg(orders'[x])
    <3>1. CASE x \in Submitted
      BY <1>2, <3>1, KindsStay DEF IsIceberg
    <3>2. CASE \E r \in Requests : orders'[x] = NewOrder(r)
      BY <3>2, NewOrderTyped DEF IsIceberg, PlainClients
    <3>3. CASE \E a \in Amendments : x \in Ids /\ ModifyOrder(x, a)
      BY <1>2, <3>1, <3>3, ModifyFacts
    <3> QED BY <1>2, <3>1, <3>2, <3>3, LotSizeStep
  <2>2. modified' \subseteq modified \cup Submitted
    <3>1. ASSUME NEW id \in Ids, NEW a \in Amendments, ModifyOrder(id, a)
          PROVE  modified' = modified \cup {id} /\ id \in Submitted
      BY <1>2, <3>1, ModifyFacts DEF ModifyOrder
    <3>2. ASSUME \/ \E id \in Ids, r \in Requests : HoldStop(id, r) \/ BeginMatch(id, r)
                 \/ \E id \in Ids : CancelOrder(id)
                 \/ \E p \in Prices, r \in Ids : Trade(p, r)
                 \/ FireStop \/ SettleFilled \/ SettleIceberg \/ FinishMatch
                 \/ TakeBatch \/ MatchStop \/ Quiet
          PROVE  modified' = modified
      BY <3>2, QuietFacts DEF HoldStop, BeginMatch, CancelOrder, Trade, FireStop, SettleFilled,
         SettleIceberg, FinishMatch, TakeBatch, MatchStop, history
    <3> QED BY <1>2, <3>1, <3>2, StepCases
  <2>3. Submitted \subseteq Submitted'
    BY <1>2, KindsStay
  <2>4. modified' \subseteq Submitted'
    BY <1>2, <2>2, <2>3
  <2> QED BY <2>1, <2>4 DEF IsIceberg, Submitted
<1>3. Structure /\ Inv => IcebergsOnlyRest
  BY StructureFacts DEF IcebergsOnlyRest, InLoop
<1>4. LotsFit /\ LotsShow
  BY DEF LotsFit, LotsShow, PlainClients
<1> HIDE DEF Inv
<1>5. Spec => []IcebergsOnlyRest
  BY <1>1, <1>2, <1>3, StructureInvariant, PTL DEF Spec
<1> QED BY <1>4, <1>5

-----------------------------------------------------------------------------
(* Icebergs that only rest are replenished whenever their lot is used up:  *)
(* between two calls none with quantity left shows nothing.                *)
THEOREM RestingIcebergsShow ==
  ASSUME LotsFit, LotsShow
  PROVE  Spec /\ []IcebergsOnlyRest => []IcebergsShowALot
<1> DEFINE Inv == CancelledNowhere /\ Lots /\ IcebergsOffer
<1>1. Init => Inv
  BY DEF Init, CancelledNowhere, Held, ToSet, Lots, IcebergsOffer, Submitted
<1>2. Structure /\ Inv /\ IcebergsOnlyRest' /\ [Next]_vars => Inv'
  BY NextKeepsCancelledNowhere, NextKeepsLots, NextKeepsIcebergsOffer
<1>3. Structure /\ Inv => IcebergsShowALot
  BY DEF IcebergsShowALot, IcebergsOffer, BeingSettled, Visible
<1> HIDE DEF Inv
<1> QED BY <1>1, <1>2, <1>3, StructureInvariant, PTL DEF Spec

(* What the book holds is to be found in its levels and has something to   *)
(* trade, but for the order being settled.                                 *)
OnOffer ==
  \A id \in active : InLevel(id) /\ (Visible(orders[id]) > 0 \/ BeingSettled(id))

LEMMA EverythingOnOffer ==
  ASSUME LotsFit, LotsShow, AmendmentsLeave
  PROVE  Spec /\ []IcebergsOnlyRest => []OnOffer
<1> DEFINE Inv == CancelledNowhere /\ Lots /\ IcebergsOffer /\ NothingEmpty
<1>1. Init => Inv
  BY DEF Init, CancelledNowhere, Held, ToSet, Lots, IcebergsOffer, NothingEmpty, Submitted
<1>2. Structure /\ Inv /\ IcebergsOnlyRest' /\ [Next]_vars => Inv'
  BY NextKeepsCancelledNowhere, NextKeepsLots, NextKeepsIcebergsOffer, NextKeepsNothingEmpty
<1>3. Structure /\ Inv /\ GhostsOfferNothing => OnOffer
  <2> SUFFICES ASSUME Structure, Inv, GhostsOfferNothing, NEW id \in active
               PROVE  InLevel(id) /\ (Visible(orders[id]) > 0 \/ BeingSettled(id))
    BY DEF OnOffer
  <2>1. CASE BeingSettled(id)
    BY <2>1, RestingFacts, StructureFacts DEF BeingSettled, InLevel
  <2>2. CASE ~BeingSettled(id)
    <3>1. Visible(orders[id]) > 0
      BY <2>2 DEF IcebergsOffer, NothingEmpty, Visible
    <3> QED BY <3>1 DEF GhostsOfferNothing
  <2> QED BY <2>1, <2>2
<1> HIDE DEF Inv
<1> QED BY <1>1, <1>2, <1>3, StructureInvariant, GhostsAreEmpty, PTL DEF Spec

(* Whatever active_ holds stands in a level, where the loops will find it. *)
THEOREM ActiveOrdersStand ==
  ASSUME LotsFit, LotsShow, AmendmentsLeave
  PROVE  Spec /\ []IcebergsOnlyRest => []ActiveOrdersRest
<1>1. OnOffer => ActiveOrdersRest
  BY DEF OnOffer, ActiveOrdersRest
<1> QED BY <1>1, EverythingOnOffer, PTL

-----------------------------------------------------------------------------
(* The best price of a side exists: no step lists more than one new price. *)

Bounded == \E b \in Nat : \A s \in Sides : \A p \in listed[s] : -b <= p /\ p <= b

LEMMA ListedGrows ==
  ASSUME Structure, [Next]_vars
  PROVE  \E n \in Int : \A s \in Sides : listed'[s] \subseteq listed[s] \cup {n}
<1> DEFINE Grown == \E n \in Int : \A s \in Sides : listed'[s] \subseteq listed[s] \cup {n}
<1>0. listed \in [Sides -> SUBSET Prices] /\ Prices \subseteq Int /\ 0 \in Int
  BY PricesAssumption DEF Structure, TypeOK
<1>1. CASE \A s \in Sides : listed'[s] \subseteq listed[s]
  BY <1>0, <1>1
<1>2. ASSUME NEW p \in Prices, NEW r \in Ids, SkipEmpty(p, r)
      PROVE  \A s \in Sides : listed'[s] \subseteq listed[s]
  BY <1>0, <1>2 DEF SkipEmpty, PopFront, Relist
<1>3. ASSUME SettleFilled PROVE \A s \in Sides : listed'[s] \subseteq listed[s]
  BY <1>0, <1>3 DEF SettleFilled, PopFront, Relist
<1>4. ASSUME FinishMatch PROVE Grown
  <2>1. CASE ~IsFilled(orders[cur]) /\ ~IsMarket(orders[cur])
    <3>1. orders[cur].price \in Int
      BY <1>0, <1>4, <2>1, BookingFacts
    <3>2. listed' = [listed EXCEPT ![orders[cur].side] = @ \cup {orders[cur].price}]
      BY <1>4, <2>1 DEF FinishMatch, AddToBook
    <3> QED BY <1>0, <3>1, <3>2
  <2>2. CASE ~(~IsFilled(orders[cur]) /\ ~IsMarket(orders[cur]))
    BY <1>1, <1>4, <2>2 DEF FinishMatch
  <2> QED BY <2>1, <2>2
<1>5. ASSUME NEW id \in Ids PROVE \A s \in Sides : ListedWithout(id)[s] \subseteq listed[s]
  BY <1>0 DEF ListedWithout, Relist
<1>6. ASSUME NEW id \in Ids, CancelOrder(id) PROVE \A s \in Sides : listed'[s] \subseteq listed[s]
  BY <1>5, <1>6 DEF CancelOrder
<1>7. ASSUME NEW id \in Ids, NEW a \in Amendments, ModifyOrder(id, a) PROVE Grown
  <2> DEFINE k == ListedWithout(id)
  <2>1. listed' = [k EXCEPT ![orders[id].side] = @ \cup {a.price}] /\ a.price \in Int
    BY <1>0, <1>7, AmendmentsAssumption DEF ModifyOrder, PlainOrder
  <2>2. \A s \in Sides : k[s] \subseteq listed[s]
    BY <1>5
  <2>3. DOMAIN k = Sides
    BY <1>0 DEF ListedWithout
  <2> HIDE DEF k
  <2> QED BY <2>1, <2>2, <2>3
<1>8. ASSUME \/ \E id \in Ids, r \in Requests : HoldStop(id, r) \/ BeginMatch(id, r)
             \/ \E p \in Prices, r \in Ids : Trade(p, r)
             \/ FireStop \/ SettleIceberg \/ TakeBatch \/ MatchStop
             \/ TriggersDone \/ SettlePartial \/ EndMatch \/ UNCHANGED vars
      PROVE  listed' = listed
  BY <1>8 DEF HoldStop, BeginMatch, Trade, FireStop, SettleIceberg, TakeBatch, MatchStop,
              TriggersDone, SettlePartial, EndMatch, vars, bookVars
<1> QED BY <1>1, <1>2, <1>3, <1>4, <1>6, <1>7, <1>8, StepCases DEF Quiet

LEMMA NextKeepsBounded ==
  ASSUME Structure, Bounded, [Next]_vars
  PROVE  Bounded'
<1>1. PICK b \in Nat : \A s \in Sides : \A p \in listed[s] : -b <= p /\ p <= b
  BY DEF Bounded
<1>2. PICK n \in Int : \A s \in Sides : listed'[s] \subseteq listed[s] \cup {n}
  BY ListedGrows
<1> DEFINE m == IF n >= 0 THEN b + n ELSE b - n
<1>3. m \in Nat /\ -m <= n /\ n <= m /\ b <= m
  OBVIOUS
<1>4. \A s \in Sides : listed[s] \subseteq Int
  BY PricesAssumption DEF Structure, TypeOK
<1> HIDE DEF m
<1>5. ASSUME NEW s \in Sides, NEW p \in listed'[s] PROVE -m <= p /\ p <= m
  <2>1. p \in listed[s] \/ p = n
    BY <1>2
  <2> QED BY <1>1, <1>3, <1>4, <2>1
<1> QED BY <1>3, <1>5 DEF Bounded

LEMMA BestExists ==
  ASSUME NEW s \in Sides, NEW K, K \subseteq Int, K # {},
         NEW b \in Nat, \A p \in K : -b <= p /\ p <= b
  PROVE  \E p \in K : \A q \in K : q = p \/ Better(s, p, q)
<1> DEFINE far(p) == IF s = "BUY" THEN b - p ELSE p + b
           S == {far(p) : p \in K}
<1>1. S \subseteq Nat /\ S # {}
  <2>1. ASSUME NEW p \in K PROVE far(p) \in Nat
    <3>1. p \in Int /\ -b <= p /\ p <= b
      OBVIOUS
    <3> QED BY <3>1
  <2> QED BY <2>1
<1>2. PICK n \in S : \A m \in S : n <= m
  <2> HIDE DEF S
  <2> QED BY <1>1, LeastNumber
<1>3. PICK p \in K : n = far(p)
  OBVIOUS
<1>4. ASSUME NEW q \in K PROVE q = p \/ Better(s, p, q)
  <2>1. far(p) <= far(q) /\ p \in Int /\ q \in Int
    BY <1>2, <1>3
  <2> QED BY <2>1 DEF Better
<1> QED BY <1>4

LEMMA BestFacts ==
  ASSUME Structure, Bounded, NEW s \in Sides, listed[s] # {}
  PROVE  Best(s) \in listed[s]
<1>1. PICK b \in Nat : \A p \in listed[s] : -b <= p /\ p <= b
  BY DEF Bounded
<1>2. listed[s] \subseteq Int
  BY PricesAssumption DEF Structure, TypeOK
<1>3. \E p \in listed[s] : IsBest(s, p)
  BY <1>1, <1>2, BestExists DEF IsBest
<1> QED BY <1>3 DEF Best

(* The best prices that the queries report are prices at which something   *)
(* can be traded, and the spread is positive unless an amendment crossed   *)
(* the book.                                                               *)
THEOREM QuotesAreTrue ==
  ASSUME LotsFit, LotsShow, AmendmentsLeave
  PROVE  Spec /\ []IcebergsOnlyRest => []QuotesTrue
<1>1. Init => Bounded
  BY DEF Init, Bounded
<1>2. Structure /\ Bounded /\ [Next]_vars => Bounded'
  BY NextKeepsBounded
<1>3. Structure /\ Bounded /\ OnOffer /\ CrossedOnlyByModify => QuotesTrue
  <2> SUFFICES ASSUME Structure, Bounded, OnOffer, CrossedOnlyByModify, phase = "idle"
               PROVE  /\ \A s \in Sides : listed[s] # {} =>
                           \E id \in ToSet(level[s][Best(s)]) : Visible(orders[id]) > 0
                      /\ (\A s \in Sides : listed[s] # {}) /\ modified = {} => Spread > 0
    BY DEF QuotesTrue
  <2>1. ASSUME NEW s \in Sides, listed[s] # {}
        PROVE  /\ Best(s) \in Prices
               /\ \E id \in ToSet(level[s][Best(s)]) : Visible(orders[id]) > 0
    <3>1. PICK p \in Prices : p = Best(s) /\ level[s][p] # <<>> /\ level[s][p] \in Seq(Ids)
      BY <2>1, BestFacts, StructureFacts DEF Deques
    <3>2. PICK id \in ToSet(level[s][p]) : TRUE
      BY <3>1, StructureFacts, PopQueue DEF Deques
    <3>3. id \in active
      BY StructureFacts
    <3>4. Visible(orders[id]) > 0
      BY <3>3 DEF OnOffer, BeingSettled
    <3> QED BY <3>1, <3>2, <3>4
  <2>2. ASSUME \A s \in Sides : listed[s] # {}, modified = {}
        PROVE  Spread > 0
    <3>1. PICK p \in Prices, q \in Prices : p = Best("BUY") /\ q = Best("SELL")
      BY <2>1, <2>2 DEF Sides
    <3>2. \E id \in ToSet(level["BUY"][p]) : TRUE
      BY <2>1, <2>2, <3>1 DEF Sides
    <3>3. \E id \in ToSet(level["SELL"][q]) : TRUE
      BY <2>1, <2>2, <3>1 DEF Sides
    <3>4. ~(p >= q)
      BY <2>2, <3>2, <3>3 DEF CrossedOnlyByModify
    <3>5. Spread = q - p
      BY <2>2, <3>1 DEF Spread, Sides
    <3> QED BY <3>4, <3>5, PricesAssumption
  <2> QED BY <2>1, <2>2
<1> QED BY <1>1, <1>2, <1>3, StructureInvariant, EverythingOnOffer, CrossedByAmendmentsOnly, PTL
        DEF Spec

(* Of clients without icebergs, whose amendments leave something to trade, *)
(* both hold without any condition on what happens.                        *)
THEOREM PlainOrdersStand ==
  ASSUME PlainClients, AmendmentsLeave
  PROVE  Spec => [](ActiveOrdersRest /\ QuotesTrue)
<1>1. LotsFit /\ LotsShow
  BY PlainClientsOnlyRest
<1>2. Spec => []IcebergsOnlyRest
  BY PlainClientsOnlyRest
<1>3. Spec /\ []IcebergsOnlyRest => []ActiveOrdersRest
  BY <1>1, ActiveOrdersStand
<1>4. Spec /\ []IcebergsOnlyRest => []QuotesTrue
  BY <1>1, QuotesAreTrue
<1> QED BY <1>2, <1>3, <1>4, PTL

-----------------------------------------------------------------------------
(* match() comes to an end. *)

LEMMA LessOfFour ==
  ASSUME NEW a1, NEW a2, NEW a3, NEW a4, NEW b1, NEW b2, NEW b3, NEW b4,
         \/ a1 < b1
         \/ a1 = b1 /\ a2 < b2
         \/ a1 = b1 /\ a2 = b2 /\ a3 < b3
         \/ a1 = b1 /\ a2 = b2 /\ a3 = b3 /\ a4 < b4
  PROVE  Less(<<a1, a2, a3, a4>>, <<b1, b2, b3, b4>>)
<1> DEFINE v == <<a1, a2, a3, a4>>
           w == <<b1, b2, b3, b4>>
<1>1. /\ DOMAIN w = 1 .. 4
      /\ v[1] = a1 /\ v[2] = a2 /\ v[3] = a3 /\ v[4] = a4
      /\ w[1] = b1 /\ w[2] = b2 /\ w[3] = b3 /\ w[4] = b4
  OBVIOUS
<1> HIDE DEF v, w
<1>2. CASE a1 < b1
  <2>1. 1 \in DOMAIN w /\ v[1] < w[1] /\ \A j \in 1 .. 1 - 1 : v[j] = w[j]
    BY <1>1, <1>2
  <2> QED BY <2>1 DEF Less, v, w
<1>3. CASE a1 = b1 /\ a2 < b2
  <2>1. 2 \in DOMAIN w /\ v[2] < w[2] /\ \A j \in 1 .. 2 - 1 : v[j] = w[j]
    BY <1>1, <1>3
  <2> QED BY <2>1 DEF Less, v, w
<1>4. CASE a1 = b1 /\ a2 = b2 /\ a3 < b3
  <2>1. 3 \in DOMAIN w /\ v[3] < w[3] /\ \A j \in 1 .. 3 - 1 : v[j] = w[j]
    BY <1>1, <1>4
  <2> QED BY <2>1 DEF Less, v, w
<1>5. CASE a1 = b1 /\ a2 = b2 /\ a3 = b3 /\ a4 < b4
  <2>1. 4 \in DOMAIN w /\ v[4] < w[4] /\ \A j \in 1 .. 4 - 1 : v[j] = w[j]
    BY <1>1, <1>5
  <2> QED BY <2>1 DEF Less, v, w
<1> QED BY <1>2, <1>3, <1>4, <1>5

(* An order that is passed over is one less in the line of its side. *)
LEMMA SkipEmptyShrinks ==
  ASSUME Structure, IsFiniteSet(active), NEW p \in Prices, NEW r \in Ids, SkipEmpty(p, r)
  PROVE  Less(Work', Work)
<1> DEFINE opp == Opposite(orders[cur].side)
           n   == Cardinality(Standing(level[opp]))
<1>1. opp \in Sides /\ level[opp][p] # <<>> /\ PopFront(opp, p) /\ r = Head(level[opp][p])
  BY FacingFacts DEF SkipEmpty
<1>2. /\ phase = "match" /\ phase' = "match" /\ cur' = cur /\ orders' = orders
      /\ pending' = pending /\ staged' = staged /\ batch' = batch
  BY DEF SkipEmpty, Facing, stopVars
<1>3. opp = RestingSide /\ RestingSide' = RestingSide
  BY <1>2 DEF RestingSide
<1> HIDE DEF opp
<1>4. /\ r \in ToSet(level[opp][p])
      /\ \A q \in Prices : ToSet(level'[opp][q]) = IF q = p THEN ToSet(level[opp][q]) \ {r}
                                                   ELSE ToSet(level[opp][q])
  <2>1. Deques(level, listed)
    BY StructureFacts
  <2>2. /\ Head(level[opp][p]) \in ToSet(level[opp][p])
        /\ \A t \in Sides, q \in Prices :
             ToSet(level'[t][q]) = IF t = opp /\ q = p
                                   THEN ToSet(level[t][q]) \ {Head(level[opp][p])}
                                   ELSE ToSet(level[t][q])
    BY ONLY <1>1, <2>1, PopFrontFacts
  <2> QED BY <1>1, <2>2
<1>5. \A q \in Prices : q # p => r \notin ToSet(level[opp][q])
  BY <1>1, <1>4, StructureFacts
<1>6. r \in Standing(level[opp]) /\ Standing(level'[opp]) = Standing(level[opp]) \ {r}
  <2>1. ASSUME NEW x \in Standing(level'[opp]) PROVE x \in Standing(level[opp]) \ {r}
    <3>1. PICK q \in Prices : x \in ToSet(level'[opp][q])
      BY DEF Standing
    <3> QED BY <1>4, <1>5, <3>1 DEF Standing
  <2>2. ASSUME NEW x \in Standing(level[opp]) \ {r} PROVE x \in Standing(level'[opp])
    <3>1. PICK q \in Prices : x \in ToSet(level[opp][q])
      BY DEF Standing
    <3> QED BY <1>4, <3>1 DEF Standing
  <2> QED BY <1>4, <2>1, <2>2 DEF Standing
<1>7. IsFiniteSet(Standing(level[opp]))
  <2>1. Standing(level[opp]) \subseteq active
    BY <1>1, StructureFacts DEF Standing
  <2> QED BY <2>1, FS_Subset
<1>8. /\ n \in Nat /\ Cardinality(Standing(level'[opp])) = n - 1
  BY <1>6, <1>7, FS_RemoveElement, FS_CardinalityType
<1>9. ToPass = n /\ ToPass' = n - 1
  BY <1>2, <1>3, <1>8 DEF ToPass
<1>10. /\ PlaceInMatch' = PlaceInMatch
       /\ ToTrade(orders'[cur']) = ToTrade(orders[cur]) /\ (InLoop <=> InLoop')
  BY <1>2 DEF PlaceInMatch, InLoop
<1> HIDE DEF n
<1>11. ToPass' < ToPass
  BY <1>8, <1>9
<1> QED BY <1>2, <1>10, <1>11, LessOfFour DEF Work

(* A trade leaves less to be traded, or completes an order of quantity 0. *)
LEMMA TradeShrinks ==
  ASSUME Structure, NEW p \in Prices, NEW r \in Ids, Trade(p, r)
  PROVE  Less(Work', Work)
<1> DEFINE qty == TradeQty(orders[cur], orders[r])
<1>1. orders[cur] \in Order /\ orders[r] \in Order
  BY FacingFacts DEF Trade
<1>2. orders'[cur] = Fill(orders[cur], qty)
  BY TradeFacts
<1>3. /\ phase = "match" /\ phase' = "triggers" /\ cur' = cur
      /\ pending' = pending /\ staged' = staged /\ batch' = batch
      /\ IsActive(orders[cur]) /\ Visible(orders[r]) # 0
  <2>1. Facing(p, r) /\ Visible(orders[r]) # 0 /\ phase' = "triggers"
    BY DEF Trade
  <2>2. UNCHANGED <<level, listed, active, stopVars, cur, modified, placedAt>>
    BY DEF Trade
  <2>3. phase = "match" /\ IsActive(orders[cur])
    BY <2>1 DEF Facing
  <2> QED BY <2>1, <2>2, <2>3 DEF stopVars
<1>4. orders[cur].leaves \in Nat /\ Visible(orders[r]) \in Nat
  BY <1>1, OrderNumbers DEF Visible
<1>5. qty \in {orders[cur].leaves, Visible(orders[r])} /\ qty <= orders[cur].leaves
  <2>1. orders[cur].leaves \in Int /\ Visible(orders[r]) \in Int
    BY <1>4
  <2>2. qty = Min({orders[cur].leaves, Visible(orders[r])})
    BY DEF TradeQty
  <2> HIDE DEF qty
  <2> QED BY ONLY <2>1, <2>2, MinOfTwo
<1> HIDE DEF qty
<1>6. ToTrade(orders'[cur]) < ToTrade(orders[cur])
  <2>1. ToTrade(orders[cur]) = orders[cur].leaves + 1
    BY <1>3 DEF ToTrade
  <2>2. CASE qty >= orders[cur].leaves
    <3>1. orders'[cur].leaves = 0 /\ orders'[cur].status = "FILLED"
      BY <1>1, <1>2, <2>2 DEF Fill, Order
    <3>2. ToTrade(orders'[cur]) = 0
      BY <3>1 DEF ToTrade, IsActive
    <3> QED BY <1>4, <2>1, <3>2
  <2>3. CASE ~(qty >= orders[cur].leaves)
    <3>1. orders'[cur].leaves = orders[cur].leaves - qty /\ orders'[cur].status = "PARTIAL"
      BY <1>1, <1>2, <2>3 DEF Fill, Order
    <3>2. ToTrade(orders'[cur]) = orders[cur].leaves - qty + 1
      BY <3>1 DEF ToTrade, IsActive
    <3>3. qty \in Nat /\ qty # 0
      BY <1>3, <1>4, <1>5, <2>3
    <3> QED BY <1>4, <2>1, <3>2, <3>3
  <2> QED BY <2>2, <2>3
<1>7. ToTrade(orders[cur]) \in Int /\ ToTrade(orders'[cur]) \in Int
  <2>1. orders'[cur].leaves \in Int
    <3>1. orders'[cur].leaves \in {0, orders[cur].leaves - qty}
      BY <1>1, <1>2 DEF Fill, Order
    <3> QED BY <1>4, <1>5, <3>1
  <2> QED BY <1>4, <2>1 DEF ToTrade
<1>8. InLoop /\ InLoop'
  BY <1>3 DEF InLoop
<1>9. 1 + ToTrade(orders'[cur']) < 1 + ToTrade(orders[cur])
  BY <1>3, <1>6, <1>7
<1> QED BY <1>3, <1>8, <1>9, LessOfFour DEF Work

(* A stop that is fired is no longer to be looked at. *)
LEMMA FireStopShrinks ==
  ASSUME Structure, FireStop
  PROVE  Less(Work', Work)
<1>1. PICK i \in DOMAIN pending :
        /\ staged'  = Append(staged, pending[i])
        /\ pending' = RemoveAt(pending, i)
  BY DEF FireStop
<1>2. /\ phase = "triggers" /\ phase' = "triggers" /\ cur' = cur /\ batch' = batch
  BY DEF FireStop
<1>3. pending \in Seq(Ids) /\ staged \in Seq(Ids) /\ batch \in Seq(Ids)
  BY DEF Structure, TypeOK
<1>4. Len(pending) \in Nat /\ Len(pending') = Len(pending) - 1
  <2>1. /\ Len(pending) \in Nat /\ i \in 1 .. Len(pending) /\ pending' \in Seq(Ids)
        /\ DOMAIN pending' = 1 .. Len(pending) - 1
    BY <1>1, <1>3, ErasedPositions
  <2> QED BY <2>1
<1>5. Len(staged) \in Nat /\ Len(staged') = Len(staged) + 1
  BY <1>1, <1>3
<1>6. Len(batch) \in Nat
  BY <1>3
<1>7. orders'[cur'] = orders[cur]
  <2>1. PICK id \in ToSet(pending) : \A x \in Ids : x # id => orders'[x] = orders[x]
    BY FireStopFacts
  <2>2. id \in Held /\ cur \in Ids /\ cur \notin Held
    BY <1>2, StructureFacts DEF Held, InLoop, Submitted
  <2> QED BY <1>2, <2>1, <2>2
<1>8. PlaceInMatch' = PlaceInMatch /\ (InLoop <=> InLoop')
  BY <1>2 DEF PlaceInMatch, InLoop
<1>9. ToPass = Len(pending) /\ ToPass' = Len(pending')
  BY <1>2 DEF ToPass
<1>10. /\ Len(pending') + Len(staged') + Len(batch') = Len(pending) + Len(staged) + Len(batch)
       /\ ToPass' < ToPass
  BY <1>2, <1>4, <1>5, <1>6, <1>9
<1> QED BY <1>7, <1>8, <1>10, LessOfFour DEF Work

(* The other steps go on to the next place, or to the next order. *)
LEMMA PlacesShrink ==
  ASSUME Structure, \/ TriggersDone \/ SettleFilled \/ SettleIceberg \/ SettlePartial
                    \/ TakeBatch \/ EndMatch
  PROVE  Less(Work', Work)
<1>1. Len(pending) \in Nat /\ Len(staged) \in Nat /\ Len(batch) \in Nat /\ Len(<<>>) = 0
  BY DEF Structure, TypeOK
<1>2. CASE TriggersDone \/ SettleFilled \/ SettleIceberg \/ SettlePartial
  <2>1. /\ phase \in {"triggers", "settle"}
        /\ phase' = IF phase = "triggers" THEN "settle" ELSE "match"
        /\ cur' = cur /\ pending' = pending /\ staged' = staged /\ batch' = batch
    BY <1>2 DEF TriggersDone, SettleFilled, SettleIceberg, SettlePartial, stopVars
  <2>2. orders'[cur'] = orders[cur]
    <3>1. CASE TriggersDone \/ SettleFilled \/ SettlePartial
      BY <3>1 DEF TriggersDone, SettleFilled, SettlePartial, bookVars
    <3>2. CASE SettleIceberg
      <4>1. cur \in Ids /\ cur # Resting /\ cur' = cur
        BY <3>2, RestingFacts DEF SettleIceberg, Submitted
      <4> QED BY <3>2, <4>1, SettleIcebergFacts
    <3> QED BY <1>2, <3>1, <3>2
  <2>3. InLoop /\ InLoop' /\ PlaceInMatch' < PlaceInMatch
    BY <2>1 DEF InLoop, PlaceInMatch
  <2> QED BY <2>1, <2>2, <2>3, LessOfFour DEF Work
<1>3. CASE TakeBatch
  <2>1. /\ phase = "drain" /\ phase' = "drain" /\ cur' = cur /\ pending' = pending
        /\ batch = <<>> /\ staged # <<>> /\ batch' = staged /\ staged' = <<>>
    BY <1>3 DEF TakeBatch
  <2>2. ~InLoop /\ ~InLoop' /\ PlaceInMatch' < PlaceInMatch
    BY <2>1 DEF InLoop, PlaceInMatch
  <2>3. Len(pending') + Len(staged') + Len(batch') = Len(pending) + Len(staged) + Len(batch)
    BY <1>1, <2>1
  <2> QED BY <2>2, <2>3, LessOfFour DEF Work
<1>4. CASE EndMatch
  <2>1. /\ phase = "drain" /\ phase' = "idle" /\ cur' = cur
        /\ pending' = pending /\ staged' = staged /\ batch' = batch
        /\ batch = <<>> /\ staged = <<>>
    BY <1>4 DEF EndMatch, stopVars
  <2>2. ~InLoop /\ ~InLoop' /\ PlaceInMatch' < PlaceInMatch
    BY <2>1 DEF InLoop, PlaceInMatch
  <2> QED BY <2>1, <2>2, LessOfFour DEF Work
<1> QED BY <1>2, <1>3, <1>4

LEMMA OrdersShrink ==
  ASSUME Structure, FinishMatch \/ MatchStop
  PROVE  Less(Work', Work)
<1>1. CASE FinishMatch
  <2>1. /\ phase = "match" /\ phase' = "drain"
        /\ pending' = pending /\ staged' = staged /\ batch' = batch
    BY <1>1 DEF FinishMatch, stopVars
  <2>2. InLoop /\ ~InLoop'
    BY <2>1 DEF InLoop
  <2>3. ToTrade(orders[cur]) \in Nat
    <3>1. orders[cur] \in Order
      BY <2>2, StructureFacts
    <3> QED BY <3>1, OrderNumbers DEF ToTrade
  <2>4. 0 < 1 + ToTrade(orders[cur])
    BY <2>3
  <2> QED BY <2>1, <2>2, <2>4, LessOfFour DEF Work
<1>2. CASE MatchStop
  <2>1. /\ batch \in Seq(Ids) /\ batch # <<>> /\ batch' = Tail(batch)
        /\ pending' = pending /\ staged' = staged
        /\ Len(pending) \in Nat /\ Len(staged) \in Nat
    BY <1>2 DEF MatchStop, Structure, TypeOK
  <2>2. Len(batch) \in Nat /\ Len(batch') = Len(batch) - 1
    BY <2>1
  <2>3. Len(pending') + Len(staged') + Len(batch') < Len(pending) + Len(staged) + Len(batch)
    BY <2>1, <2>2
  <2> QED BY <2>3, LessOfFour DEF Work
<1> QED BY <1>1, <1>2

LEMMA AmendingRuns ==
  ASSUME NEW id \in Ids, NEW a \in Amendments, ModifyOrder(id, a)
  PROVE  phase = "idle" /\ active' = active
BY DEF ModifyOrder, PlainOrder, stopVars

(* Only as many orders are active as were submitted. *)
LEMMA NextKeepsFinite ==
  ASSUME Structure, IsFiniteSet(active), [Next]_vars
  PROVE  IsFiniteSet(active')
<1>1. active' \subseteq active \cup {cur}
  <2>1. CASE FinishMatch
    BY <2>1 DEF FinishMatch, AddToBook
  <2>2. CASE Quiet
    BY <2>2, QuietFacts
  <2>3. ASSUME NEW id \in Ids, NEW r \in Requests, HoldStop(id, r) \/ BeginMatch(id, r)
        PROVE  active' = active
    BY <2>3 DEF HoldStop, BeginMatch
  <2>4. ASSUME NEW id \in Ids, CancelOrder(id)
        PROVE  active' \subseteq active
    BY <2>4 DEF CancelOrder
  <2>5. ASSUME NEW id \in Ids, NEW a \in Amendments, ModifyOrder(id, a)
        PROVE  active' = active
    BY <2>5, AmendingRuns
  <2>6. ASSUME NEW p \in Prices, NEW r \in Ids, Trade(p, r)
        PROVE  active' = active
    BY <2>6 DEF Trade
  <2>7. CASE FireStop \/ SettleIceberg \/ TakeBatch \/ MatchStop
    BY <2>7 DEF FireStop, SettleIceberg, TakeBatch, MatchStop, bookVars
  <2>8. CASE SettleFilled
    BY <2>8 DEF SettleFilled
  <2> QED BY <2>1, <2>2, <2>3, <2>4, <2>5, <2>6, <2>7, <2>8, StepCases
<1>2. IsFiniteSet(active \cup {cur})
  BY FS_AddElement
<1> QED BY <1>1, <1>2, FS_Subset

(* Each step of the thread inside match() brings it nearer to the end, in  *)
(* an order in which nothing can get smaller for ever.                     *)
THEOREM MatchDescends == Spec => WorkShrinks
<1>1. Init => IsFiniteSet(active)
  BY FS_EmptySet DEF Init
<1>2. Structure /\ IsFiniteSet(active) /\ [Next]_vars => IsFiniteSet(active)'
  BY NextKeepsFinite
<1>3. Structure /\ IsFiniteSet(active) /\ [Next]_vars
        => [phase # "idle" => Less(Work', Work)]_vars
  <2> SUFFICES ASSUME Structure, IsFiniteSet(active), Next, phase # "idle"
               PROVE  Less(Work', Work)
    OBVIOUS
  <2>1. MatchStep
    <3>1. \A id \in Ids, r \in Requests : ~HoldStop(id, r) /\ ~BeginMatch(id, r)
      BY DEF HoldStop, BeginMatch
    <3>2. \A id \in Ids : ~CancelOrder(id)
      BY DEF CancelOrder
    <3>3. ASSUME NEW id \in Ids, NEW a \in Amendments, ModifyOrder(id, a)
          PROVE  phase = "idle"
      BY <3>3, AmendingRuns
    <3> QED BY <3>1, <3>2, <3>3 DEF Next
  <2> QED BY <2>1, SkipEmptyShrinks, TradeShrinks, FireStopShrinks, PlacesShrink, OrdersShrink
          DEF MatchStep
<1> QED BY <1>1, <1>2, <1>3, StructureInvariant, PTL DEF Spec, WorkShrinks

(* The guards of the steps of the thread inside match(). *)
CanGoOn ==
  LET o   == orders[cur]
      opp == Opposite(o.side)
  IN
  \/ \E p \in Prices, r \in Ids : Facing(p, r)
  \/ /\ phase = "match"
     /\ \/ ~IsActive(o)
        \/ listed[opp] = {}
        \/ \E p \in listed[opp] : IsBest(opp, p) /\ ~Crosses(o, p)
  \/ /\ phase = "triggers"
     /\ \/ \A i \in DOMAIN pending : ~Fires(orders[pending[i]], LastTrade.price)
        \/ \E i \in DOMAIN pending :
             /\ Fires(orders[pending[i]], LastTrade.price)
             /\ \A j \in 1 .. i - 1 : ~Fires(orders[pending[j]], LastTrade.price)
  \/ phase = "settle" /\ level[RestingSide][LastTrade.price] # <<>> /\ Resting \in active
  \/ phase = "drain"

LEMMA MatchCanGoOn ==
  ASSUME Structure, Bounded, phase = "match"
  PROVE  CanGoOn
<1> DEFINE opp == Opposite(orders[cur].side)
<1>1. orders[cur].side \in Sides /\ opp \in Sides
  BY StructureFacts, OppositeFacts DEF InLoop, Order
<1> SUFFICES ASSUME IsActive(orders[cur]), listed[opp] # {},
                    \A p \in listed[opp] : IsBest(opp, p) => Crosses(orders[cur], p)
             PROVE  \E p \in Prices, r \in Ids : Facing(p, r)
  BY DEF CanGoOn
<1> HIDE DEF opp
<1>2. Best(opp) \in listed[opp] /\ IsBest(opp, Best(opp))
  <2>1. \E p \in listed[opp] : IsBest(opp, p)
    <3>1. PICK b \in Nat : \A p \in listed[opp] : -b <= p /\ p <= b
      BY <1>1 DEF Bounded
    <3>2. listed[opp] \subseteq Int
      BY <1>1, PricesAssumption DEF Structure, TypeOK
    <3> QED BY <1>1, <3>1, <3>2, BestExists DEF IsBest
  <2> QED BY <2>1 DEF Best
<1> DEFINE p == Best(opp)
           r == Head(level[opp][p])
<1>3. p \in Prices /\ level[opp][p] # <<>>
  BY <1>1, <1>2, StructureFacts DEF Deques
<1>4. r \in ToSet(level[opp][p])
  BY <1>1, <1>3, StructureFacts, PopQueue DEF Deques
<1>5. r \in Ids
  BY <1>1, <1>3, <1>4, StructureFacts
<1>6. Crosses(orders[cur], p)
  BY <1>2
<1>7. Facing(p, r)
  BY <1>2, <1>3, <1>6 DEF Facing, opp
<1> QED BY <1>3, <1>5, <1>7

(* Inside match() there is always a step to take: the loops never wait,    *)
(* a level whose key is in the map has a front, and the order that was     *)
(* traded with is still at the front of its level when it is settled.      *)
THEOREM MatchGoesOn == Spec => [](phase # "idle" => CanGoOn)
<1>1. ASSUME Structure, phase = "triggers" PROVE CanGoOn
  <2> DEFINE F == {i \in DOMAIN pending : Fires(orders[pending[i]], LastTrade.price)}
  <2>1. DOMAIN pending = 1 .. Len(pending) /\ Len(pending) \in Nat
    BY <1>1 DEF Structure, TypeOK
  <2>2. ASSUME F # {}
        PROVE  \E i \in F : \A j \in 1 .. i - 1 : ~Fires(orders[pending[j]], LastTrade.price)
    <3>1. F \subseteq Nat
      BY <2>1
    <3>2. PICK i \in F : \A m \in F : i <= m
      <4> HIDE DEF F
      <4> QED BY <2>2, <3>1, LeastNumber
    <3>3. \A j \in 1 .. i - 1 : j \in DOMAIN pending /\ j \notin F
      BY <2>1, <3>2
    <3> QED BY <3>3
  <2> QED BY <1>1, <2>2 DEF CanGoOn
<1>2. ASSUME Structure, phase = "settle" PROVE CanGoOn
  BY <1>2, RestingFacts DEF CanGoOn
<1>3. ASSUME Structure, Bounded PROVE phase # "idle" => CanGoOn
  <2>1. phase \in {"idle", "match", "triggers", "settle", "drain"}
    BY <1>3 DEF Structure, TypeOK, Phases
  <2> QED BY <1>1, <1>2, <1>3, <2>1, MatchCanGoOn DEF CanGoOn
<1>4. Init => Bounded
  BY DEF Init, Bounded
<1>5. Structure /\ Bounded /\ [Next]_vars => Bounded'
  BY NextKeepsBounded
<1> QED BY <1>3, <1>4, <1>5, StructureInvariant, PTL DEF Spec

-----------------------------------------------------------------------------
(* The tables of printBook() and printDepth(), whose columns are sums in   *)
(* unsigned words.                                                         *)

(* The values that c takes as the numbers of q are added to it in turn. *)
LEMMA AddedInTurn ==
  ASSUME NEW c \in Int, NEW q \in Seq(Int)
  PROVE  \E g : /\ g[0] = c
                /\ \A i \in 1 .. Len(q) : g[i] = (g[i - 1] + q[i]) % Word
                /\ Added(c, q) = g[Len(q)]
<1> DEFINE n    == Len(q)
           At(f, s) == IF s = {} THEN c ELSE (f[s \ {Max(s)}] + q[Max(s)]) % Word
           h    == CHOOSE f : f = [s \in SUBSET DOMAIN q |-> At(f, s)]
           step == [x \in 1 .. n |-> [v \in Int |-> (v + q[x]) % Word]]
           g    == [i \in 0 .. n |-> h[1 .. i]]
<1>1. n \in Nat /\ DOMAIN q = 1 .. n /\ \A x \in 1 .. n : q[x] \in Int
  OBVIOUS
<1>2. Added(c, q) = h[DOMAIN q]
  BY DEF Added, FoldLeft, MapThenFoldSet
<1>3. step \in Steps(1 .. n, Int)
  BY <1>1, WordAssumption DEF Steps
<1>4. \A x \in 1 .. n, v \in Int : step[x][v] = (v + q[x]) % Word
  OBVIOUS
<1> HIDE DEF n, step
<1>5. PICK f : FoldsInTurn(f, n, c, step)
  BY <1>1, <1>3, FoldAlong
<1>6. f \in [SUBSET DOMAIN q -> Int] /\ \A s \in SUBSET DOMAIN q : f[s] = At(f, s)
  BY <1>1, <1>4, <1>5, LastOfFront DEF FoldsInTurn
<1>7. f = [s \in SUBSET DOMAIN q |-> At(f, s)]
  <2> HIDE DEF At
  <2>1. f = [s \in SUBSET DOMAIN q |-> f[s]]
    BY <1>6
  <2> QED BY <1>6, <2>1
<1>8. h = [s \in SUBSET DOMAIN q |-> At(h, s)]
  <2> HIDE DEF At
  <2> QED BY <1>7
<1>9. \A s \in SUBSET (1 .. n) : h[s] = At(h, s)
  <2> HIDE DEF At, h
  <2> QED BY <1>1, <1>8
<1> HIDE DEF h
<1>10. h[1 .. 0] = c
  <2>1. 1 .. 0 = {} /\ {} \in SUBSET (1 .. n)
    OBVIOUS
  <2> QED BY <1>9, <2>1
<1>11. ASSUME NEW i \in 1 .. n PROVE h[1 .. i] = (h[1 .. i - 1] + q[i]) % Word
  <2>1. Max(1 .. i) = i /\ (1 .. i) \ {i} = 1 .. i - 1
    BY <1>1, LastOfFront
  <2>2. i \in 1 .. i /\ \A x \in 1 .. i : x \in 1 .. n
    BY <1>1
  <2>3. 1 .. i \in SUBSET (1 .. n) /\ 1 .. i # {}
    BY <2>2
  <2> QED BY <1>9, <2>1, <2>3
<1>12. g[0] = c /\ \A i \in 1 .. n : g[i] = (g[i - 1] + q[i]) % Word
  BY <1>1, <1>10, <1>11
<1>13. Added(c, q) = g[n]
  BY <1>1, <1>2
<1> HIDE DEF g
<1> QED BY <1>12, <1>13 DEF n

LEMMA WrapMultiple ==
  ASSUME NEW n \in Int, NEW k \in Int
  PROVE  (k * Word + n) % Word = n % Word
<1> DEFINE m == n \div Word
           r == n % Word
           x == k * Word + n
           j == k + m
<1>1. Word \in Nat \ {0}
  BY WordAssumption
<1>2. n = m * Word + r /\ m \in Int /\ r \in 0 .. Word - 1
  BY <1>1, Remainder
<1>3. r \in Int /\ k * Word \in Int
  BY <1>1, <1>2
<1> HIDE DEF m, r
<1>4. x \in Int /\ j \in Int /\ x = j * Word + r
  BY <1>1, <1>2, <1>3
<1>5. \A a \in Int, b \in 0 .. Word - 1 : x = a * Word + b => x % Word = b
  <2> HIDE DEF x
  <2> QED BY ONLY <1>1, <1>4, Remainder, Zenon
<1>6. x % Word = r
  <2> HIDE DEF x, j
  <2> QED BY ONLY <1>2, <1>4, <1>5
<1> QED BY <1>6 DEF r

(* It does not matter when a sum or a difference is wrapped. *)
LEMMA WrapLater ==
  ASSUME NEW a \in Int, NEW b \in Int
  PROVE  /\ ((a % Word) + b) % Word = (a + b) % Word
         /\ (a + (b % Word)) % Word = (a + b) % Word
         /\ (a - (b % Word)) % Word = (a - b) % Word
<1>1. Word \in Nat \ {0}
  BY WordAssumption
<1>2. PICK d \in Int : a % Word \in Int /\ a = d * Word + (a % Word)
  <2>1. a % Word \in Int /\ a \div Word \in Int /\ a = (a \div Word) * Word + (a % Word)
    BY <1>1, Remainder
  <2> QED BY <2>1
<1>3. PICK e \in Int : b % Word \in Int /\ b = e * Word + (b % Word)
  <2>1. b % Word \in Int /\ b \div Word \in Int /\ b = (b \div Word) * Word + (b % Word)
    BY <1>1, Remainder
  <2> QED BY <2>1
<1> DEFINE x == (a % Word) + b
           y == a + (b % Word)
           z == a - b
<1>4. x \in Int /\ y \in Int /\ z \in Int
  BY <1>2, <1>3
<1>5. a + b = d * Word + x
  BY <1>1, <1>2
<1>6. a + b = e * Word + y
  BY <1>1, <1>3
<1>7. a - (b % Word) = e * Word + z
  BY <1>1, <1>3
<1> HIDE DEF x, y, z
<1>8. (a + b) % Word = x % Word /\ (a + b) % Word = y % Word
  BY <1>4, <1>5, <1>6, WrapMultiple
<1>9. (a - (b % Word)) % Word = z % Word
  BY <1>4, <1>7, WrapMultiple
<1> QED BY <1>8, <1>9 DEF x, y, z

(* Added() ends with r[Len(q)] if r grows, up to wrapping, as q says. *)
LEMMA AddedIs ==
  ASSUME NEW q \in Seq(Int), NEW r, \A i \in 0 .. Len(q) : r[i] \in Int,
         \A i \in 1 .. Len(q) : (r[i - 1] + q[i]) % Word = r[i] % Word,
         NEW c \in Int, c = r[0] % Word
  PROVE  Added(c, q) = r[Len(q)] % Word
<1>1. PICK g : /\ g[0] = c
               /\ \A i \in 1 .. Len(q) : g[i] = (g[i - 1] + q[i]) % Word
               /\ Added(c, q) = g[Len(q)]
  BY AddedInTurn
<1> DEFINE Bad == {i \in 0 .. Len(q) : g[i] # r[i] % Word}
<1>2. Len(q) \in Nat /\ Bad \subseteq Nat
  OBVIOUS
<1>3. Bad = {}
  <2> SUFFICES ASSUME Bad # {} PROVE FALSE
    OBVIOUS
  <2>1. PICK i \in Bad : i \in Nat /\ (i # 0 => i - 1 \in Nat /\ i - 1 \notin Bad)
    <3> HIDE DEF Bad
    <3> QED BY <1>2, FirstNumber
  <2>2. i # 0 /\ i \in 1 .. Len(q)
    BY <1>1, <2>1
  <2>3. i - 1 \in 0 .. Len(q) /\ r[i - 1] \in Int /\ q[i] \in Int
    BY <1>2, <2>2
  <2>4. g[i - 1] = r[i - 1] % Word
    BY <2>1, <2>2, <2>3
  <2>5. g[i] = ((r[i - 1] % Word) + q[i]) % Word
    BY <1>1, <2>2, <2>4
  <2>6. g[i] = (r[i - 1] + q[i]) % Word
    BY <2>3, <2>5, WrapLater
  <2>7. g[i] = r[i] % Word
    BY <2>2, <2>6
  <2> QED BY <2>1, <2>7
<1> QED BY <1>1, <1>2, <1>3

(* A sum over a finite set of what w is at its members. *)
Chosen(s) == CHOOSE x \in s : TRUE

SumAt(f, w, s) == IF s = {} THEN 0 ELSE w[Chosen(s)] + f[s \ {Chosen(s)}]

Sums(f, w, S) == f = [s \in SUBSET S |-> SumAt(f, w, s)]

Summable(w, S) == IsFiniteSet(S) /\ \A x \in S : w[x] \in Int

LEMMA SumExists ==
  ASSUME NEW S, NEW w, Summable(w, S)
  PROVE  \E f \in [SUBSET S -> Int] : Sums(f, w, S)
<1> DEFINE pick == [s \in SUBSET S |-> Chosen(s)]
           step == [x \in S |-> [v \in Int |-> w[x] + v]]
<1>1. \A s \in SUBSET S : pick[s] = Chosen(s) /\ (s # {} => Chosen(s) \in s)
  BY DEF Chosen
<1>2. step \in Steps(S, Int)
  BY DEF Steps, Summable
<1>3. \A x \in S, v \in Int : step[x][v] = w[x] + v
  OBVIOUS
<1> HIDE DEF pick, step
<1>4. Picks(pick, S) /\ 0 \in Int /\ IsFiniteSet(S)
  BY <1>1 DEF Picks, Summable
<1>5. PICK f : Folds(f, S, Int, 0, pick, step)
  BY ONLY <1>2, <1>4, FoldExists
<1>6. f \in [SUBSET S -> Int] /\ \A s \in SUBSET S : f[s] = FoldAt(f, s, 0, pick, step)
  BY <1>5 DEF Folds
<1>7. ASSUME NEW s \in SUBSET S PROVE f[s] = SumAt(f, w, s)
  <2>1. CASE s = {}
    BY <1>6, <2>1 DEF FoldAt, SumAt
  <2>2. CASE s # {}
    <3>1. pick[s] = Chosen(s) /\ Chosen(s) \in S /\ s \ {Chosen(s)} \in SUBSET S
      BY <1>1, <2>2
    <3>2. f[s] = step[Chosen(s)][f[s \ {Chosen(s)}]] /\ f[s \ {Chosen(s)}] \in Int
      BY <1>6, <2>2, <3>1 DEF FoldAt
    <3> QED BY <1>3, <2>2, <3>1, <3>2 DEF SumAt
  <2> QED BY <2>1, <2>2
<1>8. f = [s \in SUBSET S |-> f[s]]
  BY <1>6
<1> QED BY <1>6, <1>7, <1>8 DEF Sums

(* Two sums agree where both are defined. *)
LEMMA SumsAgree ==
  ASSUME NEW S, IsFiniteSet(S), NEW T \in SUBSET S, NEW w, NEW f, NEW g,
         Sums(f, w, S), Sums(g, w, T), NEW s \in SUBSET T
  PROVE  f[s] = g[s]
<1> DEFINE Differs(n) == \E r \in SUBSET T : f[r] # g[r] /\ Cardinality(r) = n
           Bad == {n \in Nat : Differs(n)}
<1> SUFFICES ASSUME f[s] # g[s] PROVE FALSE
  OBVIOUS
<1>1. \A r \in SUBSET T : IsFiniteSet(r) /\ Cardinality(r) \in Nat
  BY FS_Subset, FS_CardinalityType
<1>2. Cardinality(s) \in Bad /\ Bad \subseteq Nat
  BY <1>1
<1>3. PICK n \in Bad : n \in Nat /\ (n # 0 => n - 1 \in Nat /\ n - 1 \notin Bad)
  <2> HIDE DEF Bad
  <2> QED BY <1>2, FirstNumber
<1>4. PICK r \in SUBSET T : f[r] # g[r] /\ Cardinality(r) = n
  BY <1>3
<1>5. f[r] = SumAt(f, w, r) /\ g[r] = SumAt(g, w, r)
  BY <1>4 DEF Sums
<1>6. r # {}
  BY <1>4, <1>5 DEF SumAt
<1> DEFINE e == r \ {Chosen(r)}
<1>7. Chosen(r) \in r /\ e \in SUBSET T
  BY <1>6 DEF Chosen
<1>8. Cardinality(e) = n - 1 /\ n # 0 /\ n - 1 \in Nat
  <2>1. IsFiniteSet(r) /\ Cardinality(e) = Cardinality(r) - 1
    BY <1>1, <1>4, <1>7, FS_RemoveElement
  <2>2. Cardinality(e) \in Nat /\ n \in Nat
    BY <1>1, <1>3, <1>7
  <2> QED BY <1>4, <2>1, <2>2
<1>9. n - 1 \notin Bad
  <2> HIDE DEF Bad
  <2> QED BY <1>3, <1>8
<1>10. f[e] = g[e]
  <2> HIDE DEF e
  <2> QED BY <1>7, <1>8, <1>9
<1> QED BY <1>4, <1>5, <1>6, <1>10 DEF SumAt

SumTable(f, w, S) ==
  /\ f \in [SUBSET S -> Int]
  /\ Sums(f, w, S)
  /\ \A T \in SUBSET S : SumOf(w, T) = f[T]

LEMMA SumOfSums ==
  ASSUME NEW S, NEW w, Summable(w, S)
  PROVE  \E f : SumTable(f, w, S)
<1>1. PICK f \in [SUBSET S -> Int] : Sums(f, w, S)
  BY SumExists
<1>2. ASSUME NEW T \in SUBSET S PROVE SumOf(w, T) = f[T]
  <2> DEFINE h == CHOOSE g : g = [s \in SUBSET T |-> SumAt(g, w, s)]
  <2>1. SumOf(w, T) = h[T]
    BY DEF SumOf, MapThenSumSet, MapThenFoldSet, SumAt, Chosen
  <2>2. Summable(w, T) /\ IsFiniteSet(S)
    BY FS_Subset DEF Summable
  <2>3. \E g : g = [s \in SUBSET T |-> SumAt(g, w, s)]
    <3>1. PICK g : Sums(g, w, T)
      BY <2>2, SumExists
    <3> QED BY <3>1 DEF Sums
  <2>4. Sums(h, w, T)
    BY <2>3 DEF Sums
  <2> HIDE DEF h
  <2> QED BY <1>1, <2>1, <2>2, <2>4, SumsAgree
<1> QED BY <1>1, <1>2 DEF SumTable

(* The order in which the members are added does not matter. *)
LEMMA SumWithout ==
  ASSUME NEW S, NEW w, Summable(w, S), NEW x \in S
  PROVE  SumOf(w, S) = SumOf(w, S \ {x}) + w[x]
<1>1. PICK f : SumTable(f, w, S)
  BY SumOfSums
<1> DEFINE Same(r, z) == f[r] = f[r \ {z}] + w[z]
           Fails(n) == \E r \in SUBSET S : \E z \in r : Cardinality(r) = n /\ ~Same(r, z)
           Bad == {n \in Nat : Fails(n)}
<1>2. /\ \A r \in SUBSET S : SumOf(w, r) = f[r] /\ f[r] \in Int /\ f[r] = SumAt(f, w, r)
      /\ \A z \in S : w[z] \in Int
  BY <1>1 DEF SumTable, Sums, Summable
<1>3. Same(S, x)
  <2> SUFFICES ASSUME ~Same(S, x) PROVE FALSE
    OBVIOUS
  <2>1. \A r \in SUBSET S : IsFiniteSet(r) /\ Cardinality(r) \in Nat
    BY FS_Subset, FS_CardinalityType DEF Summable
  <2>2. Cardinality(S) \in Bad /\ Bad \subseteq Nat
    BY <2>1
  <2>3. PICK n \in Bad : n \in Nat /\ (n # 0 => n - 1 \in Nat /\ n - 1 \notin Bad)
    <3> HIDE DEF Bad
    <3> QED BY <2>2, FirstNumber
  <2>4. PICK r \in SUBSET S, z \in S : z \in r /\ Cardinality(r) = n /\ ~Same(r, z)
    BY <2>3
  <2> DEFINE y == Chosen(r)
             u == r \ {y}
             v == r \ {z}
             both == u \ {z}
  <2>5. y \in r /\ f[r] = w[y] + f[u]
    <3>1. y \in r
      BY <2>4 DEF Chosen
    <3> QED BY <1>2, <2>4, <3>1 DEF SumAt
  <2>6. /\ u \in SUBSET S /\ v \in SUBSET S /\ both \in SUBSET S
        /\ both = v \ {y}
    OBVIOUS
  <2>7. /\ Cardinality(u) = n - 1 /\ Cardinality(v) = n - 1
        /\ n - 1 \in Nat /\ n # 0
    BY <2>1, <2>4, <2>5, <2>6, FS_RemoveElement
  <2>8. ~Fails(n - 1)
    BY <2>3, <2>7
  <2> HIDE DEF y
  <2>9. CASE y = z
    BY <1>2, <2>4, <2>5, <2>6, <2>9
  <2>10. CASE y # z
    <3>1. z \in u /\ y \in v
      BY <2>4, <2>5, <2>10
    <3>2. Same(u, z) /\ Same(v, y)
      BY <2>6, <2>7, <2>8, <3>1
    <3>3. f[u] = f[both] + w[z] /\ f[v] = f[both] + w[y]
      BY <2>6, <3>2
    <3> HIDE DEF u, v, both
    <3>4. /\ f[u] \in Int /\ f[v] \in Int /\ f[both] \in Int /\ w[y] \in Int /\ w[z] \in Int
      BY <1>2, <2>4, <2>5, <2>6
    <3>5. f[r] = f[v] + w[z]
      BY <2>5, <3>3, <3>4
    <3> QED BY <2>4, <3>5 DEF v
  <2> QED BY <2>9, <2>10
<1> QED BY <1>2, <1>3

LEMMA SumTyped ==
  ASSUME NEW S, NEW w, Summable(w, S)
  PROVE  /\ SumOf(w, S) \in Int /\ SumOf(w, {}) = 0
         /\ \A T \in SUBSET S : Summable(w, T)
<1>1. PICK f : SumTable(f, w, S)
  BY SumOfSums
<1>2. f[S] \in Int /\ f[{}] = SumAt(f, w, {}) /\ SumOf(w, S) = f[S] /\ SumOf(w, {}) = f[{}]
  BY <1>1 DEF SumTable, Sums
<1>3. \A T \in SUBSET S : Summable(w, T)
  BY FS_Subset DEF Summable
<1> QED BY <1>2, <1>3 DEF SumAt

(* The sum over two disjoint sets. *)
LEMMA SumUnion ==
  ASSUME NEW A, NEW B, A \cap B = {}, NEW w, Summable(w, A \cup B)
  PROVE  SumOf(w, A \cup B) = SumOf(w, A) + SumOf(w, B)
<1> DEFINE Same(b) == SumOf(w, A \cup b) = SumOf(w, A) + SumOf(w, b)
           Fails(n) == \E b \in SUBSET B : Cardinality(b) = n /\ ~Same(b)
           Bad == {n \in Nat : Fails(n)}
<1>1. \A b \in SUBSET B : /\ Summable(w, A \cup b) /\ Summable(w, b)
                          /\ IsFiniteSet(b) /\ Cardinality(b) \in Nat
  <2> SUFFICES ASSUME NEW b \in SUBSET B
               PROVE  /\ Summable(w, A \cup b) /\ Summable(w, b)
                      /\ IsFiniteSet(b) /\ Cardinality(b) \in Nat
    OBVIOUS
  <2>1. A \cup b \in SUBSET (A \cup B) /\ b \in SUBSET (A \cup B)
    OBVIOUS
  <2>2. Summable(w, A \cup b) /\ Summable(w, b)
    BY <2>1, SumTyped
  <2> QED BY <2>2, FS_CardinalityType DEF Summable
<1>2. Summable(w, A) /\ SumOf(w, A) \in Int /\ SumOf(w, {}) = 0
  BY SumTyped
<1> SUFFICES ASSUME ~Same(B) PROVE FALSE
  OBVIOUS
<1>3. Cardinality(B) \in Bad /\ Bad \subseteq Nat
  BY <1>1
<1>4. PICK n \in Bad : n \in Nat /\ (n # 0 => n - 1 \in Nat /\ n - 1 \notin Bad)
  <2> HIDE DEF Bad
  <2> QED BY <1>3, FirstNumber
<1>5. PICK b \in SUBSET B : Cardinality(b) = n /\ ~Same(b)
  BY <1>4
<1>6. b # {}
  <2> SUFFICES ASSUME b = {} PROVE FALSE
    OBVIOUS
  <2>1. A \cup b = A
    OBVIOUS
  <2> QED BY <1>2, <1>5, <2>1
<1>7. PICK x \in b : TRUE
  BY <1>6
<1> DEFINE e == b \ {x}
<1>8. e \in SUBSET B /\ (A \cup b) \ {x} = A \cup e /\ x \in A \cup b
  OBVIOUS
<1>9. Cardinality(e) = n - 1 /\ n - 1 \in Nat /\ n # 0
  <2>1. IsFiniteSet(b) /\ Cardinality(b) = n /\ Cardinality(e) \in Nat
    BY <1>1, <1>5, <1>8
  <2>2. Cardinality(e) = n - 1
    BY <1>7, <2>1, FS_RemoveElement
  <2> QED BY <1>4, <2>1, <2>2
<1>10. Same(e)
  BY <1>4, <1>8, <1>9
<1>11. SumOf(w, A \cup b) = SumOf(w, A \cup e) + w[x]
  <2>1. Summable(w, A \cup b) /\ x \in A \cup b
    BY <1>1, <1>8
  <2>2. SumOf(w, A \cup b) = SumOf(w, (A \cup b) \ {x}) + w[x]
    BY ONLY <2>1, SumWithout
  <2> QED BY <1>8, <2>2
<1>12. SumOf(w, b) = SumOf(w, e) + w[x]
  BY <1>1, SumWithout
<1>13. SumOf(w, e) \in Int /\ w[x] \in Int
  BY <1>1, <1>7, <1>8, SumTyped DEF Summable
<1> HIDE DEF e
<1> QED BY <1>2, <1>5, <1>10, <1>11, <1>12, <1>13

(* The maps iterate over their keys in order. *)
Sorted(s, q) == \A i, j \in DOMAIN q : i < j => Better(s, q[i], q[j])

LEMMA SortedExists ==
  ASSUME NEW s \in Sides, NEW K, K \subseteq Int,
         NEW b \in Nat, \A p \in K : -b <= p /\ p <= b
  PROVE  IsFiniteSet(K) /\ \E q \in [1 .. Cardinality(K) -> K] : Sorted(s, q)
<1> DEFINE Sortable(L) == \E q \in [1 .. Cardinality(L) -> L] : Sorted(s, q)
           Fails(n) == \E L \in SUBSET K : Cardinality(L) = n /\ ~Sortable(L)
           Bad == {n \in Nat : Fails(n)}
<1>1. IsFiniteSet(K)
  <2>1. K \subseteq -b .. b /\ IsFiniteSet(-b .. b)
    BY FS_Interval
  <2> QED BY <2>1, FS_Subset
<1>2. \A L \in SUBSET K : IsFiniteSet(L) /\ Cardinality(L) \in Nat
  BY <1>1, FS_Subset, FS_CardinalityType
<1>3. Sortable(K)
  <2> SUFFICES ASSUME ~Sortable(K) PROVE FALSE
    OBVIOUS
  <2>1. Cardinality(K) \in Bad /\ Bad \subseteq Nat
    BY <1>2
  <2>2. PICK n \in Bad : n \in Nat /\ (n # 0 => n - 1 \in Nat /\ n - 1 \notin Bad)
    <3> HIDE DEF Bad
    <3> QED BY <2>1, FirstNumber
  <2>3. PICK L \in SUBSET K : Cardinality(L) = n /\ ~Sortable(L)
    BY <2>2
  <2>4. L # {}
    <3> SUFFICES ASSUME L = {} PROVE FALSE
      OBVIOUS
    <3>1. Cardinality(L) = 0
      BY FS_EmptySet
    <3> DEFINE q == [i \in 1 .. 0 |-> 0]
    <3>2. q \in [1 .. Cardinality(L) -> L] /\ DOMAIN q = {}
      BY <3>1
    <3> HIDE DEF q
    <3> QED BY <2>3, <3>2 DEF Sorted
  <2>5. PICK m \in L : \A p \in L : p = m \/ Better(Opposite(s), m, p)
    <3>1. L \subseteq Int /\ \A p \in L : -b <= p /\ p <= b
      OBVIOUS
    <3> QED BY <2>4, <3>1, OppositeFacts, BestExists
  <2>6. \A p \in L : p = m \/ Better(s, p, m)
    BY <2>5 DEF Better, Opposite, Sides
  <2> DEFINE e == L \ {m}
  <2>7. Cardinality(e) = n - 1 /\ n - 1 \in Nat /\ n # 0 /\ e \in SUBSET K
    <3>1. IsFiniteSet(L) /\ e \in SUBSET K /\ Cardinality(e) \in Nat
      BY <1>2
    <3>2. Cardinality(e) = n - 1
      BY <2>3, <2>5, <3>1, FS_RemoveElement
    <3> QED BY <2>2, <3>1, <3>2
  <2>8. Sortable(e)
    BY <2>2, <2>7
  <2>9. PICK f \in [1 .. n - 1 -> e] : Sorted(s, f)
    BY <2>7, <2>8
  <2> DEFINE q == [i \in 1 .. n |-> IF i = n THEN m ELSE f[i]]
  <2>10. q \in [1 .. n -> L]
    BY <2>7, <2>9
  <2>11. ASSUME NEW i \in 1 .. n, NEW j \in 1 .. n, i < j PROVE Better(s, q[i], q[j])
    <3>1. i \in 1 .. n - 1 /\ q[i] = f[i] /\ f[i] \in e
      BY <2>7, <2>9, <2>11
    <3>2. CASE j = n
      BY <2>6, <3>1, <3>2
    <3>3. CASE j # n
      <4>1. j \in 1 .. n - 1 /\ q[j] = f[j]
        BY <2>7, <3>3
      <4> QED BY <2>9, <2>11, <3>1, <4>1 DEF Sorted
    <3> QED BY <3>2, <3>3
  <2>12. Sorted(s, q)
    <3> HIDE DEF q
    <3> QED BY <2>10, <2>11 DEF Sorted
  <2> HIDE DEF q
  <2> QED BY <2>3, <2>10, <2>12
<1> QED BY <1>1, <1>3

LEMMA KeysFacts ==
  ASSUME Structure, Bounded, NEW s \in Sides
  PROVE  LET c == Cardinality(listed[s]) IN
         /\ c \in Nat /\ IsFiniteSet(listed[s]) /\ listed[s] \subseteq Prices
         /\ Keys(s) \in [1 .. c -> listed[s]] /\ Sorted(s, Keys(s))
         /\ \A p \in listed[s] : \E i \in 1 .. c : Keys(s)[i] = p
<1> DEFINE c == Cardinality(listed[s])
           k == Keys(s)
<1>1. listed[s] \subseteq Prices /\ listed[s] \subseteq Int
  BY PricesAssumption DEF Structure, TypeOK
<1>2. PICK b \in Nat : \A p \in listed[s] : -b <= p /\ p <= b
  BY DEF Bounded
<1>3. IsFiniteSet(listed[s]) /\ \E q \in [1 .. c -> listed[s]] : Sorted(s, q)
  BY <1>1, <1>2, SortedExists
<1>4. c \in Nat
  BY <1>3, FS_CardinalityType
<1>5. k \in [1 .. c -> listed[s]] /\ Sorted(s, k)
  BY <1>3 DEF Keys, Sorted
<1> HIDE DEF k
<1>6. \A i, j \in 1 .. c : k[i] = k[j] => i = j
  <2> SUFFICES ASSUME NEW i \in 1 .. c, NEW j \in 1 .. c, i < j PROVE k[i] # k[j]
    BY <1>4
  <2> QED BY <1>1, <1>5 DEF Sorted, Better
<1>7. IsFiniteSet(1 .. c) /\ Cardinality(1 .. c) = c
  BY <1>4, FS_Interval
<1>8. k \in Injection(1 .. c, listed[s])
  BY <1>5, <1>6 DEF Injection, IsInjective
<1>9. k \in Surjection(1 .. c, listed[s])
  BY <1>3, <1>7, <1>8, FS_Injection
<1>10. \A p \in listed[s] : \E i \in 1 .. c : k[i] = p
  BY <1>9 DEF Surjection
<1> QED BY <1>1, <1>3, <1>4, <1>5, <1>10 DEF k

(* What an order shows is a number, and only active orders are in levels. *)
LEMMA ShowingFacts ==
  ASSUME Structure, IsFiniteSet(active)
  PROVE  /\ Summable(Showing, active)
         /\ \A s \in Sides, p \in Prices :
              /\ Summable(Showing, ToSet(level[s][p])) /\ ToSet(level[s][p]) \subseteq active
              /\ Summable(Showing, UpTo(s, p))
<1>1. ASSUME NEW id \in active PROVE Showing[id] \in Int
  <2>1. id \in Submitted /\ orders[id] \in Order
    BY StructureFacts
  <2>2. Visible(orders[id]) \in Int
    BY <2>1, OrderNumbers DEF Visible
  <2> QED BY <2>1, <2>2 DEF Showing
<1>2. Summable(Showing, active)
  BY <1>1 DEF Summable
<1>3. \A s \in Sides, p \in Prices : ToSet(level[s][p]) \subseteq active
  BY StructureFacts
<1>4. \A s \in Sides, p \in Prices : UpTo(s, p) \subseteq active
  BY <1>3 DEF UpTo
<1>5. \A T \in SUBSET active : Summable(Showing, T)
  BY <1>2, SumTyped
<1> QED BY <1>2, <1>3, <1>4, <1>5

(* The loop over a level adds up what its orders show. *)
LEMMA ShownIsSum ==
  ASSUME Structure, IsFiniteSet(active), NEW s \in Sides, NEW p \in Prices
  PROVE  Shown(s, p) = SumOf(Showing, ToSet(level[s][p])) % Word
<1> DEFINE d == level[s][p]
           n == Len(d)
           front(i) == {d[j] : j \in 1 .. i}
           r == [i \in 0 .. n |-> SumOf(Showing, front(i))]
           q == [i \in DOMAIN d |-> Showing[d[i]]]
<1>1. /\ d \in Seq(Ids) /\ IsInjective(d) /\ n \in Nat /\ DOMAIN d = 1 .. n
      /\ \A i \in 1 .. n : d[i] \in ToSet(d)
  BY StructureFacts DEF Deques, ToSet
<1>2. Summable(Showing, ToSet(d))
  BY ShowingFacts
<1>3. q \in Seq(Int) /\ Len(q) = n /\ \A i \in 1 .. n : q[i] = Showing[d[i]]
  <2>1. q \in [1 .. n -> Int]
    BY <1>1, <1>2 DEF Summable
  <2> QED BY <1>1, <2>1
<1>4. Shown(s, p) = Added(0, q)
  BY DEF Shown
<1> HIDE DEF d, n, q
<1>5. \A i \in 0 .. n : Summable(Showing, front(i))
  <2> SUFFICES ASSUME NEW i \in 0 .. n PROVE Summable(Showing, front(i))
    OBVIOUS
  <2>1. front(i) \subseteq ToSet(d)
    BY <1>1
  <2> HIDE DEF front
  <2> QED BY <1>2, <2>1, SumTyped
<1>6. ASSUME NEW i \in 1 .. n
      PROVE  /\ i \in 0 .. n /\ i - 1 \in 0 .. n
             /\ SumOf(Showing, front(i)) = SumOf(Showing, front(i - 1)) + q[i]
  <2>1. i \in 0 .. n /\ i - 1 \in 0 .. n
    BY <1>1
  <2>2. d[i] \in front(i) /\ front(i) \ {d[i]} = front(i - 1)
    <3>1. i \in 1 .. i /\ \A j \in 1 .. i : j # i => j \in 1 .. i - 1
      BY <1>1
    <3>2. \A j \in 1 .. i : d[j] = d[i] => j = i
      BY <1>1 DEF IsInjective
    <3>3. \A j \in 1 .. i - 1 : j \in 1 .. i /\ j # i
      BY <1>1
    <3> QED BY <3>1, <3>2, <3>3
  <2>3. Summable(Showing, front(i))
    BY <1>5, <2>1
  <2> HIDE DEF front
  <2>4. SumOf(Showing, front(i)) = SumOf(Showing, front(i) \ {d[i]}) + Showing[d[i]]
    BY <2>2, <2>3, SumWithout
  <2> QED BY <1>3, <2>1, <2>2, <2>4
<1>7. front(0) = {} /\ front(n) = ToSet(d)
  BY <1>1 DEF ToSet
<1> HIDE DEF front
<1>8. \A i \in 0 .. n : r[i] = SumOf(Showing, front(i)) /\ r[i] \in Int
  BY <1>5, SumTyped
<1>9. r[0] = 0 /\ 0 \in 0 .. n /\ n \in 0 .. n
  <2>1. 0 \in 0 .. n /\ n \in 0 .. n
    BY <1>1
  <2>2. SumOf(Showing, {}) = 0
    BY <1>2, SumTyped
  <2>3. r[0] = SumOf(Showing, front(0))
    BY <1>8, <2>1
  <2> QED BY <1>7, <2>1, <2>2, <2>3
<1> HIDE DEF r
<1>10. \A i \in 1 .. n : (r[i - 1] + q[i]) % Word = r[i] % Word
  BY <1>6, <1>8
<1>11. 0 \in Int /\ 0 = r[0] % Word
  BY <1>9, WordAssumption
<1>12. Added(0, q) = r[n] % Word
  BY <1>3, <1>8, <1>10, <1>11, AddedIs
<1> QED BY <1>4, <1>7, <1>8, <1>9, <1>12 DEF d

(* The orders at the first i keys of a side, and what they show. *)
AtFirst(s, i) == IF i = 0 THEN {} ELSE UpTo(s, Keys(s)[i])
Running(s, i) == SumOf(Showing, AtFirst(s, i))

LEMMA NextKey ==
  ASSUME Structure, Bounded, NEW s \in Sides, NEW i \in 1 .. Cardinality(listed[s])
  PROVE  LET d == ToSet(level[s][Keys(s)[i]]) IN
         /\ AtFirst(s, i) = AtFirst(s, i - 1) \cup d
         /\ AtFirst(s, i - 1) \cap d = {}
<1> DEFINE c == Cardinality(listed[s])
           k == Keys(s)
<1>1. /\ c \in Nat /\ listed[s] \subseteq Prices /\ listed[s] \subseteq Int
      /\ k \in [1 .. c -> listed[s]] /\ Sorted(s, k)
      /\ \A p \in listed[s] : \E j \in 1 .. c : k[j] = p
  BY KeysFacts, PricesAssumption
<1> HIDE DEF c, k
<1>2. \A q \in Prices : ToSet(level[s][q]) # {} => q \in listed[s]
  <2> SUFFICES ASSUME NEW q \in Prices, ToSet(level[s][q]) # {} PROVE q \in listed[s]
    OBVIOUS
  <2>1. level[s][q] \in Seq(Ids) /\ (level[s][q] # <<>> => q \in listed[s])
    BY StructureFacts DEF Deques
  <2> QED BY <2>1, EmptyQueue
<1>3. \A a, b \in 1 .. c : a < b <=> Better(s, k[a], k[b])
  <2> SUFFICES ASSUME NEW a \in 1 .. c, NEW b \in 1 .. c
               PROVE  a < b <=> Better(s, k[a], k[b])
    OBVIOUS
  <2>1. k[a] \in Int /\ k[b] \in Int /\ a \in Int /\ b \in Int
    BY <1>1
  <2>2. (a < b => Better(s, k[a], k[b])) /\ (b < a => Better(s, k[b], k[a]))
    BY <1>1 DEF Sorted
  <2> QED BY <2>1, <2>2 DEF Better
<1>4. ASSUME NEW j \in 1 .. c, NEW x
      PROVE  x \in UpTo(s, k[j]) <=> \E a \in 1 .. j : x \in ToSet(level[s][k[a]])
  <2>1. ASSUME x \in UpTo(s, k[j]) PROVE \E a \in 1 .. j : x \in ToSet(level[s][k[a]])
    <3>1. PICK q \in Prices : (q = k[j] \/ Better(s, q, k[j])) /\ x \in ToSet(level[s][q])
      BY <2>1 DEF UpTo
    <3>2. PICK a \in 1 .. c : k[a] = q
      BY <1>1, <1>2, <3>1
    <3>3. CASE q = k[j]
      BY <3>1, <3>3, <1>1
    <3>4. CASE Better(s, q, k[j])
      <4>1. a < j
        BY <1>3, <3>2, <3>4
      <4> QED BY <3>1, <3>2, <4>1
    <3> QED BY <3>1, <3>3, <3>4
  <2>2. ASSUME NEW a \in 1 .. j, x \in ToSet(level[s][k[a]]) PROVE x \in UpTo(s, k[j])
    <3>1. a \in 1 .. c /\ k[a] \in Prices /\ (a = j \/ a < j)
      BY <1>1
    <3>2. k[a] = k[j] \/ Better(s, k[a], k[j])
      BY <1>3, <3>1
    <3> QED BY <2>2, <3>1, <3>2 DEF UpTo
  <2> QED BY <2>1, <2>2
<1>5. \A j \in 0 .. c : \A x : x \in AtFirst(s, j) <=> \E a \in 1 .. j : x \in ToSet(level[s][k[a]])
  <2> SUFFICES ASSUME NEW j \in 0 .. c, NEW x
               PROVE  x \in AtFirst(s, j) <=> \E a \in 1 .. j : x \in ToSet(level[s][k[a]])
    OBVIOUS
  <2>1. CASE j = 0
    BY <2>1 DEF AtFirst
  <2>2. CASE j # 0
    BY <1>4, <2>2 DEF AtFirst, k
  <2> QED BY <2>1, <2>2
<1>6. i \in 1 .. c /\ i \in 0 .. c /\ i - 1 \in 0 .. c
  BY <1>1 DEF c
<1>7. \A a \in 1 .. i : a # i => a \in 1 .. i - 1 /\ a \in 1 .. c
  BY <1>1, <1>6
<1>8. \A a \in 1 .. i - 1 : a \in 1 .. i /\ a \in 1 .. c /\ a # i /\ a < i
  BY <1>1, <1>6
<1>9. ASSUME NEW x PROVE x \in AtFirst(s, i) <=> x \in AtFirst(s, i - 1) \cup ToSet(level[s][k[i]])
  <2>1. x \in AtFirst(s, i) <=> \E a \in 1 .. i : x \in ToSet(level[s][k[a]])
    BY <1>5, <1>6
  <2>2. x \in AtFirst(s, i - 1) <=> \E a \in 1 .. i - 1 : x \in ToSet(level[s][k[a]])
    BY <1>5, <1>6
  <2>3. i \in 1 .. i
    BY <1>1, <1>6
  <2> QED BY <1>7, <1>8, <2>1, <2>2, <2>3
<1>10. ASSUME NEW x \in AtFirst(s, i - 1) PROVE x \notin ToSet(level[s][k[i]])
  <2>1. PICK a \in 1 .. i - 1 : x \in ToSet(level[s][k[a]])
    BY <1>5, <1>6
  <2>2. a \in 1 .. c /\ Better(s, k[a], k[i])
    BY <1>3, <1>6, <1>8
  <2>3. k[a] \in Prices /\ k[i] \in Prices /\ k[a] # k[i]
    <3>1. k[a] \in listed[s] /\ k[i] \in listed[s]
      BY <1>1, <1>6, <2>2
    <3>2. k[a] \in Prices /\ k[i] \in Prices /\ k[a] \in Int /\ k[i] \in Int
      BY <1>1, <3>1
    <3>3. k[a] # k[i]
      BY <2>2, <3>2 DEF Better
    <3> QED BY <3>2, <3>3
  <2> QED BY <2>1, <2>3, StructureFacts
<1> QED BY <1>9, <1>10 DEF k

LEMMA RunningFacts ==
  ASSUME Structure, Bounded, IsFiniteSet(active), NEW s \in Sides
  PROVE  LET c == Cardinality(listed[s]) IN
         /\ Running(s, 0) = 0 /\ \A i \in 0 .. c : Running(s, i) \in Int
         /\ \A i \in 1 .. c :
              /\ Shown(s, Keys(s)[i]) \in Int
              /\ (Running(s, i - 1) + Shown(s, Keys(s)[i])) % Word = Running(s, i) % Word
              /\ (Running(s, i) - Shown(s, Keys(s)[i])) % Word = Running(s, i - 1) % Word
<1> DEFINE c == Cardinality(listed[s])
<1>1. /\ c \in Nat /\ \A i \in 1 .. c : Keys(s)[i] \in Prices
  BY KeysFacts
<1> HIDE DEF c
<1>2. \A i \in 0 .. c : Summable(Showing, AtFirst(s, i))
  <2> SUFFICES ASSUME NEW i \in 0 .. c PROVE Summable(Showing, AtFirst(s, i))
    OBVIOUS
  <2>1. CASE i = 0
    BY <2>1, ShowingFacts, SumTyped DEF AtFirst
  <2>2. CASE i # 0
    <3>1. i \in 1 .. c
      BY <1>1, <2>2
    <3>2. Keys(s)[i] \in Prices
      BY <1>1, <3>1
    <3> QED BY <2>2, <3>2, ShowingFacts DEF AtFirst
  <2> QED BY <2>1, <2>2
<1>3. \A i \in 0 .. c : Running(s, i) \in Int
  BY <1>2, SumTyped DEF Running
<1>4. Running(s, 0) = 0
  <2>1. 0 \in 0 .. c /\ AtFirst(s, 0) = {}
    BY <1>1 DEF AtFirst
  <2> QED BY <1>2, <2>1, SumTyped DEF Running
<1>5. ASSUME NEW i \in 1 .. c
      PROVE  /\ Shown(s, Keys(s)[i]) \in Int
             /\ (Running(s, i - 1) + Shown(s, Keys(s)[i])) % Word = Running(s, i) % Word
             /\ (Running(s, i) - Shown(s, Keys(s)[i])) % Word = Running(s, i - 1) % Word
  <2> DEFINE d == ToSet(level[s][Keys(s)[i]])
             t == SumOf(Showing, d)
             x == Running(s, i - 1)
             y == Running(s, i)
  <2>1. i \in 0 .. c /\ i - 1 \in 0 .. c
    BY <1>1
  <2>2. Keys(s)[i] \in Prices
    BY <1>1
  <2>3. Summable(Showing, d)
    BY <2>2, ShowingFacts
  <2>4. Shown(s, Keys(s)[i]) = t % Word
    BY <2>2, ShownIsSum
  <2>5. AtFirst(s, i) = AtFirst(s, i - 1) \cup d /\ AtFirst(s, i - 1) \cap d = {}
    BY NextKey DEF c
  <2>6. Summable(Showing, AtFirst(s, i))
    BY <1>2, <2>1
  <2> HIDE DEF d
  <2>7. y = x + t
    BY <2>5, <2>6, SumUnion DEF Running
  <2>8. x \in Int /\ y \in Int /\ t \in Int
    BY <1>3, <2>1, <2>3, SumTyped
  <2> HIDE DEF t, x, y
  <2>9. (x + (t % Word)) % Word = (x + t) % Word /\ (y - (t % Word)) % Word = (y - t) % Word
    BY <2>8, WrapLater
  <2>10. y - t = x
    BY <2>7, <2>8
  <2>11. t % Word \in Int
    BY <2>8, WordAssumption
  <2> QED BY <2>4, <2>7, <2>9, <2>10, <2>11 DEF x, y
<1> QED BY <1>3, <1>4, <1>5 DEF c

(* The rows of the tables. *)
Depth(s, n) == Min({n, Cardinality(listed[s])})

LEMMA RowsFacts ==
  ASSUME Structure, Bounded, IsFiniteSet(active), NEW s \in Sides, NEW n \in Nat
  PROVE  LET m == Depth(s, n) rows == Rows(s, n) IN
         /\ m \in Nat /\ 1 .. m \subseteq 1 .. Cardinality(listed[s])
         /\ m \in 0 .. Cardinality(listed[s])
         /\ rows \in Seq([price : Prices, quantity : Int]) /\ Len(rows) = m
         /\ \A i \in 1 .. m : /\ rows[i].price = Keys(s)[i]
                              /\ rows[i].quantity = Shown(s, Keys(s)[i])
<1> DEFINE c == Cardinality(listed[s])
           m == Depth(s, n)
           k == Keys(s)
<1>1. c \in Nat /\ \A i \in 1 .. c : k[i] \in Prices
  BY KeysFacts
<1>2. \A i \in 1 .. c : Shown(s, k[i]) \in Int
  BY RunningFacts
<1>3. m \in {n, c} /\ m <= n /\ m <= c
  <2>1. n \in Int /\ c \in Int
    BY <1>1
  <2> HIDE DEF c
  <2>2. m = Min({n, c})
    BY DEF Depth, c
  <2> HIDE DEF m
  <2> QED BY ONLY <2>1, <2>2, MinOfTwo
<1>4. Rows(s, n) = [i \in 1 .. m |-> [price |-> k[i], quantity |-> Shown(s, k[i])]]
  BY DEF Rows, Depth
<1> HIDE DEF c, m, k
<1>5. m \in Nat /\ 1 .. m \subseteq 1 .. c /\ m \in 0 .. c
  BY <1>1, <1>3
<1>6. \A i \in 1 .. m : [price |-> k[i], quantity |-> Shown(s, k[i])] \in [price : Prices, quantity : Int]
  BY <1>1, <1>2, <1>5
<1>7. Rows(s, n) \in [1 .. m -> [price : Prices, quantity : Int]]
  BY <1>4, <1>6
<1>8. Rows(s, n) \in Seq([price : Prices, quantity : Int]) /\ Len(Rows(s, n)) = m
  <2> DEFINE R == [price : Prices, quantity : Int]
             f == Rows(s, n)
  <2>1. f \in [1 .. m -> R]
    BY <1>7
  <2> HIDE DEF R, f
  <2>2. f \in Seq(R) /\ Len(f) = m
    BY <1>5, <2>1
  <2> QED BY <2>2 DEF R, f
<1>9. \A i \in 1 .. m : Rows(s, n)[i].price = k[i] /\ Rows(s, n)[i].quantity = Shown(s, k[i])
  BY <1>4
<1> QED BY <1>5, <1>8, <1>9 DEF c, m, k

(* The prices in the first m rows are the m best of the side. *)
Near(s, m) == {Keys(s)[i] : i \in 1 .. m}

LEMMA NearFacts ==
  ASSUME Structure, Bounded, NEW s \in Sides, NEW m \in 0 .. Cardinality(listed[s])
  PROVE  /\ Near(s, m) \subseteq listed[s] /\ Cardinality(Near(s, m)) = m
         /\ \A p \in Near(s, m), q \in listed[s] \ Near(s, m) : Better(s, p, q)
<1> DEFINE c == Cardinality(listed[s])
           k == Keys(s)
           h == [i \in 1 .. m |-> k[i]]
<1>1. /\ c \in Nat /\ listed[s] \subseteq Int
      /\ k \in [1 .. c -> listed[s]] /\ Sorted(s, k)
      /\ \A p \in listed[s] : \E j \in 1 .. c : k[j] = p
  BY KeysFacts, PricesAssumption
<1>2. Near(s, m) = {k[i] : i \in 1 .. m}
  BY DEF Near
<1>3. m \in Nat /\ 1 .. m \subseteq 1 .. c
  BY <1>1
<1> HIDE DEF c, k
<1>4. \A i \in 1 .. m : h[i] = k[i] /\ h[i] \in listed[s] /\ h[i] \in Near(s, m)
  BY <1>1, <1>2, <1>3
<1>5. \A p \in Near(s, m) : \E i \in 1 .. m : h[i] = p
  BY <1>2, <1>4
<1>6. Near(s, m) \subseteq listed[s]
  BY <1>4, <1>5
<1>7. DOMAIN h = 1 .. m /\ h \in [1 .. m -> Near(s, m)]
  BY <1>4
<1> HIDE DEF h
<1>8. \A i, j \in 1 .. m : h[i] = h[j] => i = j
  <2> SUFFICES ASSUME NEW i \in 1 .. m, NEW j \in 1 .. m, i < j PROVE h[i] # h[j]
    BY <1>3
  <2>1. Better(s, h[i], h[j]) /\ h[i] \in Int /\ h[j] \in Int
    BY <1>1, <1>3, <1>4 DEF Sorted
  <2> QED BY <2>1 DEF Better
<1>9. h \in Surjection(1 .. m, Near(s, m)) /\ h \in Injection(1 .. m, Near(s, m))
  BY <1>5, <1>7, <1>8 DEF Surjection, Injection, IsInjective
<1>10. IsFiniteSet(1 .. m) /\ Cardinality(1 .. m) = m
  BY <1>3, FS_Interval
<1>11. Cardinality(Near(s, m)) = m
  BY <1>9, <1>10, FS_Surjection
<1>12. ASSUME NEW p \in Near(s, m), NEW q \in listed[s] \ Near(s, m) PROVE Better(s, p, q)
  <2>1. PICK i \in 1 .. m : p = k[i]
    BY <1>4, <1>5
  <2>2. PICK j \in 1 .. c : q = k[j]
    BY <1>1
  <2>3. j \notin 1 .. m
    BY <1>4, <2>2
  <2>4. i < j /\ i \in 1 .. c
    BY <1>1, <1>3, <2>3
  <2> QED BY <1>1, <2>1, <2>2, <2>4 DEF Sorted
<1> QED BY <1>6, <1>11, <1>12

(* Adding up the first i rows of a side. *)
LEMMA FirstRowsAdded ==
  ASSUME Structure, Bounded, IsFiniteSet(active), NEW s \in Sides,
         NEW q \in Seq(Int), Len(q) \in 0 .. Cardinality(listed[s]),
         \A i \in 1 .. Len(q) : q[i] = Shown(s, Keys(s)[i])
  PROVE  Added(0, q) = Running(s, Len(q)) % Word
<1> DEFINE c == Cardinality(listed[s])
           n == Len(q)
           r == [i \in 0 .. n |-> Running(s, i)]
<1>1. /\ Running(s, 0) = 0 /\ \A i \in 0 .. c : Running(s, i) \in Int
      /\ \A i \in 1 .. c :
           (Running(s, i - 1) + Shown(s, Keys(s)[i])) % Word = Running(s, i) % Word
  BY RunningFacts
<1>2. c \in Nat /\ n \in 0 .. c
  BY KeysFacts
<1> HIDE DEF c
<1>3. \A i \in 0 .. n : r[i] = Running(s, i) /\ i \in 0 .. c
  BY <1>2
<1>4. \A i \in 1 .. n : i \in 1 .. c /\ i \in 0 .. n /\ i - 1 \in 0 .. n
  BY <1>2
<1>5. 0 \in 0 .. n /\ n \in 0 .. n /\ r[0] = 0
  BY <1>1, <1>2, <1>3
<1> HIDE DEF r
<1>6. \A i \in 0 .. n : r[i] \in Int
  BY <1>1, <1>3
<1>7. ASSUME NEW i \in 1 .. n PROVE (r[i - 1] + q[i]) % Word = r[i] % Word
  BY <1>1, <1>3, <1>4
<1>8. 0 \in Int /\ 0 = r[0] % Word
  BY <1>5, WordAssumption
<1>9. Added(0, q) = r[n] % Word
  BY <1>6, <1>7, <1>8, AddedIs
<1> QED BY <1>3, <1>5, <1>9

(* Taking the last rows of the first m off their total, one by one. *)
LEMMA LastRowsTakenOff ==
  ASSUME Structure, Bounded, IsFiniteSet(active), NEW s \in Sides,
         NEW m \in 0 .. Cardinality(listed[s]),
         NEW q \in Seq(Int), Len(q) <= m,
         \A i \in 1 .. Len(q) : q[i] = Shown(s, Keys(s)[m - i + 1])
  PROVE  TakenOff(Running(s, m) % Word, q) = Running(s, m - Len(q)) % Word
<1> DEFINE c == Cardinality(listed[s])
           n == Len(q)
           d == [i \in DOMAIN q |-> -q[i]]
           r == [i \in 0 .. n |-> Running(s, m - i)]
           t == Running(s, m) % Word
<1>1. /\ \A i \in 0 .. c : Running(s, i) \in Int
      /\ \A i \in 1 .. c :
           /\ Shown(s, Keys(s)[i]) \in Int
           /\ (Running(s, i) - Shown(s, Keys(s)[i])) % Word = Running(s, i - 1) % Word
  BY RunningFacts
<1>2. c \in Nat /\ n \in Nat /\ m \in 0 .. c /\ n <= m
  BY KeysFacts
<1> HIDE DEF c
<1>3. d \in Seq(Int) /\ Len(d) = n /\ \A i \in 1 .. n : d[i] = -q[i] /\ q[i] \in Int
  <2>1. DOMAIN q = 1 .. n /\ \A i \in 1 .. n : q[i] \in Int /\ -q[i] \in Int
    OBVIOUS
  <2>2. d \in [1 .. n -> Int]
    BY <2>1
  <2> QED BY <1>2, <2>1, <2>2
<1>4. TakenOff(t, q) = Added(t, d)
  BY DEF TakenOff
<1>5. \A i \in 0 .. n : r[i] = Running(s, m - i) /\ m - i \in 0 .. c
  BY <1>2
<1>6. \A i \in 1 .. n : /\ m - i + 1 \in 1 .. c /\ i \in 0 .. n /\ i - 1 \in 0 .. n
                        /\ m - (i - 1) = m - i + 1 /\ m - i + 1 - 1 = m - i
  BY <1>2
<1>7. 0 \in 0 .. n /\ n \in 0 .. n /\ m - 0 = m
  BY <1>2
<1> HIDE DEF d, r
<1>8. \A i \in 0 .. n : r[i] \in Int
  BY <1>1, <1>5
<1>9. ASSUME NEW i \in 1 .. n PROVE (r[i - 1] + d[i]) % Word = r[i] % Word
  <2> DEFINE k == m - i + 1
  <2>1. /\ k \in 1 .. c /\ r[i - 1] = Running(s, k) /\ r[i] = Running(s, k - 1)
        /\ r[i - 1] \in Int /\ q[i] \in Int
    <3>1. k \in 1 .. c /\ m - (i - 1) = k /\ m - i = k - 1
      BY <1>6
    <3>2. r[i - 1] = Running(s, m - (i - 1)) /\ r[i] = Running(s, m - i)
      BY <1>5, <1>6
    <3>3. r[i - 1] \in Int /\ q[i] \in Int
      BY <1>3, <1>6, <1>8
    <3> QED BY <3>1, <3>2, <3>3
  <2>2. q[i] = Shown(s, Keys(s)[k]) /\ d[i] = -q[i]
    BY <1>3
  <2> HIDE DEF k
  <2>3. (r[i - 1] - q[i]) % Word = r[i] % Word
    BY <1>1, <2>1, <2>2
  <2>4. r[i - 1] + d[i] = r[i - 1] - q[i]
    BY <2>1, <2>2
  <2> QED BY <2>3, <2>4
<1>10. t \in Int /\ t = r[0] % Word
  <2>1. Running(s, m) \in Int
    BY <1>1, <1>2
  <2>2. r[0] = Running(s, m)
    BY <1>5, <1>7
  <2> QED BY <2>1, <2>2, WordAssumption
<1> HIDE DEF t
<1>11. Added(t, d) = r[n] % Word
  BY <1>3, <1>8, <1>9, <1>10, AddedIs
<1> QED BY <1>4, <1>5, <1>7, <1>11 DEF t

LEMMA ColumnFacts ==
  ASSUME NEW rows \in Seq([price : Prices, quantity : Int])
  PROVE  /\ Column(rows) \in Seq(Int) /\ Len(Column(rows)) = Len(rows)
         /\ \A i \in 1 .. Len(rows) : Column(rows)[i] = rows[i].quantity
         /\ Reverse(rows) \in Seq([price : Prices, quantity : Int])
         /\ Len(Reverse(rows)) = Len(rows)
         /\ \A i \in 1 .. Len(rows) :
              Len(rows) - i + 1 \in 1 .. Len(rows) /\ Reverse(rows)[i] = rows[Len(rows) - i + 1]
<1> DEFINE n == Len(rows)
           R == [price : Prices, quantity : Int]
           col == Column(rows)
           rev == Reverse(rows)
<1>1. n \in Nat /\ DOMAIN rows = 1 .. n /\ \A i \in 1 .. n : rows[i] \in R
  <2>1. rows \in Seq(R)
    OBVIOUS
  <2> HIDE DEF R
  <2> QED BY <2>1
<1>2. \A i \in 1 .. n : n - i + 1 \in 1 .. n /\ (n - i) + 1 = n - i + 1
  BY <1>1
<1>3. rev = [i \in 1 .. n |-> rows[(n - i) + 1]]
  BY DEF Reverse
<1>4. col = [i \in 1 .. n |-> rows[i].quantity]
  BY <1>1 DEF Column
<1>5. \A i \in 1 .. n : rows[i].quantity \in Int
  BY <1>1
<1> HIDE DEF n, R, col, rev
<1>6. col \in [1 .. n -> Int] /\ \A i \in 1 .. n : col[i] = rows[i].quantity
  BY <1>4, <1>5
<1>7. rev \in [1 .. n -> R] /\ \A i \in 1 .. n : rev[i] = rows[n - i + 1]
  BY <1>1, <1>2, <1>3
<1>8. col \in Seq(Int) /\ Len(col) = n
  <2>1. n \in Nat /\ col \in [1 .. n -> Int]
    BY <1>1, <1>6
  <2> QED BY ONLY <2>1
<1>9. rev \in Seq(R) /\ Len(rev) = n
  BY <1>1, <1>7
<1> QED BY <1>2, <1>6, <1>7, <1>8, <1>9 DEF n, R, col, rev


LEMMA BidTable ==
  ASSUME Structure, Bounded, IsFiniteSet(active), NEW n \in Nat
  PROVE  TableTrue("BUY", n, BidDepth(n))
<1> DEFINE s == "BUY"
           c == Cardinality(listed[s])
           m == Depth(s, n)
           rows == Rows(s, n)
           k == Keys(s)
           table == BidDepth(n)
<1>0. s \in Sides
  BY DEF Sides
<1>1. /\ m \in Nat /\ 1 .. m \subseteq 1 .. c /\ m \in 0 .. c
      /\ rows \in Seq([price : Prices, quantity : Int]) /\ Len(rows) = m
      /\ \A i \in 1 .. m : rows[i].price = k[i] /\ rows[i].quantity = Shown(s, k[i])
  BY <1>0, RowsFacts
<1>2. /\ Column(rows) \in Seq(Int) /\ Len(Column(rows)) = m
      /\ \A i \in 1 .. m : Column(rows)[i] = Shown(s, k[i])
  BY <1>1, ColumnFacts
<1>3. table = [i \in 1 .. m |-> WithCumulative(rows[i], Added(0, SubSeq(Column(rows), 1, i)))]
  BY <1>1 DEF BidDepth
<1>4. /\ c \in Nat /\ listed[s] \subseteq Int /\ Sorted(s, k) /\ DOMAIN k = 1 .. c
      /\ \A i \in 1 .. c : k[i] \in listed[s]
  BY <1>0, KeysFacts, PricesAssumption
<1> HIDE DEF s, c, m, rows, k, table
<1>5. DOMAIN table = 1 .. m /\ \A i \in 1 .. m : table[i].price = k[i]
  BY <1>1, <1>3 DEF WithCumulative
<1>6. ASSUME NEW i \in 1 .. m PROVE table[i].cumulative = SumOf(Showing, UpTo(s, k[i])) % Word
  <2> DEFINE q == SubSeq(Column(rows), 1, i)
  <2>1. q \in Seq(Int) /\ Len(q) = i /\ \A j \in 1 .. i : q[j] = Column(rows)[j]
    BY <1>1, <1>2, SubSeqProperties
  <2>2. i \in 0 .. c /\ i \in Nat /\ i # 0 /\ \A j \in 1 .. i : j \in 1 .. m
    BY <1>1
  <2>3. table[i].cumulative = Added(0, q)
    BY <1>3 DEF WithCumulative
  <2> HIDE DEF q
  <2>4. \A j \in 1 .. Len(q) : q[j] = Shown(s, k[j])
    BY <1>2, <2>1, <2>2
  <2>5. Added(0, q) = Running(s, i) % Word
    BY <1>0, <2>1, <2>2, <2>4, FirstRowsAdded DEF k, c
  <2> QED BY <2>2, <2>3, <2>5 DEF Running, AtFirst, k
<1>7. {table[i].price : i \in DOMAIN table} = Near(s, m)
  BY <1>5 DEF Near, k
<1>8. /\ Near(s, m) \subseteq listed[s] /\ Cardinality(Near(s, m)) = m
      /\ \A p \in Near(s, m), q \in listed[s] \ Near(s, m) : Better(s, p, q)
  BY <1>0, <1>1, NearFacts DEF c
<1>9. ASSUME NEW i \in 1 .. m, NEW j \in 1 .. m, i < j PROVE table[i].price > table[j].price
  <2>1. i \in 1 .. c /\ j \in 1 .. c
    BY <1>1
  <2>2. k[i] \in Int /\ k[j] \in Int /\ Better(s, k[i], k[j])
    BY <1>4, <1>9, <2>1 DEF Sorted
  <2> QED BY <1>5, <2>2 DEF Better, s
<1>10. m = Min({n, Cardinality(listed[s])})
  BY DEF m, Depth
<1>11. TableTrue(s, n, table)
  <2> DEFINE shown == {table[i].price : i \in DOMAIN table}
  <2>1. shown = Near(s, m)
    BY <1>7
  <2>2. \A i, j \in DOMAIN table : i < j => table[i].price > table[j].price
    BY <1>5, <1>9
  <2>3. shown \subseteq listed[s] /\ Cardinality(shown) = Min({n, Cardinality(listed[s])})
    BY <1>8, <1>10, <2>1
  <2>4. \A p \in shown, q \in listed[s] \ shown : Better(s, p, q)
    BY <1>8, <2>1
  <2>5. \A i \in DOMAIN table :
          table[i].cumulative = SumOf(Showing, UpTo(s, table[i].price)) % Word
    BY <1>5, <1>6
  <2> QED BY <2>2, <2>3, <2>4, <2>5 DEF TableTrue
<1> QED BY <1>11 DEF s, table

LEMMA AskTable ==
  ASSUME Structure, Bounded, IsFiniteSet(active), NEW n \in Nat
  PROVE  TableTrue("SELL", n, AskDepth(n))
<1> DEFINE s == "SELL"
           c == Cardinality(listed[s])
           m == Depth(s, n)
           rows == Rows(s, n)
           down == Reverse(rows)
           total == Added(0, Column(rows))
           k == Keys(s)
           table == AskDepth(n)
<1>0. s \in Sides
  BY DEF Sides
<1>1. /\ m \in Nat /\ 1 .. m \subseteq 1 .. c /\ m \in 0 .. c
      /\ rows \in Seq([price : Prices, quantity : Int]) /\ Len(rows) = m
      /\ \A i \in 1 .. m : rows[i].price = k[i] /\ rows[i].quantity = Shown(s, k[i])
  BY <1>0, RowsFacts
<1>2. /\ Column(rows) \in Seq(Int) /\ Len(Column(rows)) = m
      /\ \A i \in 1 .. m : Column(rows)[i] = Shown(s, k[i])
      /\ down \in Seq([price : Prices, quantity : Int]) /\ Len(down) = m
      /\ \A i \in 1 .. m : m - i + 1 \in 1 .. m /\ down[i] = rows[m - i + 1]
  <2>1. /\ Column(rows) \in Seq(Int) /\ Len(Column(rows)) = Len(rows)
        /\ \A i \in 1 .. Len(rows) : Column(rows)[i] = rows[i].quantity
        /\ down \in Seq([price : Prices, quantity : Int]) /\ Len(down) = Len(rows)
        /\ \A i \in 1 .. Len(rows) :
             Len(rows) - i + 1 \in 1 .. Len(rows) /\ down[i] = rows[Len(rows) - i + 1]
    <3> HIDE DEF rows
    <3> QED BY <1>1, ColumnFacts
  <2> HIDE DEF m, rows, down, k, s
  <2> QED BY <1>1, <2>1
<1>3. /\ c \in Nat /\ listed[s] \subseteq Int /\ Sorted(s, k) /\ DOMAIN k = 1 .. c
      /\ \A i \in 1 .. c : k[i] \in listed[s]
  BY <1>0, KeysFacts, PricesAssumption
<1>4. total = Running(s, m) % Word
  BY <1>0, <1>1, <1>2, FirstRowsAdded
<1>5. table = [i \in DOMAIN down |->
                 WithCumulative(down[i], TakenOff(total, SubSeq(Column(down), 1, i - 1)))]
  BY DEF AskDepth
<1> HIDE DEF s, c, m, rows, k, table, down, total
<1>6. /\ Column(down) \in Seq(Int) /\ Len(Column(down)) = m
      /\ \A i \in 1 .. m : Column(down)[i] = down[i].quantity
  BY <1>2, ColumnFacts
<1>7. ASSUME NEW i \in 1 .. m PROVE Column(down)[i] = Shown(s, k[m - i + 1])
  <2>1. m - i + 1 \in 1 .. m /\ down[i] = rows[m - i + 1]
    BY <1>2
  <2> QED BY <1>1, <1>6, <2>1
<1>8. DOMAIN table = 1 .. m /\ \A i \in 1 .. m : table[i].price = k[m - i + 1]
  <2>1. DOMAIN down = 1 .. m
    BY <1>2
  <2> QED BY <1>1, <1>2, <1>5, <2>1 DEF WithCumulative
<1>9. ASSUME NEW i \in 1 .. m
      PROVE  table[i].cumulative = SumOf(Showing, UpTo(s, k[m - i + 1])) % Word
  <2> DEFINE q == SubSeq(Column(down), 1, i - 1)
             j == m - i + 1
  <2>1. q \in Seq(Int) /\ Len(q) = i - 1 /\ \A h \in 1 .. i - 1 : q[h] = Column(down)[h]
    <3>1. i - 1 \in 0 .. m /\ i - 1 \in Int /\ \A h \in 1 .. i - 1 : h \in 1 .. m
      BY <1>1
    <3>2. \A h \in 1 .. i - 1 : Column(down)[h] \in Int
      BY <1>1, <1>6, <3>1, ElementOfSeq
    <3> HIDE DEF q
    <3> QED BY <3>1, <3>2, SubSeqProperties DEF q
  <2>2. /\ i - 1 <= m /\ m - (i - 1) = j /\ j # 0
        /\ \A h \in 1 .. i - 1 : h \in 1 .. m
    BY <1>1
  <2>3. table[i].cumulative = TakenOff(total, q)
    BY <1>5, <1>8 DEF WithCumulative
  <2> HIDE DEF q, j
  <2>4. \A h \in 1 .. Len(q) : q[h] = Shown(s, k[m - h + 1])
    BY <1>7, <2>1, <2>2
  <2>5. TakenOff(total, q) = Running(s, j) % Word
    BY <1>0, <1>1, <1>4, <2>1, <2>2, <2>4, LastRowsTakenOff DEF k, c
  <2>6. Running(s, j) = SumOf(Showing, UpTo(s, k[j]))
    BY <2>2 DEF Running, AtFirst, k
  <2> QED BY <2>3, <2>5, <2>6 DEF j
<1>10. {table[i].price : i \in DOMAIN table} = Near(s, m)
  <2>1. ASSUME NEW i \in 1 .. m
        PROVE  k[i] \in {table[h].price : h \in DOMAIN table} /\ table[i].price \in Near(s, m)
    <3>1. m - i + 1 \in 1 .. m /\ m - (m - i + 1) + 1 = i
      BY <1>1
    <3>2. table[m - i + 1].price = k[i]
      BY <1>8, <3>1
    <3> QED BY <1>8, <3>1, <3>2 DEF Near, k
  <2> QED BY <1>8, <2>1 DEF Near, k
<1>11. /\ Near(s, m) \subseteq listed[s] /\ Cardinality(Near(s, m)) = m
       /\ \A p \in Near(s, m), q \in listed[s] \ Near(s, m) : Better(s, p, q)
  BY <1>0, <1>1, NearFacts DEF c
<1>12. ASSUME NEW i \in 1 .. m, NEW j \in 1 .. m, i < j PROVE table[i].price > table[j].price
  <2>1. m - i + 1 \in 1 .. c /\ m - j + 1 \in 1 .. c /\ m - j + 1 < m - i + 1
    BY <1>1, <1>12
  <2>2. /\ k[m - i + 1] \in Int /\ k[m - j + 1] \in Int
        /\ Better(s, k[m - j + 1], k[m - i + 1])
    BY <1>3, <2>1 DEF Sorted
  <2> QED BY <1>8, <2>2 DEF Better, s
<1>13. m = Min({n, Cardinality(listed[s])})
  BY DEF m, Depth
<1>14. TableTrue(s, n, table)
  <2> DEFINE shown == {table[i].price : i \in DOMAIN table}
  <2>1. shown = Near(s, m)
    BY <1>10
  <2>2. \A i, j \in DOMAIN table : i < j => table[i].price > table[j].price
    BY <1>8, <1>12
  <2>3. shown \subseteq listed[s] /\ Cardinality(shown) = Min({n, Cardinality(listed[s])})
    BY <1>11, <1>13, <2>1
  <2>4. \A p \in shown, q \in listed[s] \ shown : Better(s, p, q)
    BY <1>11, <2>1
  <2>5. \A i \in DOMAIN table :
          table[i].cumulative = SumOf(Showing, UpTo(s, table[i].price)) % Word
    BY <1>8, <1>9
  <2> QED BY <2>2, <2>3, <2>4, <2>5 DEF TableTrue
<1> QED BY <1>14 DEF s, table

(* The two members of a row that printBook() prints, too. *)
PriceAndQuantity(row) == [price |-> row.price, quantity |-> row.quantity]

LEMMA SameRows ==
  ASSUME Structure, Bounded, IsFiniteSet(active), NEW n \in Nat
  PROVE  LET both == AskDepth(n) \o BidDepth(n) IN
         BookTable(n) = [i \in DOMAIN both |-> PriceAndQuantity(both[i])]
<1> DEFINE R == [price : Prices, quantity : Int]
           asks == Reverse(Rows("SELL", n))
           bids == Rows("BUY", n)
           a == AskDepth(n)
           b == BidDepth(n)
           u == Len(asks)
           v == Len(bids)
<1>1. asks \in Seq(R) /\ bids \in Seq(R) /\ u \in Nat /\ v \in Nat
  <2>1. Rows("SELL", n) \in Seq(R) /\ bids \in Seq(R)
    BY RowsFacts DEF Sides
  <2>2. asks \in Seq(R)
    BY <2>1, ColumnFacts
  <2> HIDE DEF R, asks, bids
  <2> QED BY <2>1, <2>2
<1>2. /\ DOMAIN a = DOMAIN asks /\ a = [i \in DOMAIN asks |-> a[i]]
      /\ \A i \in DOMAIN asks : /\ a[i].price = asks[i].price
                                /\ a[i].quantity = asks[i].quantity
  BY DEF AskDepth, WithCumulative
<1>3. /\ DOMAIN b = DOMAIN bids /\ b = [i \in DOMAIN bids |-> b[i]]
      /\ \A i \in DOMAIN bids : /\ b[i].price = bids[i].price
                                /\ b[i].quantity = bids[i].quantity
  BY DEF BidDepth, WithCumulative
<1>4. BookTable(n) = asks \o bids
  BY DEF BookTable
<1> HIDE DEF a, b, asks, bids
<1>5. \A row \in R : PriceAndQuantity(row) = row
  BY DEF PriceAndQuantity
<1> HIDE DEF R
<1>6. /\ DOMAIN asks = 1 .. u /\ DOMAIN bids = 1 .. v
      /\ \A i \in 1 .. u : asks[i] \in R
      /\ \A i \in 1 .. v : bids[i] \in R
  BY <1>1
<1>7. /\ \A i \in 1 .. u : PriceAndQuantity(a[i]) = asks[i]
      /\ \A i \in 1 .. v : PriceAndQuantity(b[i]) = bids[i]
  BY <1>2, <1>3, <1>5, <1>6 DEF PriceAndQuantity
<1>8. a \in Seq({a[i] : i \in 1 .. u} \cup {b[i] : i \in 1 .. v}) /\ Len(a) = u
  <2> DEFINE S == {a[i] : i \in 1 .. u} \cup {b[i] : i \in 1 .. v}
  <2>1. \A i \in 1 .. u : a[i] \in S
    OBVIOUS
  <2> HIDE DEF S, u
  <2>2. a \in [1 .. u -> S]
    BY <1>2, <1>6, <2>1
  <2>3. a \in Seq(S) /\ Len(a) = u
    BY <1>1, <2>2
  <2> QED BY <2>3 DEF S
<1>9. b \in Seq({a[i] : i \in 1 .. u} \cup {b[i] : i \in 1 .. v}) /\ Len(b) = v
  <2> DEFINE S == {a[i] : i \in 1 .. u} \cup {b[i] : i \in 1 .. v}
  <2>1. \A i \in 1 .. v : b[i] \in S
    OBVIOUS
  <2> HIDE DEF S, v
  <2>2. b \in [1 .. v -> S]
    BY <1>3, <1>6, <2>1
  <2>3. b \in Seq(S) /\ Len(b) = v
    BY <1>1, <2>2
  <2> QED BY <2>3 DEF S
<1> DEFINE S == {a[i] : i \in 1 .. u} \cup {b[i] : i \in 1 .. v}
           both == a \o b
           book == asks \o bids
<1>10. a \in Seq(S) /\ b \in Seq(S)
  BY <1>8, <1>9
<1> HIDE DEF S, u, v
<1>11. /\ DOMAIN both = 1 .. u + v
       /\ \A i \in 1 .. u + v : both[i] = IF i <= u THEN a[i] ELSE b[i - u]
  <2>1. both \in Seq(S) /\ Len(both) = u + v
        /\ \A i \in 1 .. u + v : both[i] = IF i <= u THEN a[i] ELSE b[i - u]
    <3>1. /\ both \in Seq(S) /\ Len(both) = Len(a) + Len(b)
          /\ \A i \in 1 .. Len(a) + Len(b) :
               both[i] = IF i <= Len(a) THEN a[i] ELSE b[i - Len(a)]
      BY ONLY <1>10, ConcatProperties
    <3> HIDE DEF both
    <3> QED BY <1>8, <1>9, <3>1
  <2> HIDE DEF both
  <2> QED BY <2>1
<1>12. /\ DOMAIN book = 1 .. u + v /\ book = [i \in 1 .. u + v |-> book[i]]
       /\ \A i \in 1 .. u + v : book[i] = IF i <= u THEN asks[i] ELSE bids[i - u]
  <2>1. book \in Seq(R) /\ Len(book) = u + v
        /\ \A i \in 1 .. u + v : book[i] = IF i <= u THEN asks[i] ELSE bids[i - u]
    BY <1>1, ConcatProperties DEF u, v
  <2> HIDE DEF book
  <2> QED BY <2>1
<1> HIDE DEF both, book
<1>13. ASSUME NEW i \in 1 .. u + v PROVE book[i] = PriceAndQuantity(both[i])
  <2>1. i <= u => i \in 1 .. u
    BY <1>1
  <2>2. ~(i <= u) => i - u \in 1 .. v
    BY <1>1
  <2> QED BY <1>7, <1>11, <1>12, <2>1, <2>2
<1>14. book = [i \in DOMAIN both |-> PriceAndQuantity(both[i])]
  BY <1>11, <1>12, <1>13
<1> QED BY <1>4, <1>14 DEF both, book, a, b

(* The tables of printBook() and printDepth() list the prices nearest to   *)
(* the spread, and the cumulative quantity of a row is what all orders     *)
(* from the best price up to that row show, however many rows are asked    *)
(* for and whatever the book.                                              *)
THEOREM TablesAreTrue == Spec => []DepthTrue
<1>1. Init => Bounded /\ IsFiniteSet(active)
  BY FS_EmptySet DEF Init, Bounded
<1>2. Structure /\ Bounded /\ IsFiniteSet(active) /\ [Next]_vars
        => Bounded' /\ IsFiniteSet(active)'
  BY NextKeepsBounded, NextKeepsFinite
<1>3. Structure /\ Bounded /\ IsFiniteSet(active) => DepthTrue
  <2> SUFFICES ASSUME Structure, Bounded, IsFiniteSet(active),
                      NEW n \in 0 .. Cardinality(listed["BUY"]) + Cardinality(listed["SELL"]) + 1
               PROVE  TablesTrue(n)
    BY DEF DepthTrue
  <2>1. n \in Nat
    BY KeysFacts DEF Sides
  <2>2. TableTrue("SELL", n, AskDepth(n)) /\ TableTrue("BUY", n, BidDepth(n))
    BY <2>1, AskTable, BidTable
  <2>3. LET both == AskDepth(n) \o BidDepth(n) IN
        BookTable(n) = [i \in DOMAIN both |-> PriceAndQuantity(both[i])]
    BY <2>1, SameRows
  <2> QED BY <2>2, <2>3 DEF TablesTrue, PriceAndQuantity
<1> QED BY <1>1, <1>2, <1>3, StructureInvariant, PTL DEF Spec

=============================================================================

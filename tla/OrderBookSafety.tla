--------------------------- MODULE OrderBookSafety ---------------------------
(***************************************************************************)
(* The safety properties of the order book, proved on top of the structure *)
(* that module OrderBookProofs shows to be an invariant.                   *)
(***************************************************************************)
EXTENDS OrderBookProofs

-----------------------------------------------------------------------------
(* What each action does to the orders and to the places they are in. *)

(* A submitted order is a new one. *)
LEMMA ArrivalFacts ==
  ASSUME Structure, NEW id \in Ids, NEW r \in Requests, HoldStop(id, r) \/ BeginMatch(id, r)
  PROVE  /\ id \notin Submitted /\ id \notin Held /\ id \notin active
         /\ orders'[id] = NewOrder(r)
         /\ \A x \in Ids : x # id => orders'[x] = orders[x]
         /\ Submitted' = Submitted \cup {id}
<1>1. id \notin Submitted /\ orders' = [orders EXCEPT ![id] = NewOrder(r)]
  BY DEF HoldStop, BeginMatch, Submitted
<1>2. NewOrder(r) \in Order
  BY NewOrderTyped
<1>3. orders'[id] = NewOrder(r) /\ \A x \in Ids : x # id => orders'[x] = orders[x]
  BY <1>1 DEF Structure, TypeOK
<1>4. Submitted' = Submitted \cup {id}
  BY <1>2, <1>3, NoneAssumption DEF Submitted
<1> QED BY <1>1, <1>3, <1>4, StructureFacts

LEMMA HoldStopFacts ==
  ASSUME Structure, NEW id \in Ids, NEW r \in Requests, HoldStop(id, r)
  PROVE  ToSet(pending') = ToSet(pending) \cup {id} /\ Held' = Held \cup {id}
<1>1. ToSet(pending') = ToSet(pending) \cup {id}
  BY PushQueue DEF HoldStop, Structure, TypeOK
<1> QED BY <1>1 DEF HoldStop, Held

(* A stop that fires moves from one vector to the next, marked. *)
LEMMA FireStopFacts ==
  ASSUME Structure, FireStop
  PROVE  \E id \in ToSet(pending) :
           /\ id \in Submitted /\ id \in Ids
           /\ ToSet(pending') = ToSet(pending) \ {id}
           /\ Held' = Held
           /\ orders'[id] = [orders[id] EXCEPT !.triggered = TRUE]
           /\ \A x \in Ids : x # id => orders'[x] = orders[x]
           /\ Submitted' = Submitted
<1>1. PICK i \in DOMAIN pending :
        /\ orders'  = [orders EXCEPT ![pending[i]].triggered = TRUE]
        /\ staged'  = Append(staged, pending[i])
        /\ pending' = RemoveAt(pending, i)
  BY DEF FireStop
<1> DEFINE id == pending[i]
<1>2. id \in ToSet(pending)
  BY DEF ToSet
<1>3. id \in Submitted /\ id \in Ids /\ orders[id] \in Order
  BY <1>2, StructureFacts DEF Held
<1>4. ToSet(pending') = ToSet(pending) \ {id}
  BY <1>1, EraseFromQueue DEF Structure, TypeOK, OnePlaceEach
<1>5. ToSet(staged') = ToSet(staged) \cup {id}
  BY <1>1, <1>3, PushQueue DEF Structure, TypeOK
<1>6. orders' = [orders EXCEPT ![id] = [orders[id] EXCEPT !.triggered = TRUE]]
  BY <1>1
<1> HIDE DEF id
<1>7. Held' = Held
  BY <1>2, <1>4, <1>5 DEF Held, FireStop
<1>8. /\ orders'[id] = [orders[id] EXCEPT !.triggered = TRUE]
      /\ \A x \in Ids : x # id => orders'[x] = orders[x]
  BY <1>3, <1>6 DEF Structure, TypeOK
<1>9. Submitted' = Submitted
  <2>1. orders'[id] \in Order
    BY <1>3, <1>8 DEF Order
  <2>2. \A x \in Ids : orders'[x] # None <=> orders[x] # None
    BY <1>3, <1>8, <2>1, NoneAssumption
  <2> QED BY <2>2 DEF Submitted
<1> QED BY <1>2, <1>3, <1>4, <1>7, <1>8, <1>9

LEMMA TakeBatchFacts ==
  ASSUME Structure, TakeBatch
  PROVE  Held' = Held
<1>1. ToSet(staged') = {} /\ ToSet(batch) = {} /\ ToSet(batch') = ToSet(staged)
  BY EmptyQueue DEF Structure, TypeOK, TakeBatch
<1> QED BY <1>1 DEF Held, TakeBatch

LEMMA MatchStopFacts ==
  ASSUME Structure, MatchStop
  PROVE  cur' \in Held /\ cur' # None /\ Held' = Held \ {cur'}
<1>1. cur' \in ToSet(batch) /\ cur' \in Ids /\ ToSet(batch') = ToSet(batch) \ {cur'}
  BY PopQueue DEF MatchStop, Structure, TypeOK, OnePlaceEach
<1> QED BY <1>1, NoneAssumption DEF MatchStop, Held, Structure, OnePlaceEach

LEMMA SettleIcebergFacts ==
  ASSUME Structure, SettleIceberg
  PROVE  /\ Resting \in active /\ Resting \in Submitted /\ Resting \in Ids
         /\ orders[Resting] \in Order
         /\ orders'[Resting] = Replenish(orders[Resting])
         /\ \A x \in Ids : x # Resting => orders'[x] = orders[x]
         /\ SameTerms(orders[Resting], orders'[Resting])
         /\ orders'[Resting].leaves = orders[Resting].leaves
         /\ orders'[Resting].status = orders[Resting].status
         /\ Submitted' = Submitted
<1>1. Resting \in active /\ Resting \in Submitted /\ Resting \in Ids /\ orders[Resting] \in Order
  BY RestingFacts DEF SettleIceberg
<1> DEFINE id == Resting
<1>2. orders' = [orders EXCEPT ![id] = Replenish(orders[id])]
  BY DEF SettleIceberg
<1> HIDE DEF id
<1>3. orders'[id] = Replenish(orders[id]) /\ \A x \in Ids : x # id => orders'[x] = orders[x]
  BY <1>1, <1>2 DEF Structure, TypeOK, id
<1>4. /\ orders'[id] \in Order /\ SameTerms(orders[id], orders'[id])
      /\ orders'[id].leaves = orders[id].leaves
      /\ orders'[id].status = orders[id].status
  BY <1>1, <1>3, ReplenishTyped DEF id
<1>5. Submitted' = Submitted
  <2>1. \A x \in Ids : orders'[x] # None <=> orders[x] # None
    BY <1>1, <1>3, <1>4, NoneAssumption DEF Submitted, id
  <2> QED BY <2>1 DEF Submitted
<1> QED BY <1>1, <1>3, <1>4, <1>5 DEF id

LEMMA CancelFacts ==
  ASSUME Structure, NEW id \in Ids, CancelOrder(id)
  PROVE  /\ id \in active /\ id \in Submitted /\ id \notin Held /\ id # cur
         /\ orders'[id] = CancelOf(orders[id]) /\ orders'[id] \in Order
         /\ \A x \in Ids : x # id => orders'[x] = orders[x]
         /\ Submitted' = Submitted
<1>1. id \in active /\ id \in Submitted /\ id \notin Held /\ id # cur /\ orders[id] \in Order
  BY StructureFacts DEF CancelOrder, Structure, OnePlaceEach
<1>2. /\ orders'[id] = CancelOf(orders[id])
      /\ \A x \in Ids : x # id => orders'[x] = orders[x]
  BY <1>1 DEF CancelOrder, Structure, TypeOK
<1>3. orders'[id] \in Order
  BY <1>1, <1>2, CancelTyped
<1>4. \A x \in Ids : orders'[x] # None <=> orders[x] # None
  BY <1>1, <1>2, <1>3, NoneAssumption
<1> QED BY <1>1, <1>2, <1>3, <1>4 DEF Submitted

LEMMA ModifyFacts ==
  ASSUME Structure, NEW id \in Ids, NEW a \in Amendments, ModifyOrder(id, a)
  PROVE  LET o == PlainOrder(orders[id].side, orders[id].kind, a.price, a.quantity) IN
         /\ id \in active /\ id \in Submitted /\ id \notin Held /\ id # cur
         /\ orders'[id] = o /\ o \in Order /\ IsActive(o)
         /\ \A x \in Ids : x # id => orders'[x] = orders[x]
         /\ Submitted' = Submitted
<1> DEFINE o == PlainOrder(orders[id].side, orders[id].kind, a.price, a.quantity)
<1>1. id \in active /\ id \in Submitted /\ id \notin Held /\ id # cur /\ orders[id] \in Order
  BY StructureFacts DEF ModifyOrder, Structure, OnePlaceEach
<1>2. o \in Order /\ IsActive(o)
  BY <1>1, AmendmentsAssumption, PlainOrderTyped DEF Order
<1>3. orders' = [orders EXCEPT ![id] = o]
  BY DEF ModifyOrder
<1> HIDE DEF o
<1>4. orders'[id] = o /\ \A x \in Ids : x # id => orders'[x] = orders[x]
  BY <1>1, <1>3 DEF Structure, TypeOK
<1>5. \A x \in Ids : orders'[x] # None <=> orders[x] # None
  BY <1>1, <1>2, <1>4, NoneAssumption
<1> QED BY <1>1, <1>2, <1>4, <1>5 DEF Submitted, o

-----------------------------------------------------------------------------
(* A cancelled order is nowhere, so nothing trades with it. *)

Quiet ==  (* the steps that change no order and move none *)
  TriggersDone \/ SettlePartial \/ EndMatch \/ UNCHANGED vars
  \/ \E p \in Prices, r \in Ids : SkipEmpty(p, r)

LEMMA QuietFacts ==
  ASSUME Quiet
  PROVE  /\ orders' = orders /\ active' = active /\ Held' = Held /\ cur' = cur
         /\ pending' = pending /\ trades' = trades
         /\ executed' = executed /\ modified' = modified /\ placedAt' = placedAt
         /\ Submitted' = Submitted
BY DEF Quiet, TriggersDone, SettlePartial, EndMatch, SkipEmpty, Held, Submitted,
       vars, bookVars, stopVars, history

LEMMA StepCases ==
  ASSUME [Next]_vars
  PROVE  \/ \E id \in Ids, r \in Requests : HoldStop(id, r)
         \/ \E id \in Ids, r \in Requests : BeginMatch(id, r)
         \/ \E id \in Ids : CancelOrder(id)
         \/ \E id \in Ids, a \in Amendments : ModifyOrder(id, a)
         \/ \E p \in Prices, r \in Ids : Trade(p, r)
         \/ FireStop \/ SettleFilled \/ SettleIceberg \/ FinishMatch
         \/ TakeBatch \/ MatchStop \/ Quiet
BY DEF Next, MatchStep, Quiet

LEMMA NextKeepsCancelledNowhere ==
  ASSUME Structure, CancelledNowhere, [Next]_vars
  PROVE  CancelledNowhere'
<1> USE DEF CancelledNowhere
<1>1. CASE \E id \in Ids, r \in Requests : HoldStop(id, r)
  <2>1. PICK id \in Ids, r \in Requests : HoldStop(id, r)
    BY <1>1
  <2>2. orders'[id].status # "CANCELLED"
    BY <2>1, ArrivalFacts, NewOrderTyped DEF IsActive
  <2>3. Held' = Held \cup {id} /\ active' = active /\ cur' = cur
    BY <2>1, HoldStopFacts DEF HoldStop
  <2>4. \A x \in Ids : x # id => orders'[x] = orders[x]
    BY <2>1, ArrivalFacts
  <2>5. \A x \in Held \cup active \cup {cur} : x # None => x \in Ids
    BY StructureFacts DEF Structure, TypeOK
  <2> QED BY <2>2, <2>3, <2>4, <2>5
<1>2. CASE \E id \in Ids, r \in Requests : BeginMatch(id, r)
  <2>1. PICK id \in Ids, r \in Requests : BeginMatch(id, r)
    BY <1>2
  <2>2. orders'[id].status # "CANCELLED"
    BY <2>1, ArrivalFacts, NewOrderTyped DEF IsActive
  <2> QED BY <2>1, <2>2, ArrivalFacts, StructureFacts
          DEF BeginMatch, stopVars, Held, Submitted
<1>3. CASE \E id \in Ids : CancelOrder(id)
  <2>1. PICK id \in Ids : CancelOrder(id)
    BY <1>3
  <2>2. Held' = Held /\ active' = active \ {id} /\ cur' = cur /\ id \notin Held /\ id # cur
    BY <2>1, CancelFacts DEF CancelOrder, stopVars, Held
  <2>3. \A x \in Ids : x # id => orders'[x] = orders[x]
    BY <2>1, CancelFacts
  <2>4. \A x \in Held \cup active \cup {cur} : x # None => x \in Ids
    BY StructureFacts DEF Structure, TypeOK
  <2> QED BY <2>2, <2>3, <2>4
<1>4. CASE \E id \in Ids, a \in Amendments : ModifyOrder(id, a)
  <2>1. PICK id \in Ids, a \in Amendments : ModifyOrder(id, a)
    BY <1>4
  <2>2. orders'[id].status # "CANCELLED"
    BY <2>1, ModifyFacts DEF IsActive
  <2>3. Held' = Held /\ active' = active /\ cur' = cur
    BY <2>1 DEF ModifyOrder, stopVars, Held
  <2>4. \A x \in Ids : x # id => orders'[x] = orders[x]
    BY <2>1, ModifyFacts
  <2>5. \A x \in Held \cup active \cup {cur} : x # None => x \in Ids
    BY StructureFacts DEF Structure, TypeOK
  <2>6. \A x \in Held \cup active \cup {cur} : x # None => orders'[x].status # "CANCELLED"
    BY <2>2, <2>3, <2>4, <2>5
  <2> QED BY <2>2, <2>3, <2>6
<1>5. CASE \E p \in Prices, r \in Ids : Trade(p, r)
  <2>1. PICK p \in Prices, r \in Ids : Trade(p, r)
    BY <1>5
  <2> DEFINE qty == TradeQty(orders[cur], orders[r])
  <2>2. /\ qty \in Quantity /\ orders[cur] \in Order /\ orders[r] \in Order
        /\ orders'[cur] = Fill(orders[cur], qty) /\ orders'[r] = Fill(orders[r], qty)
        /\ \A id \in Ids : id # cur /\ id # r => orders'[id] = orders[id]
    BY <2>1, TradeFacts, FacingFacts DEF Trade
  <2> HIDE DEF qty
  <2>3. orders'[cur].status # "CANCELLED" /\ orders'[r].status # "CANCELLED"
    BY <2>2, FillTyped
  <2>4. Held' = Held /\ active' = active /\ cur' = cur
    BY <2>1 DEF Trade, stopVars, Held
  <2>5. \A x \in Held \cup active \cup {cur} : x # None => x \in Ids
    BY StructureFacts DEF Structure, TypeOK
  <2>6. \A x \in Held \cup active \cup {cur} : x # None => orders'[x].status # "CANCELLED"
    BY <2>2, <2>3, <2>4, <2>5
  <2> QED BY <2>4, <2>6
<1>6. CASE FireStop
  <2>1. PICK id \in ToSet(pending) :
           /\ id \in Submitted /\ id \in Ids /\ Held' = Held
           /\ orders'[id] = [orders[id] EXCEPT !.triggered = TRUE]
           /\ \A x \in Ids : x # id => orders'[x] = orders[x]
    BY <1>6, FireStopFacts
  <2>2. orders'[id].status = orders[id].status
    BY <2>1, StructureFacts DEF Order
  <2>3. active' = active /\ cur' = cur
    BY <1>6 DEF FireStop
  <2>4. \A x \in Held \cup active \cup {cur} : x # None => x \in Ids
    BY StructureFacts DEF Structure, TypeOK
  <2> QED BY <2>1, <2>2, <2>3, <2>4
<1>7. CASE SettleFilled
  BY <1>7 DEF SettleFilled, stopVars, Held
<1>8. CASE SettleIceberg
  <2>1. Held' = Held /\ active' = active /\ cur' = cur
    BY <1>8 DEF SettleIceberg, stopVars, Held
  <2>2. \A x \in Ids : orders'[x].status = orders[x].status
    BY <1>8, SettleIcebergFacts
  <2>3. \A x \in Held \cup active \cup {cur} : x # None => x \in Ids
    BY StructureFacts DEF Structure, TypeOK
  <2>4. \A x \in Held \cup active \cup {cur} : x # None => orders'[x].status # "CANCELLED"
    BY <2>2, <2>3
  <2> QED BY <2>1, <2>4
<1>9. CASE FinishMatch
  <2>1. active' \subseteq active \cup {cur} /\ cur' = None /\ orders' = orders /\ Held' = Held
    BY <1>9 DEF FinishMatch, AddToBook, stopVars, Held
  <2> QED BY <2>1
<1>10. CASE TakeBatch
  BY <1>10, TakeBatchFacts DEF TakeBatch, bookVars
<1>11. CASE MatchStop
  BY <1>11, MatchStopFacts DEF MatchStop, bookVars
<1>12. CASE Quiet
  BY <1>12, QuietFacts
<1> QED BY <1>1, <1>2, <1>3, <1>4, <1>5, <1>6, <1>7, <1>8, <1>9, <1>10, <1>11, <1>12,
           StepCases

(* Once cancelOrder() has returned true, no trade has the order as a side. *)
THEOREM CancelledOrdersStayOut == Spec => CancelledNeverTrades
<1>1. Init => CancelledNowhere
  BY DEF Init, CancelledNowhere, Held, ToSet
<1>2. Structure /\ CancelledNowhere /\ [Next]_vars => CancelledNowhere'
  BY NextKeepsCancelledNowhere
<1>3. Structure /\ CancelledNowhere /\ [Next]_vars =>
        [trades' # trades =>
           LET t == trades'[Len(trades')] IN
           orders[t.buy].status # "CANCELLED" /\ orders[t.sell].status # "CANCELLED"]_vars
  <2> SUFFICES ASSUME Structure, CancelledNowhere, [Next]_vars, trades' # trades
               PROVE  LET t == trades'[Len(trades')] IN
                      orders[t.buy].status # "CANCELLED" /\ orders[t.sell].status # "CANCELLED"
    OBVIOUS
  <2>1. \E p \in Prices, r \in Ids : Trade(p, r)
    <3>1. ~Quiet
      BY QuietFacts
    <3> QED BY <3>1, StepCases DEF HoldStop, BeginMatch, CancelOrder, ModifyOrder, FireStop,
            SettleFilled, SettleIceberg, FinishMatch, TakeBatch, MatchStop
  <2>2. PICK p \in Prices, r \in Ids : Trade(p, r)
    BY <2>1
  <2> DEFINE t == [buy   |-> IF orders[cur].side = "BUY" THEN cur ELSE r,
                   sell  |-> IF orders[cur].side = "BUY" THEN r ELSE cur,
                   price |-> p, quantity |-> TradeQty(orders[cur], orders[r])]
             T == [buy : Ids, sell : Ids, price : Prices, quantity : Quantity]
  <2>3. trades' = Append(trades, t)
    BY <2>2 DEF Trade
  <2>4. cur \in Ids /\ r \in active /\ cur # None
    BY <2>2, FacingFacts, NoneAssumption DEF Trade, Submitted
  <2>5. t \in T /\ trades \in Seq(T)
    BY <2>2, <2>4, TradeFacts DEF Structure, TypeOK
  <2>6. t.buy \in {cur, r} /\ t.sell \in {cur, r}
    OBVIOUS
  <2> HIDE DEF t, T
  <2>7. trades'[Len(trades')] = t
    BY <2>3, <2>5, AppendProperties
  <2>8. r # None
    BY NoneAssumption
  <2> QED BY <2>4, <2>6, <2>7, <2>8 DEF CancelledNowhere
<1> QED BY <1>1, <1>2, <1>3, StructureInvariant, PTL DEF Spec, CancelledNeverTrades

-----------------------------------------------------------------------------
(* No order with quantity left is forgotten.  NothingLost is inductive by   *)
(* itself once the structure of the state is known: the only steps that     *)
(* take an order out of the places it may be in are those of a filled, a    *)
(* cancelled or a market order.                                             *)

LEMMA NextKeepsNothingLost ==
  ASSUME Structure, NothingLost, [Next]_vars
  PROVE  NothingLost'
<1>1. CASE \E id \in Ids, r \in Requests : HoldStop(id, r)
  <2>1. PICK id \in Ids, r \in Requests : HoldStop(id, r)
    BY <1>1
  <2>2. /\ Held' = Held \cup {id} /\ active' = active /\ cur' = cur
        /\ phase = "idle" /\ staged' = staged /\ batch' = batch
    BY <2>1, HoldStopFacts DEF HoldStop
  <2>3. Submitted' = Submitted \cup {id} /\ \A x \in Submitted : orders'[x] = orders[x]
    BY <2>1, ArrivalFacts DEF Submitted
  <2> QED BY <2>2, <2>3 DEF NothingLost, IsMarket
<1>2. CASE \E id \in Ids, r \in Requests : BeginMatch(id, r)
  <2>1. PICK id \in Ids, r \in Requests : BeginMatch(id, r)
    BY <1>2
  <2>2. /\ Held' = Held /\ active' = active /\ cur' = id
        /\ cur = None /\ phase' # "idle"
    BY <2>1 DEF BeginMatch, stopVars, Held, Structure, LoopState, InLoop
  <2>3. Submitted' = Submitted \cup {id} /\ \A x \in Submitted : orders'[x] = orders[x] /\ x # None
    BY <2>1, ArrivalFacts, NoneAssumption DEF Submitted
  <2> QED BY <2>2, <2>3 DEF NothingLost, IsMarket
<1>3. CASE \E id \in Ids : CancelOrder(id)
  <2>1. PICK id \in Ids : CancelOrder(id)
    BY <1>3
  <2>2. /\ Held' = Held /\ active' = active \ {id} /\ cur' = cur
        /\ staged' = staged /\ batch' = batch /\ phase' = phase
    BY <2>1 DEF CancelOrder, stopVars, Held
  <2>3. /\ Submitted' = Submitted /\ orders'[id].leaves = 0
        /\ \A x \in Submitted : x # id => orders'[x] = orders[x]
    BY <2>1, CancelFacts DEF CancelOf, Order, Submitted
  <2> QED BY <2>2, <2>3 DEF NothingLost, IsMarket
<1>4. CASE \E id \in Ids, a \in Amendments : ModifyOrder(id, a)
  <2>1. PICK id \in Ids, a \in Amendments : ModifyOrder(id, a)
    BY <1>4
  <2>2. /\ Held' = Held /\ active' = active /\ cur' = cur /\ id \in active
        /\ staged' = staged /\ batch' = batch /\ phase' = phase
    BY <2>1 DEF ModifyOrder, stopVars, Held
  <2>3. Submitted' = Submitted /\ \A x \in Submitted : x # id => orders'[x] = orders[x]
    BY <2>1, ModifyFacts DEF Submitted
  <2> QED BY <2>2, <2>3 DEF NothingLost, IsMarket
<1>5. CASE \E p \in Prices, r \in Ids : Trade(p, r)
  <2>1. PICK p \in Prices, r \in Ids : Trade(p, r)
    BY <1>5
  <2> DEFINE qty == TradeQty(orders[cur], orders[r])
  <2>2. /\ Held' = Held /\ active' = active /\ cur' = cur /\ phase' # "idle"
        /\ r \in active
    BY <2>1, FacingFacts DEF Trade, stopVars, Held
  <2>3. /\ Submitted' = Submitted
        /\ orders'[cur] = Fill(orders[cur], qty)
        /\ \A x \in Ids : x # cur /\ x # r => orders'[x] = orders[x]
    BY <2>1, TradeFacts
  <2> HIDE DEF qty
  <2> QED BY <2>2, <2>3 DEF NothingLost, IsMarket, Submitted
<1>6. CASE FireStop
  <2>1. PICK id \in ToSet(pending) :
           /\ id \in Ids /\ Held' = Held /\ Submitted' = Submitted
           /\ \A x \in Ids : x # id => orders'[x] = orders[x]
    BY <1>6, FireStopFacts
  <2>2. active' = active /\ cur' = cur /\ phase' # "idle" /\ id \in Held
    BY <1>6, <2>1 DEF FireStop, Held
  <2> QED BY <2>1, <2>2 DEF NothingLost, IsMarket, Submitted
<1>7. CASE SettleFilled
  <2>1. /\ Held' = Held /\ active' = active \ {Resting} /\ cur' = cur /\ phase' # "idle"
        /\ orders' = orders /\ orders[Resting].leaves = 0
    BY <1>7 DEF SettleFilled, stopVars, Held, IsFilled
  <2> QED BY <2>1 DEF NothingLost, IsMarket, Submitted
<1>8. CASE SettleIceberg
  <2>1. /\ Held' = Held /\ active' = active /\ cur' = cur /\ phase' # "idle"
    BY <1>8 DEF SettleIceberg, stopVars, Held
  <2>2. /\ Submitted' = Submitted /\ Resting \in active
        /\ \A x \in Ids : x # Resting => orders'[x] = orders[x]
    BY <1>8, SettleIcebergFacts
  <2> QED BY <2>1, <2>2 DEF NothingLost, IsMarket, Submitted
<1>9. CASE FinishMatch
  <2>1. /\ Held' = Held /\ orders' = orders /\ phase' # "idle" /\ active \subseteq active'
        /\ ~IsFilled(orders[cur]) /\ ~IsMarket(orders[cur]) => cur \in active'
    BY <1>9 DEF FinishMatch, AddToBook, stopVars, Held
  <2> QED BY <2>1 DEF NothingLost, IsMarket, IsFilled, Submitted
<1>10. CASE TakeBatch
  <2>1. /\ Held' = Held /\ orders' = orders /\ phase' # "idle"
        /\ active' = active /\ cur' = cur
    BY <1>10, TakeBatchFacts DEF TakeBatch, bookVars
  <2> QED BY <2>1 DEF NothingLost, IsMarket, Submitted
<1>11. CASE MatchStop
  <2>1. /\ Held' = Held \ {cur'} /\ orders' = orders /\ phase' # "idle" /\ active' = active
        /\ cur = None
    BY <1>11, MatchStopFacts DEF MatchStop, bookVars, Structure, LoopState, InLoop
  <2>2. \A x \in Submitted : x # None
    BY NoneAssumption DEF Submitted
  <2> QED BY <2>1, <2>2 DEF NothingLost, IsMarket, Submitted
<1>12. CASE Quiet
  <2>1. phase' = "idle" => staged' = <<>> /\ batch' = <<>>
    BY <1>12 DEF Quiet, TriggersDone, SettlePartial, EndMatch, SkipEmpty, Facing,
       NothingLost, vars, stopVars
  <2> QED BY <1>12, <2>1, QuietFacts DEF NothingLost, IsMarket
<1> QED BY <1>1, <1>2, <1>3, <1>4, <1>5, <1>6, <1>7, <1>8, <1>9, <1>10, <1>11, <1>12,
           StepCases

(* Whatever is left of a limit order, an iceberg or a stop is pending,     *)
(* staged, in the batch, being matched or active, and when the lock is     *)
(* free no stop is half way through the pipeline.                          *)
THEOREM NoOrderForgotten == Spec => []NothingLost
<1>1. Init => NothingLost
  BY DEF Init, NothingLost, Submitted
<1>2. Structure /\ NothingLost /\ [Next]_vars => NothingLost'
  BY NextKeepsNothingLost
<1> QED BY <1>1, <1>2, StructureInvariant, PTL DEF Spec

-----------------------------------------------------------------------------
(* What each step makes of the levels, as sets of orders. *)

(* The orders of the levels after a step that only takes order x out. *)
OnlyLeaves(x) ==
  \A s \in Sides, p \in Prices :
    /\ ToSet(level'[s][p]) \subseteq ToSet(level[s][p])
    /\ \A id \in ToSet(level[s][p]) : id # x => id \in ToSet(level'[s][p])

LEMMA SkipEmptyLeaves ==
  ASSUME Structure, NEW p \in Prices, NEW r \in Ids, SkipEmpty(p, r)
  PROVE  OnlyLeaves(r)
<1> DEFINE opp == Opposite(orders[cur].side)
<1>1. opp \in Sides /\ level[opp][p] # <<>> /\ PopFront(opp, p) /\ r = Head(level[opp][p])
  BY FacingFacts DEF SkipEmpty
<1>2. Deques(level, listed)
  BY StructureFacts
<1> HIDE DEF opp
<1>3. /\ Deques(level', listed')
      /\ Head(level[opp][p]) \in ToSet(level[opp][p])
      /\ \A t \in Sides, q \in Prices :
           ToSet(level'[t][q]) = IF t = opp /\ q = p
                                 THEN ToSet(level[t][q]) \ {Head(level[opp][p])}
                                 ELSE ToSet(level[t][q])
  BY <1>1, <1>2, PopFrontFacts
<1> QED BY <1>1, <1>3 DEF OnlyLeaves

LEMMA SettleFilledLeaves ==
  ASSUME Structure, SettleFilled
  PROVE  OnlyLeaves(Resting)
<1> DEFINE s == RestingSide
           p == LastTrade.price
<1>1. s \in Sides /\ p \in Prices /\ level[s][p] # <<>> /\ PopFront(s, p)
  BY RestingFacts DEF SettleFilled
<1>2. Deques(level, listed)
  BY StructureFacts
<1>3. Resting = Head(level[s][p])
  BY DEF Resting
<1> HIDE DEF s, p
<1>4. /\ Deques(level', listed')
      /\ Head(level[s][p]) \in ToSet(level[s][p])
      /\ \A t \in Sides, q \in Prices :
           ToSet(level'[t][q]) = IF t = s /\ q = p
                                 THEN ToSet(level[t][q]) \ {Head(level[s][p])}
                                 ELSE ToSet(level[t][q])
  BY <1>1, <1>2, PopFrontFacts
<1> QED BY <1>3, <1>4 DEF OnlyLeaves

LEMMA CancelLeaves ==
  ASSUME Structure, NEW id \in Ids, CancelOrder(id)
  PROVE  OnlyLeaves(id)
<1>1. /\ orders[id].side \in Sides /\ orders[id].price \in Prices
      /\ \A s \in Sides, q \in Prices :
           id \in ToSet(level[s][q]) => s = orders[id].side /\ q = orders[id].price
  BY StructureFacts DEF CancelOrder, Structure, Placed, Order
<1>2. \A s \in Sides, q \in Prices : ToSet(level'[s][q]) = ToSet(level[s][q]) \ {id}
  BY <1>1, StructureFacts, LevelWithoutFacts DEF CancelOrder
<1> QED BY <1>2 DEF OnlyLeaves

-----------------------------------------------------------------------------
(* An order that active_ holds and no level does offers nothing. *)

(* The levels, active_ and the orders in it stay as they are. *)
SameBook ==
  level' = level /\ active' = active /\ \A id \in active : orders'[id] = orders[id]

LEMMA QuietBook ==
  ASSUME Structure, TriggersDone \/ SettlePartial \/ EndMatch \/ UNCHANGED vars \/ TakeBatch
                    \/ MatchStop
  PROVE  SameBook
BY DEF SameBook, TriggersDone, SettlePartial, EndMatch, TakeBatch, MatchStop, vars, bookVars

LEMMA ArrivalBook ==
  ASSUME Structure, NEW id \in Ids, NEW r \in Requests, HoldStop(id, r) \/ BeginMatch(id, r)
  PROVE  SameBook
<1>1. level' = level /\ active' = active
  BY DEF HoldStop, BeginMatch
<1>2. \A x \in active : x \in Ids /\ x # id
  BY ArrivalFacts, StructureFacts
<1>3. \A x \in Ids : x # id => orders'[x] = orders[x]
  BY ArrivalFacts
<1> QED BY <1>1, <1>2, <1>3 DEF SameBook

LEMMA FireStopBook ==
  ASSUME Structure, FireStop
  PROVE  SameBook
<1>1. level' = level /\ active' = active
  BY DEF FireStop
<1>2. PICK id \in ToSet(pending) : \A x \in Ids : x # id => orders'[x] = orders[x]
  BY FireStopFacts
<1>3. \A x \in active : x \in Ids /\ x # id
  BY <1>2, StructureFacts DEF Structure, OnePlaceEach, Held
<1> QED BY <1>1, <1>2, <1>3 DEF SameBook

LEMMA NextKeepsGhosts ==
  ASSUME Structure, GhostsOfferNothing, [Next]_vars
  PROVE  GhostsOfferNothing'
<1>1. CASE SameBook
  BY <1>1 DEF SameBook, GhostsOfferNothing, InLevel, Visible, IsIceberg
<1>2. CASE \E id \in Ids : CancelOrder(id)
  <2>1. PICK id \in Ids : CancelOrder(id)
    BY <1>2
  <2>2. OnlyLeaves(id)
    BY <2>1, CancelLeaves
  <2>3. active' = active \ {id} /\ \A x \in active : x # id => orders'[x] = orders[x]
    BY <2>1, CancelFacts, StructureFacts DEF CancelOrder
  <2>4. \A x \in active : orders[x].side \in Sides /\ orders[x].price \in Prices
    BY StructureFacts DEF Structure, Placed, Order
  <2> QED BY <2>2, <2>3, <2>4 DEF GhostsOfferNothing, InLevel, OnlyLeaves, Visible, IsIceberg
<1>3. CASE \E id \in Ids, a \in Amendments : ModifyOrder(id, a)
  <2>1. PICK id \in Ids, a \in Amendments : ModifyOrder(id, a)
    BY <1>3
  <2> DEFINE s == orders[id].side
  <2>2. /\ s \in Sides /\ a.price \in Prices
        /\ \A t \in Sides, q \in Prices :
             ToSet(level'[t][q]) =
               (ToSet(level[t][q]) \ {id}) \cup (IF t = s /\ q = a.price THEN {id} ELSE {})
    BY <2>1, AmendingFacts
  <2>3. /\ active' = active
        /\ \A x \in active : x # id => orders'[x] = orders[x]
        /\ orders'[id].side = s /\ orders'[id].price = a.price
    <3>1. /\ orders'[id] = PlainOrder(s, orders[id].kind, a.price, a.quantity)
          /\ \A x \in Ids : x # id => orders'[x] = orders[x]
      BY <2>1, ModifyFacts
    <3>2. active' = active /\ \A x \in active : x \in Ids
      BY <2>1, StructureFacts DEF ModifyOrder
    <3> QED BY <3>1, <3>2 DEF PlainOrder
  <2>4. \A x \in active : orders[x].side \in Sides /\ orders[x].price \in Prices
    BY StructureFacts DEF Structure, Placed, Order
  <2> HIDE DEF s
  <2>5. InLevel(id)'
    BY <2>2, <2>3 DEF InLevel
  <2>6. ASSUME NEW x \in active, x # id, InLevel(x)
        PROVE  InLevel(x)'
    <3>1. orders[x].side \in Sides /\ orders[x].price \in Prices
      BY <2>4
    <3>2. x \in ToSet(level'[orders[x].side][orders[x].price])
      BY <2>2, <2>6, <3>1 DEF InLevel
    <3>3. orders'[x] = orders[x]
      BY <2>3, <2>6
    <3> QED BY <3>2, <3>3 DEF InLevel
  <2> QED BY <2>3, <2>5, <2>6 DEF GhostsOfferNothing, Visible, IsIceberg
<1>4. CASE \E p \in Prices, r \in Ids : SkipEmpty(p, r)
  <2>1. PICK p \in Prices, r \in Ids : SkipEmpty(p, r)
    BY <1>4
  <2>2. OnlyLeaves(r) /\ active' = active /\ orders' = orders /\ Visible(orders[r]) = 0
    BY <2>1, SkipEmptyLeaves DEF SkipEmpty
  <2>3. \A x \in active : orders[x].side \in Sides /\ orders[x].price \in Prices
    BY StructureFacts DEF Structure, Placed, Order
  <2> QED BY <2>2, <2>3 DEF GhostsOfferNothing, InLevel, OnlyLeaves, Visible, IsIceberg
<1>5. CASE \E p \in Prices, r \in Ids : Trade(p, r)
  <2>1. PICK p \in Prices, r \in Ids : Trade(p, r)
    BY <1>5
  <2>2. /\ level' = level /\ active' = active /\ cur \notin active
        /\ \A x \in Ids : x # cur /\ x # r => orders'[x] = orders[x]
        /\ FilledFrom(orders[r], orders'[r])
        /\ r \in ToSet(level[orders[r].side][orders[r].price])
    <3>1. level' = level /\ active' = active /\ cur \notin active
      BY <2>1 DEF Trade, Structure, OnePlaceEach
    <3>2. /\ \A x \in Ids : x # cur /\ x # r => orders'[x] = orders[x]
          /\ FilledFrom(orders[r], orders'[r])
      BY <2>1, TradeFacts
    <3>3. r \in ToSet(level[orders[r].side][orders[r].price])
      BY <2>1, FacingFacts, StructureFacts DEF Trade
    <3> QED BY <3>1, <3>2, <3>3
  <2>3. InLevel(r)'
    BY <2>2 DEF InLevel, FilledFrom, SameTerms
  <2>4. \A x \in active : x # r => orders'[x] = orders[x]
    BY <2>2, StructureFacts
  <2> QED BY <2>2, <2>3, <2>4 DEF GhostsOfferNothing, InLevel, Visible, IsIceberg
<1>6. CASE SettleFilled
  <2>1. OnlyLeaves(Resting) /\ active' = active \ {Resting} /\ orders' = orders
    BY <1>6, SettleFilledLeaves DEF SettleFilled
  <2>2. \A x \in active : orders[x].side \in Sides /\ orders[x].price \in Prices
    BY StructureFacts DEF Structure, Placed, Order
  <2> QED BY <2>1, <2>2 DEF GhostsOfferNothing, InLevel, OnlyLeaves, Visible, IsIceberg
<1>7. CASE SettleIceberg
  <2>1. PICK id \in Ids :
           /\ id = Resting
           /\ \A x \in Ids : x # id => orders'[x] = orders[x]
           /\ SameTerms(orders[id], orders'[id])
    BY <1>7, SettleIcebergFacts
  <2>2. id \in ToSet(level[orders[id].side][orders[id].price])
    BY <1>7, <2>1, RestingFacts, StructureFacts DEF SettleIceberg
  <2>3. level' = level /\ active' = active /\ \A x \in active : x \in Ids
    BY <1>7, StructureFacts DEF SettleIceberg
  <2>4. InLevel(id)'
    BY <2>1, <2>2, <2>3 DEF InLevel, SameTerms
  <2> QED BY <2>1, <2>3, <2>4 DEF GhostsOfferNothing, InLevel, Visible, IsIceberg
<1>8. CASE FinishMatch
  <2>1. orders' = orders
    BY <1>8 DEF FinishMatch
  <2>2. CASE ~IsFilled(orders[cur]) /\ ~IsMarket(orders[cur])
    <3> DEFINE o == orders[cur]
    <3>1. /\ active' = active \cup {cur}
          /\ \A t \in Sides, q \in Prices :
               ToSet(level'[t][q]) =
                 ToSet(level[t][q]) \cup (IF t = o.side /\ q = o.price THEN {cur} ELSE {})
          /\ o.side \in Sides /\ o.price \in Prices
      BY <1>8, <2>2, BookingFacts
    <3>2. \A x \in active : orders[x].side \in Sides /\ orders[x].price \in Prices
      BY StructureFacts DEF Structure, Placed, Order
    <3>3. cur \in ToSet(level'[o.side][o.price])
      BY <3>1
    <3>4. \A x \in active : InLevel(x) => InLevel(x)'
      BY <2>1, <3>1, <3>2 DEF InLevel
    <3> QED BY <2>1, <3>1, <3>3, <3>4 DEF GhostsOfferNothing, InLevel, Visible, IsIceberg
  <2>3. CASE ~(~IsFilled(orders[cur]) /\ ~IsMarket(orders[cur]))
    BY <1>8, <2>1, <2>3 DEF FinishMatch, GhostsOfferNothing, InLevel, Visible, IsIceberg
  <2> QED BY <2>2, <2>3
<1>9. \/ SameBook
      \/ \E id \in Ids : CancelOrder(id)
      \/ \E id \in Ids, a \in Amendments : ModifyOrder(id, a)
      \/ \E p \in Prices, r \in Ids : SkipEmpty(p, r)
      \/ \E p \in Prices, r \in Ids : Trade(p, r)
      \/ SettleFilled \/ SettleIceberg \/ FinishMatch
  BY QuietBook, ArrivalBook, FireStopBook, StepCases DEF Quiet
<1> QED BY <1>1, <1>2, <1>3, <1>4, <1>5, <1>6, <1>7, <1>8, <1>9

(* The matching loops drop from a level, and leave in active_, only orders *)
(* that have nothing to offer, and an amended order is back in a level.    *)
THEOREM GhostsAreEmpty == Spec => []GhostsOfferNothing
<1>1. Init => GhostsOfferNothing
  BY DEF Init, GhostsOfferNothing
<1>2. Structure /\ GhostsOfferNothing /\ [Next]_vars => GhostsOfferNothing'
  BY NextKeepsGhosts
<1> QED BY <1>1, <1>2, StructureInvariant, PTL DEF Spec

-----------------------------------------------------------------------------
(* Only an amendment leaves the book crossed: the matching loops end when   *)
(* the best price of the other side is beyond the limit of the order, and   *)
(* then every price of the other side is.                                   *)

(* The matching loops left nothing that o could trade with. *)
LEMMA NothingCrosses ==
  ASSUME Structure, FinishMatch, ~IsFilled(orders[cur]), ~IsMarket(orders[cur]),
         NEW q \in Prices, level[Opposite(orders[cur].side)][q] # <<>>
  PROVE  ~Crosses(orders[cur], q)
<1> DEFINE o == orders[cur]
           opp == Opposite(o.side)
<1>1. /\ cur \in Submitted /\ o \in Order /\ o.side \in Sides /\ opp \in Sides
      /\ o.price \in Prices
  BY BookingFacts, OppositeFacts
<1>2. IsActive(o)
  BY <1>1 DEF Structure, Placed
<1>3. q \in listed[opp]
  BY <1>1 DEF Structure, BookIndexed
<1>4. PICK p \in listed[opp] : IsBest(opp, p) /\ ~Crosses(o, p)
  BY <1>2, <1>3 DEF FinishMatch
<1>5. q = p \/ Better(opp, p, q)
  BY <1>3, <1>4 DEF IsBest
<1>6. p \in Int /\ q \in Int /\ o.price \in Int
  BY <1>1, <1>4, PricesAssumption DEF Structure, TypeOK
<1>7. CASE o.side = "BUY"
  BY <1>4, <1>5, <1>6, <1>7 DEF Crosses, Better, Opposite
<1>8. CASE o.side = "SELL"
  BY <1>4, <1>5, <1>6, <1>8 DEF Crosses, Better, Opposite
<1> QED BY <1>1, <1>7, <1>8 DEF Sides

LEMMA NextKeepsCrossed ==
  ASSUME Structure, CrossedOnlyByModify, [Next]_vars
  PROVE  CrossedOnlyByModify'
<1> DEFINE Shrinks == /\ modified \subseteq modified'
                      /\ \A s \in Sides, p \in Prices :
                           ToSet(level'[s][p]) \subseteq ToSet(level[s][p])
<1>1. CASE Shrinks
  BY <1>1 DEF CrossedOnlyByModify, Sides
<1>2. CASE \E id \in Ids, a \in Amendments : ModifyOrder(id, a)
  <2>1. PICK id \in Ids, a \in Amendments : ModifyOrder(id, a)
    BY <1>2
  <2>2. modified' = modified \cup {id}
    BY <2>1 DEF ModifyOrder
  <2>3. \A s \in Sides, p \in Prices : \A x \in ToSet(level'[s][p]) :
          x = id \/ x \in ToSet(level[s][p])
    BY <2>1, AmendingFacts
  <2> QED BY <2>2, <2>3 DEF CrossedOnlyByModify, Sides
<1>3. CASE FinishMatch
  <2>1. CASE ~IsFilled(orders[cur]) /\ ~IsMarket(orders[cur])
    <3> DEFINE o == orders[cur]
    <3>1. /\ o.side \in Sides /\ o.price \in Prices
          /\ \A t \in Sides, q \in Prices :
               ToSet(level'[t][q]) =
                 ToSet(level[t][q]) \cup (IF t = o.side /\ q = o.price THEN {cur} ELSE {})
      BY <1>3, <2>1, BookingFacts
    <3>2. \A q \in Prices : level[Opposite(o.side)][q] # <<>> => ~Crosses(o, q)
      BY <1>3, <2>1, NothingCrosses
    <3>3. \A s \in Sides, q \in Prices : \A x \in ToSet(level[s][q]) : level[s][q] # <<>>
      BY DEF ToSet
    <3>4. modified' = modified
      BY <1>3 DEF FinishMatch, history
    <3> SUFFICES ASSUME NEW p \in Prices, NEW q \in Prices, p >= q,
                        NEW bid \in ToSet(level'["BUY"][p]),
                        NEW ask \in ToSet(level'["SELL"][q])
                 PROVE  bid \in modified \/ ask \in modified
      BY <3>4 DEF CrossedOnlyByModify
    <3>5. p \in Int /\ q \in Int /\ "BUY" \in Sides /\ "SELL" \in Sides
      BY PricesAssumption DEF Sides
    <3>6. CASE o.side = "BUY"
      <4>1. ask \in ToSet(level["SELL"][q])
        BY <3>1, <3>5, <3>6
      <4>2. ~Crosses(o, q)
        BY <3>2, <3>3, <3>5, <3>6, <4>1 DEF Opposite
      <4>3. p # o.price
        BY <2>1, <3>5, <3>6, <4>2 DEF Crosses
      <4>4. bid \in ToSet(level["BUY"][p])
        BY <3>1, <3>5, <4>3
      <4> QED BY <4>1, <4>4 DEF CrossedOnlyByModify
    <3>7. CASE o.side = "SELL"
      <4>1. bid \in ToSet(level["BUY"][p])
        BY <3>1, <3>5, <3>7
      <4>2. ~Crosses(o, p)
        BY <3>2, <3>3, <3>5, <3>7, <4>1 DEF Opposite
      <4>3. q # o.price
        BY <2>1, <3>5, <3>7, <4>2 DEF Crosses
      <4>4. ask \in ToSet(level["SELL"][q])
        BY <3>1, <3>5, <4>3
      <4> QED BY <4>1, <4>4 DEF CrossedOnlyByModify
    <3> QED BY <3>1, <3>6, <3>7 DEF Sides
  <2>2. CASE ~(~IsFilled(orders[cur]) /\ ~IsMarket(orders[cur]))
    BY <1>3, <2>2 DEF FinishMatch, history, CrossedOnlyByModify
  <2> QED BY <2>1, <2>2
<1>4. CASE \E id \in Ids : CancelOrder(id)
  BY <1>1, <1>4, CancelLeaves DEF OnlyLeaves, CancelOrder, history
<1>5. CASE \E p \in Prices, r \in Ids : SkipEmpty(p, r)
  BY <1>1, <1>5, SkipEmptyLeaves DEF OnlyLeaves, SkipEmpty, history
<1>6. CASE SettleFilled
  BY <1>1, <1>6, SettleFilledLeaves DEF OnlyLeaves, SettleFilled, history
<1>7. CASE level' = level /\ modified' = modified
  BY <1>1, <1>7
<1>8. \/ level' = level /\ modified' = modified
      \/ \E id \in Ids : CancelOrder(id)
      \/ \E id \in Ids, a \in Amendments : ModifyOrder(id, a)
      \/ \E p \in Prices, r \in Ids : SkipEmpty(p, r)
      \/ SettleFilled \/ FinishMatch
  BY StepCases DEF Quiet, HoldStop, BeginMatch, Trade, FireStop, TriggersDone, SettleIceberg,
     SettlePartial, TakeBatch, MatchStop, EndMatch, vars, bookVars, history
<1> QED BY <1>2, <1>3, <1>4, <1>5, <1>6, <1>7, <1>8

(* A bid at or above an ask rests in the book only if one of the two was   *)
(* put there by modifyOrder(), which books without matching.               *)
THEOREM CrossedByAmendmentsOnly == Spec => []CrossedOnlyByModify
<1>1. Init => CrossedOnlyByModify
  BY DEF Init, CrossedOnlyByModify, ToSet, Sides
<1>2. Structure /\ CrossedOnlyByModify /\ [Next]_vars => CrossedOnlyByModify'
  BY NextKeepsCrossed
<1> QED BY <1>1, <1>2, StructureInvariant, PTL DEF Spec

-----------------------------------------------------------------------------
(* No trade passes the trigger of a pending stop unnoticed. *)

Trades == [buy : Ids, sell : Ids, price : Prices, quantity : Quantity]

LEMMA NextKeepsNoMissedTrigger ==
  ASSUME Structure, NoMissedTrigger, [Next]_vars
  PROVE  NoMissedTrigger'
<1> DEFINE SamePending == /\ ToSet(pending') \subseteq ToSet(pending)
                          /\ \A id \in ToSet(pending') : orders'[id] = orders[id]
                          /\ placedAt' = placedAt
<1>0. ToSet(pending) \subseteq Submitted /\ Submitted \subseteq Ids /\ ToSet(pending) \subseteq Held
  BY StructureFacts DEF Held, Submitted
<1>1. CASE SamePending /\ trades' = trades /\ (phase = "triggers" => phase' = "triggers")
  BY <1>1 DEF NoMissedTrigger, ReachesTrigger
<1>2. CASE \E id \in Ids, r \in Requests : HoldStop(id, r)
  <2>1. PICK id \in Ids, r \in Requests : HoldStop(id, r)
    BY <1>2
  <2>2. /\ ToSet(pending') = ToSet(pending) \cup {id} /\ id \notin ToSet(pending)
        /\ \A x \in ToSet(pending) : orders'[x] = orders[x]
    BY <1>0, <2>1, HoldStopFacts, ArrivalFacts
  <2>3. /\ trades' = trades /\ phase = "idle"
        /\ placedAt' = [placedAt EXCEPT ![id] = Len(trades)] /\ placedAt \in [Ids -> Nat]
        /\ trades \in Seq(Trades)
    BY <2>1 DEF HoldStop, Structure, TypeOK, Trades
  <2>4. placedAt'[id] + 1 .. Len(trades') = {}
    BY <2>3
  <2>5. \A x \in ToSet(pending) : placedAt'[x] = placedAt[x]
    BY <1>0, <2>2, <2>3
  <2> QED BY <2>2, <2>3, <2>4, <2>5 DEF NoMissedTrigger, ReachesTrigger
<1>3. CASE \E id \in Ids, r \in Requests : BeginMatch(id, r)
  <2>1. PICK id \in Ids, r \in Requests : BeginMatch(id, r)
    BY <1>3
  <2>2. \A x \in ToSet(pending) : orders'[x] = orders[x]
    BY <1>0, <2>1, ArrivalFacts
  <2> QED BY <1>1, <2>1, <2>2 DEF BeginMatch, stopVars, history
<1>4. CASE \E id \in Ids : CancelOrder(id)
  <2>1. PICK id \in Ids : CancelOrder(id)
    BY <1>4
  <2>2. \A x \in ToSet(pending) : orders'[x] = orders[x]
    BY <1>0, <2>1, CancelFacts
  <2> QED BY <1>1, <2>1, <2>2 DEF CancelOrder, stopVars, history
<1>5. CASE \E id \in Ids, a \in Amendments : ModifyOrder(id, a)
  <2>1. PICK id \in Ids, a \in Amendments : ModifyOrder(id, a)
    BY <1>5
  <2>2. \A x \in ToSet(pending) : orders'[x] = orders[x]
    BY <1>0, <2>1, ModifyFacts
  <2> QED BY <1>1, <2>1, <2>2 DEF ModifyOrder, stopVars
<1>6. CASE \E p \in Prices, r \in Ids : Trade(p, r)
  <2>1. PICK p \in Prices, r \in Ids : Trade(p, r)
    BY <1>6
  <2>2. \A x \in ToSet(pending) : orders'[x] = orders[x]
    <3>1. r \in active /\ cur \notin Held /\ Held \cap active = {}
      BY <2>1, FacingFacts DEF Trade, Structure, OnePlaceEach
    <3> QED BY <1>0, <2>1, <3>1, TradeFacts
  <2>3. PICK t : trades' = Append(trades, t)
    BY <2>1 DEF Trade
  <2>4. trades \in Seq(Trades)
    BY DEF Structure, TypeOK, Trades
  <2>5. Len(trades') = Len(trades) + 1 /\ \A k \in 1 .. Len(trades) : trades'[k] = trades[k]
    BY <2>3, <2>4
  <2>6. /\ phase = "match" /\ phase' = "triggers" /\ pending' = pending
        /\ placedAt' = placedAt /\ placedAt \in [Ids -> Nat]
    BY <2>1 DEF Trade, Facing, stopVars, Structure, TypeOK
  <2> SUFFICES ASSUME NEW x \in ToSet(pending), NEW k \in placedAt[x] + 1 .. Len(trades'),
                      ReachesTrigger(orders[x], trades'[k].price)
               PROVE  k = Len(trades')
    BY <2>2, <2>6 DEF NoMissedTrigger, ReachesTrigger
  <2>7. placedAt[x] \in Nat /\ Len(trades) \in Nat
    BY <1>0, <2>4, <2>6
  <2>8. CASE k \in placedAt[x] + 1 .. Len(trades)
    <3>1. trades'[k] = trades[k]
      BY <2>5, <2>7, <2>8
    <3> QED BY <2>6, <2>8, <3>1 DEF NoMissedTrigger
  <2>9. CASE k \notin placedAt[x] + 1 .. Len(trades)
    BY <2>5, <2>7, <2>9
  <2> QED BY <2>8, <2>9
<1>7. CASE FireStop
  <2>1. PICK id \in ToSet(pending) :
          /\ ToSet(pending') = ToSet(pending) \ {id}
          /\ \A x \in Ids : x # id => orders'[x] = orders[x]
    BY <1>7, FireStopFacts
  <2>2. SamePending
    BY <1>0, <1>7, <2>1 DEF FireStop, history
  <2> QED BY <1>1, <1>7, <2>2 DEF FireStop
<1>8. CASE TriggersDone
  <2>1. UNCHANGED <<orders, pending, trades, placedAt>> /\ phase = "triggers"
    BY <1>8 DEF TriggersDone, bookVars, stopVars, history
  <2>2. \A x \in ToSet(pending) : ~Fires(orders[x], LastTrade.price)
    BY <1>8 DEF TriggersDone, ToSet
  <2>3. \A x \in ToSet(pending) : ~ReachesTrigger(orders[x], LastTrade.price)
    BY <2>2 DEF Fires, ReachesTrigger
  <2> QED BY <2>1, <2>3 DEF NoMissedTrigger, ReachesTrigger, LastTrade
<1>9. CASE SettleIceberg
  <2>1. \A x \in ToSet(pending) : orders'[x] = orders[x]
    BY <1>0, <1>9, SettleIcebergFacts DEF Structure, OnePlaceEach
  <2> QED BY <1>1, <1>9, <2>1 DEF SettleIceberg, stopVars, history
<1>10. CASE /\ UNCHANGED <<orders, pending, trades, placedAt>>
            /\ phase = "triggers" => phase' = "triggers"
  BY <1>1, <1>10
<1>11. \/ \E p \in Prices, r \in Ids : Trade(p, r)
       \/ \E id \in Ids, r \in Requests : HoldStop(id, r)
       \/ \E id \in Ids, r \in Requests : BeginMatch(id, r)
       \/ \E id \in Ids : CancelOrder(id)
       \/ \E id \in Ids, a \in Amendments : ModifyOrder(id, a)
       \/ FireStop \/ TriggersDone \/ SettleIceberg
       \/ /\ UNCHANGED <<orders, pending, trades, placedAt>>
          /\ phase = "triggers" => phase' = "triggers"
  BY StepCases DEF Quiet, SkipEmpty, Facing, SettleFilled, SettlePartial, FinishMatch, TakeBatch,
     MatchStop, EndMatch, vars, bookVars, stopVars, history
<1> QED BY <1>1, <1>2, <1>3, <1>4, <1>5, <1>6, <1>7, <1>8, <1>9, <1>10, <1>11

(* While a stop is pending no trade reaches its trigger without            *)
(* checkStopTriggers() taking the stop out before the next trade.          *)
THEOREM EveryTriggerSeen == Spec => []NoMissedTrigger
<1>1. Init => NoMissedTrigger
  BY DEF Init, NoMissedTrigger, ToSet
<1>2. Structure /\ NoMissedTrigger /\ [Next]_vars => NoMissedTrigger'
  BY NextKeepsNoMissedTrigger
<1> QED BY <1>1, <1>2, StructureInvariant, PTL DEF Spec

-----------------------------------------------------------------------------
(* A trade of nothing is the only trade of an order submitted with nothing. *)

LEMMA TradesKept ==
  ASSUME trades' = trades, NEW x
  PROVE  TradesOf(x)' = TradesOf(x)
BY DEF TradesOf

(* The steps that record no trade, make no order object and amend none. *)
LEMMA KeepEmptyOrders ==
  ASSUME Structure, EmptyOrders, OnlyEmptyOrdersTradeNothing,
         trades' = trades, modified' = modified, Submitted' = Submitted,
         \A x \in Submitted :
           /\ orders'[x].quantity = orders[x].quantity
           /\ \/ orders'[x].leaves = orders[x].leaves /\ orders'[x].status = orders[x].status
              \/ IsFilled(orders'[x]) /\ ~IsActive(orders'[x]),
         \A x \in active' : x \in active \/ (x = cur /\ ~IsFilled(orders[x])),
         Held' \cup {cur'} \subseteq Held \cup {cur, None}
  PROVE  EmptyOrders' /\ OnlyEmptyOrdersTradeNothing'
<1>1. None \notin Submitted
  BY NoneAssumption DEF Submitted
<1>2. modified' \subseteq Submitted' /\ modified' \cap (Held' \cup {cur'}) = {}
  BY <1>1 DEF EmptyOrders
<1>3. \A x \in Submitted' :
        IsActive(orders'[x]) /\ IsFilled(orders'[x]) => orders'[x].quantity = 0
  BY DEF EmptyOrders, IsActive, IsFilled
<1>4. ASSUME NEW x \in Submitted' \ modified', orders'[x].quantity = 0
      PROVE  /\ IsFilled(orders'[x]) /\ x \notin active'
             /\ IsActive(orders'[x]) => TradesOf(x)' = {}
  <2>1. /\ IsFilled(orders[x]) /\ x \notin active
        /\ IsActive(orders[x]) => TradesOf(x) = {}
    BY <1>4 DEF EmptyOrders
  <2>2. TradesOf(x)' = TradesOf(x)
    BY TradesKept
  <2> QED BY <1>4, <2>1, <2>2 DEF IsActive, IsFilled
<1>5. EmptyOrders'
  BY <1>2, <1>3, <1>4 DEF EmptyOrders
<1>6. OnlyEmptyOrdersTradeNothing'
  <2> SUFFICES ASSUME NEW k \in DOMAIN trades, trades[k].quantity = 0
               PROVE  \E id \in {trades[k].buy, trades[k].sell} :
                        orders'[id].quantity = 0 /\ id \notin modified /\ TradesOf(id)' = {k}
    BY DEF OnlyEmptyOrdersTradeNothing
  <2>1. PICK id \in {trades[k].buy, trades[k].sell} :
          orders[id].quantity = 0 /\ id \notin modified /\ TradesOf(id) = {k}
    BY DEF OnlyEmptyOrdersTradeNothing
  <2>2. id \in Submitted
    BY DEF EmptyOrders
  <2>3. TradesOf(id)' = {k}
    BY <2>1, TradesKept
  <2> QED BY <2>1, <2>2, <2>3
<1> QED BY <1>5, <1>6

(* The steps that make one order object, which traded nothing so far. *)
LEMMA MakeEmptyOrders ==
  ASSUME Structure, EmptyOrders, OnlyEmptyOrdersTradeNothing, NEW id \in Ids,
         trades' = trades,
         orders'[id].leaves = orders'[id].quantity,
         \A x \in Ids : x # id => orders'[x] = orders[x],
         Submitted' = Submitted \cup {id},
         active' = active,
         \/ /\ modified' = modified /\ id \notin Submitted
            /\ Held' \cup {cur'} \subseteq Held \cup {cur, id}
         \/ /\ modified' = modified \cup {id} /\ id \in active /\ id \notin Held \cup {cur}
            /\ Held' = Held /\ cur' = cur
  PROVE  EmptyOrders' /\ OnlyEmptyOrdersTradeNothing'
<1>1. active \subseteq Submitted /\ Submitted \subseteq Ids
  BY StructureFacts
<1>2. modified' \subseteq Submitted' /\ modified' \cap (Held' \cup {cur'}) = {}
  BY DEF EmptyOrders
<1>3. \A x \in Submitted' :
        IsActive(orders'[x]) /\ IsFilled(orders'[x]) => orders'[x].quantity = 0
  BY <1>1 DEF EmptyOrders, IsFilled
<1>4. ASSUME NEW x \in Submitted' \ modified', orders'[x].quantity = 0
      PROVE  /\ IsFilled(orders'[x]) /\ x \notin active'
             /\ IsActive(orders'[x]) => TradesOf(x)' = {}
  <2>1. TradesOf(x)' = TradesOf(x)
    BY TradesKept
  <2>2. CASE x = id
    <3>1. id \notin Submitted
      BY <1>4, <2>2
    <3>2. TradesOf(id) = {}
      BY <3>1 DEF EmptyOrders, TradesOf
    <3> QED BY <1>1, <1>4, <2>1, <2>2, <3>1, <3>2 DEF IsFilled
  <2>3. CASE x # id
    <3>1. x \in Submitted \ modified /\ orders'[x] = orders[x]
      BY <1>1, <1>4, <2>3
    <3> QED BY <1>4, <2>1, <3>1 DEF EmptyOrders
  <2> QED BY <2>2, <2>3
<1>5. {trades'[k].buy : k \in DOMAIN trades'} \cup {trades'[k].sell : k \in DOMAIN trades'}
        \subseteq Submitted'
  BY DEF EmptyOrders
<1>6. EmptyOrders'
  BY <1>2, <1>3, <1>4, <1>5 DEF EmptyOrders
<1>7. OnlyEmptyOrdersTradeNothing'
  <2> SUFFICES ASSUME NEW k \in DOMAIN trades, trades[k].quantity = 0
               PROVE  \E x \in {trades[k].buy, trades[k].sell} :
                        orders'[x].quantity = 0 /\ x \notin modified' /\ TradesOf(x)' = {k}
    BY DEF OnlyEmptyOrdersTradeNothing
  <2>1. PICK x \in {trades[k].buy, trades[k].sell} :
          orders[x].quantity = 0 /\ x \notin modified /\ TradesOf(x) = {k}
    BY DEF OnlyEmptyOrdersTradeNothing
  <2>2. x \in Submitted /\ x \notin active
    BY <2>1 DEF EmptyOrders
  <2>3. x # id
    BY <2>2
  <2>4. TradesOf(x)' = {k}
    BY <2>1, TradesKept
  <2> QED BY <1>1, <2>1, <2>2, <2>3, <2>4
<1> QED BY <1>6, <1>7

LEMMA NewOrderMade ==
  ASSUME NEW r \in Requests
  PROVE  NewOrder(r).leaves = NewOrder(r).quantity
<1>1. r.kind \in Kinds
  BY RequestsAssumption DEF Request
<1>2. \A s, k, p, q : PlainOrder(s, k, p, q).leaves = PlainOrder(s, k, p, q).quantity
  BY DEF PlainOrder
<1>3. CASE r.kind = "LIMIT" \/ r.kind = "MARKET"
  BY <1>2, <1>3 DEF NewOrder
<1>4. CASE r.kind = "ICEBERG"
  <2>1. NewOrder(r) = IcebergOrder(r.side, r.price, r.quantity, r.display)
    BY <1>4 DEF NewOrder
  <2> QED BY <2>1 DEF IcebergOrder, PlainOrder
<1>5. CASE r.kind = "STOP_LOSS"
  <2>1. NewOrder(r) = StopLossOrder(r.side, r.trigger, r.price, r.quantity)
    BY <1>5 DEF NewOrder
  <2> QED BY <2>1 DEF StopLossOrder, PlainOrder
<1> QED BY <1>1, <1>3, <1>4, <1>5 DEF Kinds

(* A trade with a resting order that offers something is of nothing only if *)
(* the incoming order has nothing left, so was submitted with nothing; the *)
(* trade finishes it.                                                      *)
LEMMA TradeKeepsEmptyOrders ==
  ASSUME Structure, EmptyOrders, OnlyEmptyOrdersTradeNothing,
         NEW p \in Prices, NEW r \in Ids, Trade(p, r)
  PROVE  EmptyOrders' /\ OnlyEmptyOrdersTradeNothing'
<1> DEFINE qty == TradeQty(orders[cur], orders[r])
           last == Len(trades) + 1
<1>1. /\ cur \in Submitted /\ orders[cur] \in Order /\ IsActive(orders[cur]) /\ cur \in Ids
      /\ r \in Submitted /\ orders[r] \in Order /\ r \in active /\ r # cur
      /\ Visible(orders[r]) # 0
  <2>1. Facing(p, r) /\ Visible(orders[r]) # 0
    BY DEF Trade
  <2>2. IsActive(orders[cur])
    BY <2>1 DEF Facing
  <2> QED BY <2>1, <2>2, FacingFacts, StructureFacts
<1>2. /\ qty \in Quantity
      /\ orders'[cur] = Fill(orders[cur], qty) /\ orders'[r] = Fill(orders[r], qty)
      /\ \A x \in Ids : x # cur /\ x # r => orders'[x] = orders[x]
      /\ Submitted' = Submitted
  BY TradeFacts
<1>3. qty = 0 <=> IsFilled(orders[cur])
  <2>1. orders[cur].leaves \in Int /\ Visible(orders[r]) \in Int
        /\ 0 <= orders[cur].leaves /\ 0 <= Visible(orders[r])
    BY <1>1, QuantityFacts DEF Order, Visible
  <2>2. /\ qty \in {orders[cur].leaves, Visible(orders[r])}
        /\ qty <= orders[cur].leaves /\ qty <= Visible(orders[r])
    BY <2>1, MinOfTwo DEF TradeQty
  <2> QED BY <1>1, <2>1, <2>2 DEF IsFilled
<1>4. PICK t : /\ trades' = Append(trades, t) /\ t.quantity = qty
               /\ {t.buy, t.sell} = {cur, r}
  BY DEF Trade
<1> HIDE DEF qty
<1>5. /\ DOMAIN trades' = DOMAIN trades \cup {last} /\ last \notin DOMAIN trades
      /\ trades'[last] = t /\ \A k \in DOMAIN trades : trades'[k] = trades[k]
  <2>1. trades \in Seq(Trades)
    BY DEF Structure, TypeOK, Trades
  <2>2. DOMAIN trades = 1 .. Len(trades) /\ Len(trades) \in Nat
    BY <2>1
  <2>3. Len(trades') = last /\ DOMAIN trades' = 1 .. last
    BY <1>4, <2>1
  <2>4. trades'[last] = t /\ \A k \in 1 .. Len(trades) : trades'[k] = trades[k]
    BY <1>4, <2>1
  <2> QED BY <2>2, <2>3, <2>4
<1>6. active' = active /\ modified' = modified /\ Held' = Held /\ cur' = cur
  BY DEF Trade, stopVars, Held
<1>7. \A x \in {cur, r} :
        /\ orders'[x].quantity = orders[x].quantity
        /\ ~(IsActive(orders'[x]) /\ IsFilled(orders'[x]))
        /\ IsFilled(orders[x]) => IsFilled(orders'[x])
  <2>1. ASSUME NEW x \in {cur, r}
        PROVE  /\ orders'[x].quantity = orders[x].quantity
               /\ ~(IsActive(orders'[x]) /\ IsFilled(orders'[x]))
               /\ IsFilled(orders[x]) => IsFilled(orders'[x])
    <3>1. orders'[x] = Fill(orders[x], qty) /\ orders[x] \in Order
      BY <1>1, <1>2
    <3>2. qty \in Int /\ 0 <= qty
      BY <1>2, QuantityFacts
    <3> QED BY <1>2, <3>1, <3>2, FillTyped DEF SameTerms, IsActive, IsFilled
  <2> QED BY <2>1
<1>8. cur \notin modified /\ r \notin {x \in Submitted \ modified : orders[x].quantity = 0}
  BY <1>1 DEF EmptyOrders
<1>9. \A x : x # cur /\ x # r => TradesOf(x)' = TradesOf(x)
  BY <1>4, <1>5 DEF TradesOf
<1>10. orders[cur].quantity = 0 => TradesOf(cur) = {} /\ IsFilled(orders[cur])
  BY <1>1, <1>8 DEF EmptyOrders
<1>11. EmptyOrders'
  <2>1. \A x \in Submitted :
          IsActive(orders'[x]) /\ IsFilled(orders'[x]) => orders'[x].quantity = 0
    BY <1>2, <1>7, StructureFacts DEF EmptyOrders
  <2>2. ASSUME NEW x \in Submitted \ modified, orders'[x].quantity = 0
        PROVE  /\ IsFilled(orders'[x]) /\ x \notin active
               /\ IsActive(orders'[x]) => TradesOf(x)' = {}
    <3>1. x \in Ids
      BY StructureFacts
    <3>2. CASE x = cur
      BY <1>7, <1>10, <2>2, <3>2, StructureFacts, <1>1 DEF EmptyOrders
    <3>3. CASE x = r
      BY <1>7, <1>8, <2>2, <3>3
    <3>4. CASE x # cur /\ x # r
      BY <1>2, <1>9, <2>2, <3>1, <3>4 DEF EmptyOrders
    <3> QED BY <3>2, <3>3, <3>4
  <2>3. \A k \in DOMAIN trades' : {trades'[k].buy, trades'[k].sell} \subseteq Submitted
    <3>1. {t.buy, t.sell} \subseteq Submitted
      BY <1>1, <1>4
    <3>2. \A k \in DOMAIN trades : {trades[k].buy, trades[k].sell} \subseteq Submitted
      BY DEF EmptyOrders
    <3> QED BY <1>5, <3>1, <3>2
  <2>4. modified \subseteq Submitted /\ modified \cap (Held \cup {cur}) = {}
    BY DEF EmptyOrders
  <2>5. /\ \A x \in Submitted' \ modified' : orders'[x].quantity = 0 =>
             /\ IsFilled(orders'[x]) /\ x \notin active'
             /\ IsActive(orders'[x]) => TradesOf(x)' = {}
    BY <1>2, <1>6, <2>2
  <2> QED BY <1>2, <1>6, <2>1, <2>3, <2>4, <2>5 DEF EmptyOrders
<1>12. OnlyEmptyOrdersTradeNothing'
  <2> SUFFICES ASSUME NEW k \in DOMAIN trades', trades'[k].quantity = 0
               PROVE  \E x \in {trades'[k].buy, trades'[k].sell} :
                        orders'[x].quantity = 0 /\ x \notin modified' /\ TradesOf(x)' = {k}
    BY DEF OnlyEmptyOrdersTradeNothing
  <2>1. CASE k = last
    <3>1. IsFilled(orders[cur])
      BY <1>3, <1>4, <1>5, <2>1
    <3>2. orders[cur].quantity = 0 /\ TradesOf(cur) = {}
      BY <1>1, <1>8, <3>1 DEF EmptyOrders
    <3>3. cur \in {t.buy, t.sell}
      BY <1>4
    <3>4. TradesOf(cur)' = {last}
      <4>1. \A j \in DOMAIN trades : cur \notin {trades[j].buy, trades[j].sell}
        BY <3>2 DEF TradesOf
      <4>2. \A j \in DOMAIN trades' :
              cur \in {trades'[j].buy, trades'[j].sell} <=> j = last
        BY <1>5, <3>3, <4>1
      <4>3. TradesOf(cur)' = {j \in DOMAIN trades' : cur \in {trades'[j].buy, trades'[j].sell}}
        BY <1>6 DEF TradesOf
      <4> HIDE DEF last
      <4> QED BY <1>5, <4>2, <4>3
    <3> QED BY <1>5, <1>6, <1>7, <1>8, <2>1, <3>2, <3>3, <3>4
  <2>2. CASE k # last
    <3>1. k \in DOMAIN trades /\ trades'[k] = trades[k]
      BY <1>5, <2>2
    <3>2. PICK x \in {trades[k].buy, trades[k].sell} :
            orders[x].quantity = 0 /\ x \notin modified /\ TradesOf(x) = {k}
      BY <3>1 DEF OnlyEmptyOrdersTradeNothing
    <3>3. x \in Submitted
      BY <3>1 DEF EmptyOrders
    <3>4. x # r /\ x # cur
      BY <1>8, <1>10, <3>2, <3>3
    <3>5. orders'[x] = orders[x] /\ TradesOf(x)' = {k}
      BY <1>2, <1>9, <3>2, <3>3, <3>4, StructureFacts
    <3> QED BY <1>6, <3>1, <3>2, <3>5
  <2> QED BY <2>1, <2>2
<1> QED BY <1>11, <1>12

LEMMA NextKeepsEmptyOrders ==
  ASSUME Structure, EmptyOrders, OnlyEmptyOrdersTradeNothing, [Next]_vars
  PROVE  EmptyOrders' /\ OnlyEmptyOrdersTradeNothing'
<1>1. ASSUME NEW id \in Ids, NEW r \in Requests, HoldStop(id, r) \/ BeginMatch(id, r)
      PROVE  EmptyOrders' /\ OnlyEmptyOrdersTradeNothing'
  <2>1. /\ id \notin Submitted /\ orders'[id] = NewOrder(r) /\ Submitted' = Submitted \cup {id}
        /\ \A x \in Ids : x # id => orders'[x] = orders[x]
    BY <1>1, ArrivalFacts
  <2>2. NewOrder(r).leaves = NewOrder(r).quantity
    BY NewOrderMade
  <2>3. active' = active /\ trades' = trades /\ modified' = modified
    BY <1>1 DEF HoldStop, BeginMatch, history
  <2>4. Held' \cup {cur'} \subseteq Held \cup {cur, id}
    <3>1. CASE HoldStop(id, r)
      BY <3>1, HoldStopFacts DEF HoldStop
    <3>2. CASE BeginMatch(id, r)
      BY <3>2 DEF BeginMatch, stopVars, Held
    <3> QED BY <1>1, <3>1, <3>2
  <2> QED BY <2>1, <2>2, <2>3, <2>4, MakeEmptyOrders
<1>2. ASSUME NEW id \in Ids, NEW a \in Amendments, ModifyOrder(id, a)
      PROVE  EmptyOrders' /\ OnlyEmptyOrdersTradeNothing'
  <2>1. /\ id \in active /\ id \in Submitted /\ id \notin Held /\ id # cur
        /\ orders'[id] = PlainOrder(orders[id].side, orders[id].kind, a.price, a.quantity)
        /\ \A x \in Ids : x # id => orders'[x] = orders[x]
        /\ Submitted' = Submitted
    BY <1>2, ModifyFacts
  <2>2. orders'[id].leaves = orders'[id].quantity
    BY <2>1 DEF PlainOrder
  <2>3. active' = active /\ trades' = trades /\ Held' = Held /\ cur' = cur
    BY <1>2 DEF ModifyOrder, PlainOrder, stopVars, Held
  <2>4. modified' = modified \cup {id}
    BY <1>2 DEF ModifyOrder, PlainOrder
  <2> QED BY <2>1, <2>2, <2>3, <2>4, MakeEmptyOrders
<1>3. ASSUME NEW id \in Ids, CancelOrder(id)
      PROVE  EmptyOrders' /\ OnlyEmptyOrdersTradeNothing'
  <2>1. /\ id \in Submitted /\ orders'[id] = CancelOf(orders[id])
        /\ \A x \in Ids : x # id => orders'[x] = orders[x]
        /\ Submitted' = Submitted
    BY <1>3, CancelFacts
  <2>2. /\ orders'[id].quantity = orders[id].quantity
        /\ IsFilled(orders'[id]) /\ ~IsActive(orders'[id])
    BY <2>1, StructureFacts DEF CancelOf, Order, IsFilled, IsActive
  <2>3. /\ active' \subseteq active /\ trades' = trades /\ modified' = modified
        /\ Held' = Held /\ cur' = cur
    BY <1>3 DEF CancelOrder, stopVars, history, Held
  <2>4. Submitted \subseteq Ids
    BY StructureFacts
  <2> QED BY <2>1, <2>2, <2>3, <2>4, KeepEmptyOrders
<1>4. ASSUME FireStop \/ SettleIceberg
      PROVE  EmptyOrders' /\ OnlyEmptyOrdersTradeNothing'
  <2>1. \A x \in Submitted : /\ orders'[x].quantity = orders[x].quantity
                             /\ orders'[x].leaves = orders[x].leaves
                             /\ orders'[x].status = orders[x].status
    <3>1. CASE FireStop
      <4>1. PICK id \in ToSet(pending) :
              /\ id \in Submitted
              /\ orders'[id] = [orders[id] EXCEPT !.triggered = TRUE]
              /\ \A x \in Ids : x # id => orders'[x] = orders[x]
        BY <3>1, FireStopFacts
      <4>2. \A o \in Order : LET n == [o EXCEPT !.triggered = TRUE] IN
              n.quantity = o.quantity /\ n.leaves = o.leaves /\ n.status = o.status
        BY DEF Order
      <4>3. /\ orders'[id].quantity = orders[id].quantity
            /\ orders'[id].leaves = orders[id].leaves
            /\ orders'[id].status = orders[id].status
        BY <4>1, <4>2, StructureFacts
      <4>4. \A x \in Submitted : x # id => orders'[x] = orders[x]
        BY <4>1, StructureFacts
      <4> QED BY <4>3, <4>4
    <3>2. CASE SettleIceberg
      <4>1. /\ orders'[Resting].quantity = orders[Resting].quantity
            /\ orders'[Resting].leaves = orders[Resting].leaves
            /\ orders'[Resting].status = orders[Resting].status
            /\ \A x \in Ids : x # Resting => orders'[x] = orders[x]
        BY <3>2, SettleIcebergFacts DEF SameTerms
      <4> QED BY <4>1, StructureFacts
    <3> QED BY <1>4, <3>1, <3>2
  <2>2. Submitted' = Submitted /\ Held' = Held
    BY <1>4, FireStopFacts, SettleIcebergFacts DEF SettleIceberg, stopVars, Held
  <2>3. active' = active /\ cur' = cur /\ trades' = trades /\ modified' = modified
    BY <1>4 DEF FireStop, SettleIceberg, history
  <2> QED BY <2>1, <2>2, <2>3, KeepEmptyOrders
<1>5. ASSUME SettleFilled \/ FinishMatch \/ TakeBatch \/ MatchStop \/ Quiet
      PROVE  EmptyOrders' /\ OnlyEmptyOrdersTradeNothing'
  <2>1. orders' = orders /\ trades' = trades /\ modified' = modified
    BY <1>5, QuietFacts
       DEF SettleFilled, FinishMatch, TakeBatch, MatchStop, bookVars, history
  <2>2. \A x \in active' : x \in active \/ (x = cur /\ ~IsFilled(orders[x]))
    BY <1>5, QuietFacts
       DEF SettleFilled, FinishMatch, AddToBook, TakeBatch, MatchStop, bookVars
  <2>3. Held' \cup {cur'} \subseteq Held \cup {cur, None}
    <3>1. CASE SettleFilled \/ FinishMatch
      BY <3>1 DEF SettleFilled, FinishMatch, stopVars, Held
    <3>2. CASE TakeBatch
      BY <3>2, TakeBatchFacts DEF TakeBatch
    <3>3. CASE MatchStop
      BY <3>3, MatchStopFacts
    <3>4. CASE Quiet
      BY <3>4, QuietFacts
    <3> QED BY <1>5, <3>1, <3>2, <3>3, <3>4
  <2>4. Submitted' = Submitted
    BY <2>1 DEF Submitted
  <2> QED BY <2>1, <2>2, <2>3, <2>4, KeepEmptyOrders
<1> QED BY <1>1, <1>2, <1>3, <1>4, <1>5, TradeKeepsEmptyOrders, StepCases

(* The loops record a trade of quantity 0 only for an order that was itself *)
(* submitted with quantity 0, and no second trade of that order.            *)
THEOREM NothingTradedOnce == Spec => []OnlyEmptyOrdersTradeNothing
<1>1. Init => EmptyOrders /\ OnlyEmptyOrdersTradeNothing
  BY DEF Init, EmptyOrders, OnlyEmptyOrdersTradeNothing, Submitted
<1>2. Structure /\ EmptyOrders /\ OnlyEmptyOrdersTradeNothing /\ [Next]_vars
        => EmptyOrders' /\ OnlyEmptyOrdersTradeNothing'
  BY NextKeepsEmptyOrders
<1> QED BY <1>1, <1>2, StructureInvariant, PTL DEF Spec

-----------------------------------------------------------------------------
(* What each step makes of the order within the levels, and of the kinds. *)

LEMMA PopFrontOrder ==
  ASSUME Deques(level, listed), NEW s \in Sides, NEW p \in Prices,
         level[s][p] # <<>>, PopFront(s, p),
         NEW t \in Sides, NEW q \in Prices, NEW x, NEW y, Behind(level'[t][q], x, y)
  PROVE  Behind(level[t][q], x, y)
<1>1. level'[t][q] = IF t = s /\ q = p THEN Tail(level[s][p]) ELSE level[t][q]
  BY DEF PopFront, Deques
<1>2. level[s][p] \in Seq(Ids)
  BY DEF Deques
<1> QED BY <1>1, <1>2, PopKeepsOrder

LEMMA WithoutOrder ==
  ASSUME NEW q \in Seq(Ids), NEW e, NEW x, NEW y, Behind(Without(q, e), x, y)
  PROVE  Behind(q, x, y)
<1>1. CASE e \in ToSet(q)
  <2> DEFINE i == CHOOSE i \in DOMAIN q : q[i] = e
  <2>1. i \in DOMAIN q
    BY <1>1 DEF ToSet
  <2>2. Without(q, e) = RemoveAt(q, i)
    BY <1>1 DEF Without
  <2> HIDE DEF i
  <2> QED BY <2>1, <2>2, EraseKeepsOrder
<1>2. CASE e \notin ToSet(q)
  BY <1>2 DEF Without
<1> QED BY <1>1, <1>2

LEMMA LevelWithoutOrder ==
  ASSUME Deques(level, listed), NEW id \in Ids,
         NEW t \in Sides, NEW q \in Prices, NEW x, NEW y,
         Behind(LevelWithout(id)[t][q], x, y)
  PROVE  Behind(level[t][q], x, y)
<1> DEFINE s == orders[id].side
           p == orders[id].price
           d == Without(level[s][p], id)
<1>1. CASE p \in listed[s] /\ t = s /\ q = p
  <2>1. LevelWithout(id)[t][q] = d
    BY <1>1 DEF LevelWithout, Deques
  <2>2. level[s][p] \in Seq(Ids)
    BY <1>1 DEF Deques
  <2>3. Behind(level[s][p], x, y)
    <3> HIDE DEF s, p
    <3> QED BY <2>1, <2>2, WithoutOrder
  <2> QED BY <1>1, <2>3
<1>2. CASE ~(p \in listed[s] /\ t = s /\ q = p)
  <2>1. LevelWithout(id)[t][q] = level[t][q]
    BY <1>2 DEF LevelWithout, Deques
  <2> QED BY <2>1
<1> QED BY <1>1, <1>2

LEMMA PushedOrder ==
  ASSUME NEW l, NEW k, Deques(l, k), NEW s \in Sides, NEW p \in Prices, NEW id \in Ids,
         NEW t \in Sides, NEW q \in Prices, NEW x, NEW y, Behind(Pushed(l, s, p, id)[t][q], x, y)
  PROVE  Behind(l[t][q], x, y) \/ y = id
<1>1. l[t][q] \in Seq(Ids)
  BY DEF Deques
<1>2. Pushed(l, s, p, id)[t][q] \in {l[t][q], Append(l[t][q], id)}
  BY DEF Pushed, Deques
<1> QED BY <1>1, <1>2, PushKeepsOrder

(* Only two steps put an order behind another: the one that books the order *)
(* being matched, and an amendment, which sends an order to the back.       *)
LEMMA LevelOrder ==
  ASSUME Structure, [Next]_vars, NEW t \in Sides, NEW q \in Prices, NEW x, NEW y,
         Behind(level'[t][q], x, y)
  PROVE  \/ Behind(level[t][q], x, y)
         \/ FinishMatch /\ InLoop /\ y = cur
         \/ y \in modified'
<1>1. Deques(level, listed) /\ level[t][q] \in Seq(Ids)
  BY StructureFacts DEF Deques
<1>2. CASE level' = level
  BY <1>2
<1>3. ASSUME NEW p \in Prices, NEW r \in Ids, SkipEmpty(p, r) PROVE Behind(level[t][q], x, y)
  <2> DEFINE opp == Opposite(orders[cur].side)
  <2>1. opp \in Sides /\ level[opp][p] # <<>> /\ PopFront(opp, p)
    BY <1>3, FacingFacts DEF SkipEmpty
  <2> HIDE DEF opp
  <2> QED BY <1>1, <2>1, PopFrontOrder
<1>4. ASSUME SettleFilled PROVE Behind(level[t][q], x, y)
  <2>1. /\ RestingSide \in Sides /\ LastTrade.price \in Prices
        /\ level[RestingSide][LastTrade.price] # <<>>
        /\ PopFront(RestingSide, LastTrade.price)
    BY <1>4, RestingFacts DEF SettleFilled
  <2> QED BY <1>1, <2>1, PopFrontOrder
<1>5. ASSUME FinishMatch PROVE Behind(level[t][q], x, y) \/ (InLoop /\ y = cur)
  <2>1. InLoop
    BY <1>5 DEF FinishMatch, InLoop
  <2>2. CASE ~IsFilled(orders[cur]) /\ ~IsMarket(orders[cur])
    <3> DEFINE o == orders[cur]
    <3>1. cur \in Ids /\ o.side \in Sides /\ o.price \in Prices
      BY <1>5, <2>2, BookingFacts
    <3>2. level' = Pushed(level, o.side, o.price, cur)
      BY <1>5, <2>2 DEF FinishMatch, AddToBook, Pushed
    <3> HIDE DEF o
    <3> QED BY <1>1, <2>1, <3>1, <3>2, PushedOrder
  <2>3. CASE ~(~IsFilled(orders[cur]) /\ ~IsMarket(orders[cur]))
    BY <1>2, <1>5, <2>3 DEF FinishMatch
  <2> QED BY <2>2, <2>3
<1>6. ASSUME NEW id \in Ids, CancelOrder(id) PROVE Behind(level[t][q], x, y)
  BY <1>1, <1>6, LevelWithoutOrder DEF CancelOrder
<1>7. ASSUME NEW id \in Ids, NEW a \in Amendments, ModifyOrder(id, a)
      PROVE  Behind(level[t][q], x, y) \/ y \in modified'
  <2> DEFINE l == LevelWithout(id)
             s == orders[id].side
  <2>1. /\ orders[id].side \in Sides /\ orders[id].price \in Prices /\ a.price \in Prices
        /\ \A u \in Sides, p \in Prices :
             id \in ToSet(level[u][p]) => u = orders[id].side /\ p = orders[id].price
    <3>1. a.price \in Prices
      BY AmendmentsAssumption
    <3>2. orders[id].side \in Sides /\ orders[id].price \in Prices
      BY <1>7, StructureFacts DEF ModifyOrder, Structure, Placed, Order
    <3> QED BY <3>1, <3>2, StructureFacts
  <2>2. Deques(l, ListedWithout(id))
    BY <1>1, <2>1, LevelWithoutFacts
  <2>3. level' = Pushed(l, s, a.price, id) /\ id \in modified'
    BY <1>7 DEF ModifyOrder, PlainOrder, Pushed
  <2> HIDE DEF l, s
  <2>4. s \in Sides /\ a.price \in Prices
    BY <2>1 DEF s
  <2>5. Behind(l[t][q], x, y) \/ y = id
    BY <2>2, <2>3, <2>4, PushedOrder
  <2>6. Behind(l[t][q], x, y) => Behind(level[t][q], x, y)
    BY <1>1, LevelWithoutOrder DEF l
  <2> QED BY <2>3, <2>5, <2>6
<1>8. ASSUME \/ \E id \in Ids, r \in Requests : HoldStop(id, r) \/ BeginMatch(id, r)
             \/ \E p \in Prices, r \in Ids : Trade(p, r)
             \/ FireStop \/ SettleIceberg \/ TakeBatch \/ MatchStop
             \/ TriggersDone \/ SettlePartial \/ EndMatch \/ UNCHANGED vars
      PROVE  level' = level
  BY <1>8 DEF HoldStop, BeginMatch, Trade, FireStop, SettleIceberg, TakeBatch, MatchStop,
              TriggersDone, SettlePartial, EndMatch, vars, bookVars
<1> QED BY <1>2, <1>3, <1>4, <1>5, <1>6, <1>7, <1>8, StepCases DEF Quiet

(* No order changes its kind: the mutators keep it, and modifyOrder() makes *)
(* the new order object of the kind of the old one.                         *)
LEMMA KindsStay ==
  ASSUME Structure, [Next]_vars, NEW x \in Submitted
  PROVE  x \in Submitted' /\ orders'[x].kind = orders[x].kind
<1>1. x \in Ids /\ orders[x] \in Order
  BY StructureFacts
<1>2. ASSUME NEW id \in Ids, NEW r \in Requests, HoldStop(id, r) \/ BeginMatch(id, r)
      PROVE  x \in Submitted' /\ orders'[x].kind = orders[x].kind
  BY <1>1, <1>2, ArrivalFacts
<1>3. ASSUME NEW id \in Ids, CancelOrder(id)
      PROVE  x \in Submitted' /\ orders'[x].kind = orders[x].kind
  BY <1>1, <1>3, CancelFacts, CancelTyped DEF SameTerms
<1>4. ASSUME NEW id \in Ids, NEW a \in Amendments, ModifyOrder(id, a)
      PROVE  x \in Submitted' /\ orders'[x].kind = orders[x].kind
  <2>1. PlainOrder(orders[id].side, orders[id].kind, a.price, a.quantity).kind
          = orders[id].kind
    BY DEF PlainOrder
  <2> QED BY <1>1, <1>4, <2>1, ModifyFacts
<1>5. ASSUME NEW p \in Prices, NEW r \in Ids, Trade(p, r)
      PROVE  x \in Submitted' /\ orders'[x].kind = orders[x].kind
  BY <1>1, <1>5, TradeFacts DEF FilledFrom, SameTerms
<1>6. ASSUME FireStop PROVE x \in Submitted' /\ orders'[x].kind = orders[x].kind
  <2>1. PICK id \in ToSet(pending) :
          /\ orders'[id] = [orders[id] EXCEPT !.triggered = TRUE]
          /\ \A y \in Ids : y # id => orders'[y] = orders[y]
          /\ Submitted' = Submitted
    BY <1>6, FireStopFacts
  <2>2. \A o \in Order : [o EXCEPT !.triggered = TRUE].kind = o.kind
    BY DEF Order
  <2> QED BY <1>1, <2>1, <2>2
<1>7. ASSUME SettleIceberg PROVE x \in Submitted' /\ orders'[x].kind = orders[x].kind
  BY <1>1, <1>7, SettleIcebergFacts DEF SameTerms
<1>8. ASSUME SettleFilled \/ FinishMatch \/ TakeBatch \/ MatchStop \/ Quiet
      PROVE  orders' = orders
  BY <1>8, QuietFacts DEF SettleFilled, FinishMatch, TakeBatch, MatchStop, bookVars
<1>9. orders' = orders => x \in Submitted' /\ orders'[x].kind = orders[x].kind
  BY DEF Submitted
<1> QED BY <1>2, <1>3, <1>4, <1>5, <1>6, <1>7, <1>8, <1>9, StepCases

=============================================================================

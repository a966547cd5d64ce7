------------------------- MODULE OrderBookProperties -------------------------
(***************************************************************************)
(* What the order book must satisfy, beyond the shape of its state.        *)
(***************************************************************************)
EXTENDS OrderBook

(* Type invariant: the members of OrderBook and of the orders it holds. *)
TypeOK ==
  /\ orders   \in [Ids -> Order \cup {None}]
  /\ level    \in [Sides -> [Prices -> Seq(Ids)]]
  /\ listed   \in [Sides -> SUBSET Prices]
  /\ active   \in SUBSET Ids
  /\ pending  \in Seq(Ids)
  /\ staged   \in Seq(Ids)
  /\ batch    \in Seq(Ids)
  /\ trades   \in Seq([buy : Ids, sell : Ids, price : Prices, quantity : Quantity])
  /\ phase    \in Phases
  /\ cur      \in Ids \cup {None}
  /\ executed \in [Ids -> Nat]
  /\ modified \in SUBSET Ids
  /\ placedAt \in [Ids -> Nat]

-----------------------------------------------------------------------------
(* The maps and active_ agree: a key has a non-empty deque, and an order   *)
(* stands in a deque only under its own side and price, only once, and     *)
(* only while active_ finds it.  addToBook(), cancelLocked() and the       *)
(* matching loops each update three containers to keep this.               *)
BookIndexed ==
  \A s \in Sides, p \in Prices :
    /\ p \in listed[s] <=> level[s][p] # <<>>
    /\ IsInjective(level[s][p])
    /\ \A id \in ToSet(level[s][p]) :
         id \in active /\ orders[id].side = s /\ orders[id].price = p

InLevel(id) == id \in ToSet(level[orders[id].side][orders[id].price])

(* An order that active_ holds but no level does offers nothing to trade:  *)
(* the loops drop from a level, and leave in active_, only such orders.    *)
GhostsOfferNothing ==
  \A id \in active : InLevel(id) \/ Visible(orders[id]) = 0

(* What the README's table says of limit and iceberg orders, that they rest *)
(* in the book if not fully filled: whatever active_ holds stands in a level.*)
ActiveOrdersRest == \A id \in active : InLevel(id)

(* A resting bid and a resting ask cross only if modifyOrder(), which books *)
(* without matching, placed one of the two.                                 *)
CrossedOnlyByModify ==
  \A p, q \in Prices : p >= q =>
    \A bid \in ToSet(level["BUY"][p]), ask \in ToSet(level["SELL"][q]) :
      bid \in modified \/ ask \in modified

(* The two sides of a trade are charged alike and in full: what an order   *)
(* has traded and what is left of it make up its quantity, and a cancelled *)
(* order has traded no more than it.                                       *)
Ledger ==
  \A id \in Submitted :
    IF orders[id].status = "CANCELLED"
    THEN executed[id] <= orders[id].quantity
    ELSE executed[id] + orders[id].leaves = orders[id].quantity

(* The display lot of no iceberg exceeds its quantity.  Nothing in the code *)
(* requires this of a client.                                               *)
LotsFit == \A r \in Requests : r.kind = "ICEBERG" => r.display <= r.quantity

(* A booked iceberg shows a part of what is left of it and hides exactly   *)
(* the rest, or shows nothing.                                             *)
IcebergSplit ==
  \A s \in Sides, p \in Prices : \A id \in ToSet(level[s][p]) :
    IsIceberg(orders[id]) =>
      \/ orders[id].display = 0
      \/ orders[id].display + orders[id].hidden = orders[id].leaves

(* What the README says of icebergs: when the visible tranche of a resting *)
(* order is consumed it is refilled.  Between two calls no iceberg with    *)
(* quantity left shows nothing.                                            *)
IcebergsShowALot ==
  phase = "idle" =>
    \A id \in active : IsIceberg(orders[id]) /\ orders[id].leaves > 0
                         => Visible(orders[id]) > 0

(* Once cancelOrder() has returned true the order takes part in no trade.  *)
CancelledNeverTrades ==
  [][trades' # trades =>
       LET t == trades'[Len(trades')] IN
       orders[t.buy].status # "CANCELLED" /\ orders[t.sell].status # "CANCELLED"]_vars

TradesOf(id) == {k \in DOMAIN trades : id \in {trades[k].buy, trades[k].sell}}

(* A trade of nothing is made only by an incoming order that was submitted *)
(* with quantity 0, and it is the only trade of that order: a loop that    *)
(* went on after the last fill of its order, or stopped at a resting order *)
(* with nothing to offer, would record more of them.                       *)
OnlyEmptyOrdersTradeNothing ==
  \A k \in DOMAIN trades :
    trades[k].quantity = 0 =>
      \E id \in {trades[k].buy, trades[k].sell} :
        orders[id].quantity = 0 /\ id \notin modified /\ TradesOf(id) = {k}

-----------------------------------------------------------------------------
(* The stop pipeline pending_stops_ -> triggered_stops_ -> batch -> the    *)
(* matching loop -> active_.  An order is at one place of it at a time, at *)
(* most once, so that no stop is matched twice.                            *)
Held == ToSet(pending) \cup ToSet(staged) \cup ToSet(batch)

OnePlaceEach ==
  /\ IsInjective(pending) /\ IsInjective(staged) /\ IsInjective(batch)
  /\ ToSet(pending) \cap ToSet(staged) = {}
  /\ ToSet(pending) \cap ToSet(batch) = {}
  /\ ToSet(staged) \cap ToSet(batch) = {}
  /\ Held \cap active = {}
  /\ cur \notin Held \cup active

(* An order with quantity left, other than a market order, is never        *)
(* forgotten: it is in the pipeline, being matched or active, and when the *)
(* lock is released the pipeline holds only pending stops.                 *)
NothingLost ==
  /\ \A id \in Submitted :
       orders[id].leaves # 0 /\ ~IsMarket(orders[id]) => id \in Held \cup active \cup {cur}
  /\ phase = "idle" => staged = <<>> /\ batch = <<>>

(* A trade at price p is at or beyond the trigger of stop o. *)
ReachesTrigger(o, p) ==
  \/ o.side = "SELL" /\ p <= o.trigger
  \/ o.side = "BUY"  /\ p >= o.trigger

(* No trade made while a stop was pending has reached its trigger, save    *)
(* the one whose triggers are being checked at this moment.                *)
NoMissedTrigger ==
  \A id \in ToSet(pending) : \A k \in placedAt[id] + 1 .. Len(trades) :
    ReachesTrigger(orders[id], trades[k].price) => phase = "triggers" /\ k = Len(trades)

(* match() returns: the loops over the levels and over the cascade of      *)
(* stops end, and the lock is released.                                    *)
LockReleased == phase # "idle" ~> phase = "idle"

(* One of the loops of matchBuy() and matchSell() runs. *)
InLoop == phase \in {"match", "triggers", "settle"}

(* The orders in the levels l of a side. *)
Standing(l) == UNION {ToSet(l[p]) : p \in Prices}

(* What match() has still to do: the stops it may yet have to match, what  *)
(* the order being matched may yet trade, the place reached in the loops,  *)
(* and there the stops to look at or the orders to pass over.              *)
ToTrade(o) == o.leaves + (IF IsActive(o) THEN 1 ELSE 0)

PlaceInMatch ==
  CASE phase = "idle"     -> 0
    [] phase = "match"    -> 1
    [] phase = "settle"   -> 2
    [] phase = "triggers" -> 3
    [] phase = "drain"    -> IF batch = <<>> /\ staged # <<>> THEN 2 ELSE 1

ToPass ==
  CASE phase = "match"    -> Cardinality(Standing(level[RestingSide]))
    [] phase = "triggers" -> Len(pending)
    [] OTHER              -> 0

Work == <<Len(pending) + Len(staged) + Len(batch),
          IF InLoop THEN 1 + ToTrade(orders[cur]) ELSE 0,
          PlaceInMatch,
          ToPass>>

Less(v, w) == \E k \in DOMAIN w : v[k] < w[k] /\ \A j \in 1 .. k - 1 : v[j] = w[j]

(* Each step of the thread inside match() brings it nearer to the end: the *)
(* first of these numbers to change gets smaller.  So the cascade of stops,*)
(* in which trades fire stops whose trades fire stops, comes to an end.    *)
WorkShrinks == [][phase # "idle" => Less(Work', Work)]_vars

-----------------------------------------------------------------------------
(* What the proofs need besides: the shape of the state between the steps  *)
(* of match().                                                             *)

(* The containers hold orders that were submitted, what may rest has the   *)
(* price of a level, and an order that is no longer active is finished.    *)
Placed ==
  /\ Held \cup active \subseteq Submitted
  /\ cur # None => cur \in Submitted
  /\ \A id \in active : orders[id].price \in Prices
  /\ \A id \in Submitted : ~IsMarket(orders[id]) => orders[id].price \in Prices
  /\ \A id \in Submitted : ~IsActive(orders[id]) => IsFilled(orders[id])

(* An order is being matched exactly while one of the loops of matchBuy()  *)
(* and matchSell() runs, and from a trade until it is settled the resting  *)
(* order stands at the front of the level it traded at.                    *)
LoopState ==
  /\ cur # None <=> InLoop
  /\ phase \in {"triggers", "settle"} =>
       trades # <<>> /\ level[RestingSide][LastTrade.price] # <<>>

Structure == TypeOK /\ BookIndexed /\ OnePlaceEach /\ Placed /\ LoopState

(* Every iceberg, wherever it is, has its lots in order or shows nothing,  *)
(* and the one just traded with has them in order.                         *)
LotsInOrder(o) == o.display + o.hidden = o.leaves

Lots ==
  /\ \A id \in Submitted :
       IsIceberg(orders[id]) /\ orders[id].status # "CANCELLED"
         => orders[id].display = 0 \/ LotsInOrder(orders[id])
  /\ phase \in {"triggers", "settle"} /\ IsIceberg(orders[Resting])
         => LotsInOrder(orders[Resting])

(* Orders of quantity 0 and their trades: an order that is not finished and *)
(* has nothing left was made with nothing, and one that no amendment made so *)
(* does not rest and has traded only if it is finished.                    *)
EmptyOrders ==
  /\ \A id \in Submitted :
       IsActive(orders[id]) /\ IsFilled(orders[id]) => orders[id].quantity = 0
  /\ \A id \in Submitted \ modified : orders[id].quantity = 0 =>
       /\ IsFilled(orders[id]) /\ id \notin active
       /\ IsActive(orders[id]) => TradesOf(id) = {}
  /\ modified \subseteq Submitted /\ modified \cap (Held \cup {cur}) = {}
  /\ \A k \in DOMAIN trades : {trades[k].buy, trades[k].sell} \subseteq Submitted

(* A cancelled order is in no container. *)
CancelledNowhere ==
  \A id \in Held \cup active \cup {cur} :
    id # None => orders[id].status # "CANCELLED"

-----------------------------------------------------------------------------
(* Price-time priority: the book of levels implements the book of queues.  *)
(* The orders in the levels l of side s form one line.  In front of the    *)
(* i-th order at price p are all those at a better price, and those in     *)
(* front of it in its level.                                               *)
InFront(s, l, p, i) ==
  (UNION {ToSet(l[q]) : q \in {r \in Prices : Better(s, r, p)}})
    \cup {l[p][j] : j \in 1 .. i - 1}

LineUp(s, l) ==
  [k \in 1 .. Cardinality(Standing(l)) |->
     CHOOSE x \in Standing(l) :
       \E p \in Prices : \E i \in DOMAIN l[p] :
         l[p][i] = x /\ Cardinality(InFront(s, l, p, i)) = k - 1]

(* What the book of queues knows of the orders of a line. *)
Entries(o, line) ==
  [k \in DOMAIN line |-> [id |-> line[k], price |-> o[line[k]].price, left |-> o[line[k]].leaves]]

Line(s)  == LineUp(s, level[s])
Queue(s) == Entries(orders, Line(s))
Queues   == [s \in Sides |-> Queue(s)]

TakerNow ==
  IF cur = None THEN None
  ELSE [id |-> cur, side |-> orders[cur].side, market |-> IsMarket(orders[cur]),
        price |-> orders[cur].price, left |-> orders[cur].leaves]

Abstract == INSTANCE PriorityBook
  WITH book <- Queues, taker <- TakerNow, Left <- Quantity, NoTaker <- None

ASSUME NoTakerAssumption == None \notin Abstract!Taker

RefinesPriorityBook == Abstract!Spec

=============================================================================

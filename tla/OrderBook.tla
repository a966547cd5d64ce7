------------------------------ MODULE OrderBook ------------------------------
(***************************************************************************)
(* The limit order book of include/orderbook.h and src/orderbook.cpp.      *)
(*                                                                         *)
(* Every public operation runs under the book's unique_lock.  match() is   *)
(* modelled one loop iteration at a time, the phase saying where in match()*)
(* the thread that owns the lock stands:                                   *)
(*                                                                         *)
(*   idle      the lock is free                                            *)
(*   match     at the head of the loops of matchBuy()/matchSell()          *)
(*   triggers  inside checkStopTriggers(), right after a trade             *)
(*   settle    deciding what becomes of the resting order just traded with *)
(*   drain     in match(), between two runs of matchBuy()/matchSell()      *)
(*                                                                         *)
(* cancelOrder() and modifyOrder() have no loop a property looks into and  *)
(* are single actions.  A level of the two std::maps is a sequence of ids, *)
(* level[s][p], and listed[s] is the set of keys of the map of side s.     *)
(***************************************************************************)
EXTENDS Orders, FiniteSets, SequencesExt

CONSTANTS
  Ids,         (* order ids; the engine never reuses one                     *)
  None,        (* no order                                                   *)
  Requests,    (* the orders clients submit                                  *)
  Amendments   (* the new price and quantity clients pass to modifyOrder()   *)

(* A request holds the arguments of the constructor its kind selects. *)
Request == [kind : Kinds, side : Sides, price : Prices, quantity : Quantity,
            display : Quantity, trigger : Prices]

ASSUME RequestsAssumption   == Requests \subseteq Request
ASSUME AmendmentsAssumption ==
         Amendments \subseteq [price : Prices, quantity : Quantity]
ASSUME NoneAssumption       == None \notin Ids /\ None \notin Order

Phases == {"idle", "match", "triggers", "settle", "drain"}

VARIABLES
  orders,      (* the order objects, None for an id not submitted yet        *)
  level,       (* bids_ and asks_: the deque of ids at each side and price   *)
  listed,      (* bids_ and asks_: the prices that are keys of the maps      *)
  active,      (* active_                                                    *)
  pending,     (* pending_stops_                                             *)
  staged,      (* triggered_stops_                                           *)
  trades,      (* trades_; the index of a trade is its trade_id              *)
  phase,       (* where the owner of the lock stands                         *)
  cur,         (* the incoming order being matched                           *)
  batch,       (* what is left of the local batch of match()                 *)
  executed,    (* history: quantity traded by each order since it was made   *)
  modified,    (* history: ids that modifyOrder() has replaced               *)
  placedAt     (* history: number of trades when a stop became pending       *)

bookVars == <<orders, level, listed, active>>
stopVars == <<pending, staged, batch>>
history  == <<executed, modified, placedAt>>
vars     == <<bookVars, stopVars, trades, phase, cur, history>>

(* A definition whose name is that of the one below it, lengthened, is that *)
(* definition with a slip in it.  No action uses it: it is there to be put  *)
(* in the other's place, for the runs to show which property notices.       *)

-----------------------------------------------------------------------------
(* Reading the book *)

Opposite(s) == IF s = "BUY" THEN "SELL" ELSE "BUY"

(* The maps' comparators: bids descend, asks ascend. *)
Better(s, p, q) == IF s = "BUY" THEN p > q ELSE p < q

(* p is the key at begin() of side s. *)
IsBest(s, p) == p \in listed[s] /\ \A q \in listed[s] : q = p \/ Better(s, p, q)

(* Order o may trade with the opposite side at price p. *)
CrossesOnlyInside(o, p) == IsMarket(o) \/ (IF o.side = "BUY" THEN p < o.price ELSE p > o.price)
Crosses(o, p) == IsMarket(o) \/ (IF o.side = "BUY" THEN p <= o.price ELSE p >= o.price)

(* A trade at price p triggers stop o. *)
FiresOnlyBeyond(o, p) == IF o.side = "SELL" THEN p < o.trigger ELSE p > o.trigger
Fires(o, p) == IF o.side = "SELL" THEN p <= o.trigger ELSE p >= o.trigger

(* What an incoming order and the resting order it faces trade. *)
TradeQtyOffered(taker, maker) == Visible(maker)
TradeQty(taker, maker) == Min({taker.leaves, Visible(maker)})

Submitted == {id \in Ids : orders[id] # None}

LastTrade == trades[Len(trades)]

-----------------------------------------------------------------------------
(* Helpers that change part of the state *)

(* The sequence s without element e, which occurs in it at most once. *)
Without(s, e) ==
  IF e \in ToSet(s)
  THEN RemoveAt(s, CHOOSE i \in DOMAIN s : s[i] = e)
  ELSE s

(* The keys of a side once the deque at p is d: an empty deque is erased. *)
RelistNothing(keys, p, d) == keys
Relist(keys, p, d) == IF d = <<>> THEN keys \ {p} ELSE keys

PopFront(s, p) ==
  /\ level'  = [level EXCEPT ![s][p] = Tail(@)]
  /\ listed' = [listed EXCEPT ![s] = Relist(@, p, Tail(level[s][p]))]

NewOrder(r) ==
  CASE r.kind = "LIMIT"     -> PlainOrder(r.side, "LIMIT", r.price, r.quantity)
    [] r.kind = "MARKET"    -> PlainOrder(r.side, "MARKET", 0, r.quantity)
    [] r.kind = "ICEBERG"   -> IcebergOrder(r.side, r.price, r.quantity, r.display)
    [] r.kind = "STOP_LOSS" -> StopLossOrder(r.side, r.trigger, r.price, r.quantity)

(* What cancelLocked() leaves of the map of the order's side. *)
LevelWithoutChange(id) == level
LevelWithout(id) ==
  LET o == orders[id] IN
  IF o.price \in listed[o.side]
  THEN [level EXCEPT ![o.side][o.price] = Without(@, id)]
  ELSE level

ListedWithout(id) ==
  LET o == orders[id] IN
  [listed EXCEPT ![o.side] =
     IF o.price \in @ THEN Relist(@, o.price, LevelWithout(id)[o.side][o.price]) ELSE @]

-----------------------------------------------------------------------------
Init ==
  /\ orders   = [id \in Ids |-> None]
  /\ level    = [s \in Sides |-> [p \in Prices |-> <<>>]]
  /\ listed   = [s \in Sides |-> {}]
  /\ active   = {}
  /\ pending  = <<>>
  /\ staged   = <<>>
  /\ trades   = <<>>
  /\ phase    = "idle"
  /\ cur      = None
  /\ batch    = <<>>
  /\ executed = [id \in Ids |-> 0]
  /\ modified = {}
  /\ placedAt = [id \in Ids |-> 0]

(* match() with a stop that is not triggered: it is held and match() returns. *)
HoldStop(id, r) ==
  /\ phase = "idle"
  /\ orders[id] = None
  /\ r.kind = "STOP_LOSS"
  /\ orders'   = [orders EXCEPT ![id] = NewOrder(r)]
  /\ pending'  = Append(pending, id)
  /\ placedAt' = [placedAt EXCEPT ![id] = Len(trades)]
  /\ UNCHANGED <<level, listed, active, staged, trades, phase, cur, batch,
                 executed, modified>>

(* match() with any other order takes the lock and starts matching it. *)
BeginMatch(id, r) ==
  /\ phase = "idle"
  /\ orders[id] = None
  /\ r.kind # "STOP_LOSS"
  /\ orders' = [orders EXCEPT ![id] = NewOrder(r)]
  /\ cur'    = id
  /\ phase'  = "match"
  /\ UNCHANGED <<level, listed, active, stopVars, trades, history>>

(* The conditions of both loops hold: r is the front of the best level p   *)
(* of the opposite side, and the order being matched may trade there.      *)
Facing(p, r) ==
  LET opp == Opposite(orders[cur].side) IN
  /\ phase = "match"
  /\ IsActive(orders[cur])
  /\ IsBest(opp, p)
  /\ Crosses(orders[cur], p)
  /\ level[opp][p] # <<>>
  /\ r = Head(level[opp][p])

(* A resting order that offers nothing is dropped from its level, and the  *)
(* level from the map if it was the last.  active_ is not touched.         *)
SkipEmpty(p, r) ==
  /\ Facing(p, r)
  /\ Visible(orders[r]) = 0
  /\ PopFront(Opposite(orders[cur].side), p)
  /\ UNCHANGED <<orders, active, stopVars, trades, phase, cur, history>>

Trade(p, r) ==
  LET qty == TradeQty(orders[cur], orders[r])
      buy == orders[cur].side = "BUY"
  IN
  /\ Facing(p, r)
  /\ Visible(orders[r]) # 0
  /\ orders'   = [orders EXCEPT ![cur] = Fill(@, qty), ![r] = Fill(@, qty)]
  /\ trades'   = Append(trades, [buy   |-> IF buy THEN cur ELSE r,
                                 sell  |-> IF buy THEN r ELSE cur,
                                 price |-> p, quantity |-> qty])
  /\ executed' = [executed EXCEPT ![cur] = @ + qty, ![r] = @ + qty]
  /\ phase'    = "triggers"
  /\ UNCHANGED <<level, listed, active, stopVars, cur, modified, placedAt>>

(* checkStopTriggers(): the next stop, in submission order, that fires. *)
FireStop ==
  /\ phase = "triggers"
  /\ \E i \in DOMAIN pending :
       /\ Fires(orders[pending[i]], LastTrade.price)
       /\ \A j \in 1 .. i - 1 : ~Fires(orders[pending[j]], LastTrade.price)
       /\ orders'  = [orders EXCEPT ![pending[i]].triggered = TRUE]
       /\ staged'  = Append(staged, pending[i])
       /\ pending' = RemoveAt(pending, i)
  /\ UNCHANGED <<level, listed, active, trades, phase, cur, batch, history>>

(* checkStopTriggers() has passed over every pending stop. *)
TriggersDone ==
  /\ phase = "triggers"
  /\ \A i \in DOMAIN pending : ~Fires(orders[pending[i]], LastTrade.price)
  /\ phase' = "settle"
  /\ UNCHANGED <<bookVars, stopVars, trades, cur, history>>

(* The resting order of the last trade: at the front of the level it traded *)
(* at, the best one of the side opposite to cur.                            *)
RestingSide == Opposite(orders[cur].side)
Resting     == Head(level[RestingSide][LastTrade.price])

(* It is filled: it leaves active_, its level, and maybe the level the map. *)
SettleFilled ==
  /\ phase = "settle"
  /\ IsFilled(orders[Resting])
  /\ active' = active \ {Resting}
  /\ PopFront(RestingSide, LastTrade.price)
  /\ phase'  = "match"
  /\ UNCHANGED <<orders, stopVars, trades, cur, history>>

(* It is an iceberg whose lot is used up: it is replenished where it stands. *)
SettleIceberg ==
  /\ phase = "settle"
  /\ ~IsFilled(orders[Resting])
  /\ IsIceberg(orders[Resting])
  /\ Visible(orders[Resting]) = 0
  /\ orders' = [orders EXCEPT ![Resting] = Replenish(@)]
  /\ phase'  = "match"
  /\ UNCHANGED <<level, listed, active, stopVars, trades, cur, history>>

(* It still offers something: nothing to do. *)
SettlePartialAndPop ==
  /\ phase = "settle"
  /\ ~IsFilled(orders[Resting])
  /\ ~IsIceberg(orders[Resting]) \/ Visible(orders[Resting]) # 0
  /\ PopFront(RestingSide, LastTrade.price)
  /\ phase'  = "match"
  /\ UNCHANGED <<orders, active, stopVars, trades, cur, history>>
SettlePartial ==
  /\ phase = "settle"
  /\ ~IsFilled(orders[Resting])
  /\ ~IsIceberg(orders[Resting]) \/ Visible(orders[Resting]) # 0
  /\ phase'  = "match"
  /\ UNCHANGED <<bookVars, stopVars, trades, cur, history>>

(* addToBook(): the order goes to the back of its level and into active_. *)
AddToBookInFront(id, o) ==
  /\ level'  = [level EXCEPT ![o.side][o.price] = <<id>> \o @]
  /\ listed' = [listed EXCEPT ![o.side] = @ \cup {o.price}]
  /\ active' = active \cup {id}
AddToBook(id, o) ==
  /\ level'  = [level EXCEPT ![o.side][o.price] = Append(@, id)]
  /\ listed' = [listed EXCEPT ![o.side] = @ \cup {o.price}]
  /\ active' = active \cup {id}

(* The outer loop ends: the order is done, the other side is empty, or its *)
(* best price is beyond the limit.  What remains of the order is booked.   *)
FinishMatchAfterOneBatch ==
  LET o   == orders[cur]
      opp == Opposite(o.side)
  IN
  /\ phase = "match"
  /\ \/ ~IsActive(o)
     \/ listed[opp] = {}
     \/ \E p \in listed[opp] : IsBest(opp, p) /\ ~Crosses(o, p)
  /\ IF ~IsFilled(o) /\ ~IsMarket(o)
     THEN AddToBook(cur, o)
     ELSE UNCHANGED <<level, listed, active>>
  /\ cur'   = None
  /\ phase' = IF o.kind = "STOP_LOSS" /\ batch = <<>> THEN "idle" ELSE "drain"
  /\ UNCHANGED <<orders, stopVars, trades, history>>
FinishMatch ==
  LET o   == orders[cur]
      opp == Opposite(o.side)
  IN
  /\ phase = "match"
  /\ \/ ~IsActive(o)
     \/ listed[opp] = {}
     \/ \E p \in listed[opp] : IsBest(opp, p) /\ ~Crosses(o, p)
  /\ IF ~IsFilled(o) /\ ~IsMarket(o)
     THEN AddToBook(cur, o)
     ELSE UNCHANGED <<level, listed, active>>
  /\ cur'   = None
  /\ phase' = "drain"
  /\ UNCHANGED <<orders, stopVars, trades, history>>

(* match(): the stops staged by the trades of the last batch are moved into *)
(* the next batch ...                                                       *)
TakeBatchByCopy ==
  /\ phase = "drain"
  /\ batch = <<>>
  /\ staged # <<>>
  /\ batch' = staged
  /\ UNCHANGED <<bookVars, pending, staged, trades, phase, cur, history>>
TakeBatch ==
  /\ phase = "drain"
  /\ batch = <<>>
  /\ staged # <<>>
  /\ batch'  = staged
  /\ staged' = <<>>
  /\ UNCHANGED <<bookVars, pending, trades, phase, cur, history>>

(* ... the stops of a batch are matched one after the other ... *)
MatchStop ==
  /\ phase = "drain"
  /\ batch # <<>>
  /\ cur'   = Head(batch)
  /\ batch' = Tail(batch)
  /\ phase' = "match"
  /\ UNCHANGED <<bookVars, pending, staged, trades, history>>

(* ... and when no stop is left match() returns and the lock is released. *)
EndMatch ==
  /\ phase = "drain"
  /\ batch = <<>>
  /\ staged = <<>>
  /\ phase' = "idle"
  /\ UNCHANGED <<bookVars, stopVars, trades, cur, history>>

(* cancelOrder() of an active order.  Of any other it returns false. *)
CancelOrder(id) ==
  /\ phase = "idle"
  /\ id \in active
  /\ level'  = LevelWithout(id)
  /\ listed' = ListedWithout(id)
  /\ orders' = [orders EXCEPT ![id] = CancelOf(@)]
  /\ active' = active \ {id}
  /\ UNCHANGED <<stopVars, trades, phase, cur, history>>

(* modifyOrder() of an active order: a new order object of the same id,    *)
(* side and kind, made by the plain constructor, replaces the old one and  *)
(* goes straight to the back of its level: it is not matched.              *)
ModifyOrder(id, a) ==
  LET o == PlainOrder(orders[id].side, orders[id].kind, a.price, a.quantity) IN
  /\ phase = "idle"
  /\ id \in active
  /\ level'    = [LevelWithout(id) EXCEPT ![o.side][o.price] = Append(@, id)]
  /\ listed'   = [ListedWithout(id) EXCEPT ![o.side] = @ \cup {o.price}]
  /\ orders'   = [orders EXCEPT ![id] = o]
  /\ executed' = [executed EXCEPT ![id] = 0]
  /\ modified' = modified \cup {id}
  /\ UNCHANGED <<active, stopVars, trades, phase, cur, placedAt>>

-----------------------------------------------------------------------------
(* The steps of the thread inside match(). *)
MatchStep ==
  \/ \E p \in Prices, r \in Ids : SkipEmpty(p, r)
  \/ \E p \in Prices, r \in Ids : Trade(p, r)
  \/ FireStop
  \/ TriggersDone
  \/ SettleFilled
  \/ SettleIceberg
  \/ SettlePartial
  \/ FinishMatch
  \/ TakeBatch
  \/ MatchStop
  \/ EndMatch

Next ==
  \/ \E id \in Ids, r \in Requests : HoldStop(id, r)
  \/ \E id \in Ids, r \in Requests : BeginMatch(id, r)
  \/ \E id \in Ids : CancelOrder(id)
  \/ \E id \in Ids, a \in Amendments : ModifyOrder(id, a)
  \/ MatchStep

Spec == Init /\ [][Next]_vars

(* The thread that is in match() keeps running: the operating system never *)
(* deschedules a thread for good, and match() waits for nothing.           *)
FairSpec == Spec /\ WF_vars(MatchStep)

=============================================================================

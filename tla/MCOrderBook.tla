----------------------------- MODULE MCOrderBook -----------------------------
(***************************************************************************)
(* Instances of the order book for TLC: the orders that the clients of     *)
(* each run submit, and the amendments they ask for.                       *)
(***************************************************************************)
EXTENDS OrderBookProperties, OrderBookQueries

Limit(s, p, q) == [kind |-> "LIMIT", side |-> s, price |-> p, quantity |-> q,
                   display |-> 0, trigger |-> 1]
Market(s, q) == [kind |-> "MARKET", side |-> s, price |-> 1, quantity |-> q,
                 display |-> 0, trigger |-> 1]
Iceberg(s, p, q, d) == [kind |-> "ICEBERG", side |-> s, price |-> p, quantity |-> q,
                        display |-> d, trigger |-> 1]
Stop(s, t, p, q) == [kind |-> "STOP_LOSS", side |-> s, price |-> p, quantity |-> q,
                     display |-> 0, trigger |-> t]

Symmetry == Permutations(Ids)

MCPrices == 1 .. 2

(* Limit and market orders of both sides, and a stop that a trade at one of *)
(* the two lower prices sends among them.                                  *)
CorePrices == 1 .. 3
CoreRequests ==
  {Limit(s, p, q) : s \in Sides, p \in CorePrices, q \in 1 .. 2}
  \cup {Market(s, 2) : s \in Sides}
  \cup {Stop("SELL", 2, 1, 1)}
CoreAmendments == [price : CorePrices, quantity : {1}]

(* Icebergs on both sides, that take and rest. *)
IcebergRequests ==
  {Iceberg(s, p, q, d) : s \in Sides, p \in {1}, q \in {3}, d \in 0 .. 2}
  \cup {Limit(s, 1, q) : s \in Sides, q \in 0 .. 2}
IcebergAmendments == [price : {1}, quantity : {0, 2}]

(* Icebergs that rest as bids and are only ever met by market orders. *)
MakerRequests ==
  {Iceberg("BUY", p, 3, d) : p \in MCPrices, d \in 1 .. 2}
  \cup {Limit("BUY", p, 1) : p \in MCPrices}
  \cup {Market("SELL", q) : q \in 1 .. 2}

(* What such an iceberg is amended to. *)
MakerAmendments == [price : MCPrices, quantity : 1 .. 2]

(* Icebergs of both sides, that take before they rest. *)
TakerRequests ==
  {Iceberg(s, 1, 3, 1) : s \in Sides} \cup {Limit(s, 1, 2) : s \in Sides}

(* Stops of both sides on both trigger prices, and the limit orders that   *)
(* fire them.  A seller of 2 that took one buyer rests with 1, for a stop  *)
(* it fired to trade with, at the lower price if it asks the lower price:  *)
(* that trade fires the seller's stop that the first one did not.          *)
StopRequests ==
  {Stop("BUY", t, 2, 1) : t \in MCPrices}
  \cup {Stop("SELL", t, 1, 1) : t \in MCPrices}
  \cup {Limit("BUY", p, 1) : p \in MCPrices}
  \cup {Limit("SELL", 1, 2)}

StopIds == 1 .. 5

(* FairSpec for clients that amend nothing and take their ids in turn.     *)
(* Ids are interchangeable, so that the latter leaves out no behaviour but *)
(* for the names of orders; SYMMETRY would not be sound for liveness.      *)
InTurn(id) == \A earlier \in Ids : earlier < id => orders[earlier] # None

InTurnNext ==
  \/ \E id \in Ids, r \in Requests : InTurn(id) /\ HoldStop(id, r)
  \/ \E id \in Ids, r \in Requests : InTurn(id) /\ BeginMatch(id, r)
  \/ \E id \in Ids : CancelOrder(id)
  \/ MatchStep

InTurnFairSpec == Init /\ [][InTurnNext]_vars /\ WF_vars(MatchStep)

=============================================================================

-------------------------- MODULE OrderBookQueries ---------------------------
(***************************************************************************)
(* What the const member functions of OrderBook report.  They read under   *)
(* the shared lock, hence never while match() runs, and change nothing:    *)
(* they are operators on a state whose phase is "idle".  printBook() and   *)
(* printDepth() are the rows of their tables, from top to bottom.          *)
(***************************************************************************)
EXTENDS OrderBook

(* bestBid() and bestAsk(), whose answer for an empty side is 0. *)
Best(s) == IF listed[s] = {} THEN 0 ELSE CHOOSE p \in listed[s] : IsBest(s, p)

Spread ==
  IF listed["BUY"] = {} \/ listed["SELL"] = {} THEN 0 ELSE Best("SELL") - Best("BUY")

(* for (x : q) c += x, and c -= x, in unsigned words. *)
Added(c, q)    == FoldLeft(LAMBDA sum, x : (sum + x) % Word, c, q)
TakenOff(c, q) == Added(c, [i \in DOMAIN q |-> -q[i]])

(* What each order shows, and what those at a price show together. *)
Showing     == [id \in Submitted |-> Visible(orders[id])]
Shown(s, p) == Added(0, [i \in DOMAIN level[s][p] |-> Showing[level[s][p][i]]])

(* The keys of the map of side s, in the order of its comparator. *)
Keys(s) ==
  CHOOSE q \in [1 .. Cardinality(listed[s]) -> listed[s]] :
    \A i, j \in DOMAIN q : i < j => Better(s, q[i], q[j])

(* The rows both tables collect: the best n prices of a side, best first. *)
Rows(s, n) ==
  LET keys == Keys(s) IN
  [k \in 1 .. Min({n, Cardinality(listed[s])}) |->
     [price |-> keys[k], quantity |-> Shown(s, keys[k])]]

(* printBook(): the asks are displayed farthest first. *)
BookTable(n) == Reverse(Rows("SELL", n)) \o Rows("BUY", n)

Column(rows) == [i \in DOMAIN rows |-> rows[i].quantity]

WithCumulative(row, cum) ==
  [price |-> row.price, quantity |-> row.quantity, cumulative |-> cum]

(* printDepth(): going down the asks, towards the spread, the cumulative   *)
(* quantity starts at the total and each row is taken off after it is      *)
(* printed; going down the bids each row is added before it is printed.    *)
AskDepthTakenOffFirst(n) ==
  LET rows  == Reverse(Rows("SELL", n))
      total == Added(0, Column(Rows("SELL", n)))
  IN  [i \in DOMAIN rows |->
         WithCumulative(rows[i], TakenOff(total, SubSeq(Column(rows), 1, i)))]
AskDepth(n) ==
  LET rows  == Reverse(Rows("SELL", n))
      total == Added(0, Column(Rows("SELL", n)))
  IN  [i \in DOMAIN rows |->
         WithCumulative(rows[i], TakenOff(total, SubSeq(Column(rows), 1, i - 1)))]

BidDepth(n) ==
  LET rows == Rows("BUY", n) IN
  [i \in DOMAIN rows |-> WithCumulative(rows[i], Added(0, SubSeq(Column(rows), 1, i)))]

-----------------------------------------------------------------------------
(* The best prices are prices at which something can be traded, and the    *)
(* spread is positive unless an amendment crossed the book: no operation   *)
(* leaves behind a key without orders for these functions to report.       *)
QuotesTrue ==
  phase = "idle" =>
    /\ \A s \in Sides : listed[s] # {} =>
         \E id \in ToSet(level[s][Best(s)]) : Visible(orders[id]) > 0
    /\ (\A s \in Sides : listed[s] # {}) /\ modified = {} => Spread > 0

(* The orders of side s at price p or better. *)
UpTo(s, p) ==
  UNION {ToSet(level[s][q]) : q \in {q \in Prices : q = p \/ Better(s, q, p)}}

SumOf(w, S) == MapThenSumSet(LAMBDA x : w[x], S)

(* A table of n rows lists, price descending, the n prices nearest to the  *)
(* spread, and the cumulative quantity of a row is what all orders from    *)
(* the best price up to that row show.                                     *)
TableTrue(s, n, table) ==
  LET shown == {table[i].price : i \in DOMAIN table} IN
  /\ \A i, j \in DOMAIN table : i < j => table[i].price > table[j].price
  /\ shown \subseteq listed[s] /\ Cardinality(shown) = Min({n, Cardinality(listed[s])})
  /\ \A p \in shown, q \in listed[s] \ shown : Better(s, p, q)
  /\ \A i \in DOMAIN table :
       table[i].cumulative = SumOf(Showing, UpTo(s, table[i].price)) % Word

(* Both halves of printDepth() are such tables, though their cumulative    *)
(* quantities are computed in opposite directions, and printBook() prints  *)
(* the same rows, however many are asked for.                              *)
TablesTrue(n) ==
  /\ TableTrue("SELL", n, AskDepth(n))
  /\ TableTrue("BUY", n, BidDepth(n))
  /\ LET both == AskDepth(n) \o BidDepth(n) IN
     BookTable(n) = [i \in DOMAIN both |->
                       [price |-> both[i].price, quantity |-> both[i].quantity]]

DepthTrue ==
  phase = "idle" =>
    \A n \in 0 .. Cardinality(listed["BUY"]) + Cardinality(listed["SELL"]) + 1 : TablesTrue(n)

=============================================================================

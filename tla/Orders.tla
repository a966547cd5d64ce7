------------------------------- MODULE Orders -------------------------------
(***************************************************************************)
(* The order object of include/order.h and src/order.cpp: its fields, its  *)
(* three constructors and the member functions that read or change it.     *)
(* An order is a record.  Its id is the index under which OrderBook stores *)
(* it, and its timestamp, which no decision of the book reads, is left out.*)
(***************************************************************************)
EXTENDS Integers, FiniteSetsExt

CONSTANTS
  Prices,   (* the scaled prices a client uses                              *)
  Word      (* quantities are unsigned words: 0 .. Word - 1 (2^64 in C++)   *)

ASSUME PricesAssumption == Prices \subseteq Int
ASSUME WordAssumption   == Word \in Nat \ {0}

Sides    == {"BUY", "SELL"}
Kinds    == {"LIMIT", "MARKET", "ICEBERG", "STOP_LOSS"}
Statuses == {"ACTIVE", "PARTIAL", "FILLED", "CANCELLED"}
Quantity == 0 .. Word - 1

(* A market order carries price 0, every order but a stop trigger 0. *)
Order ==
  [side : Sides, kind : Kinds, price : Prices \cup {0}, quantity : Quantity,
   leaves : Quantity, status : Statuses,
   display : Quantity, hidden : Quantity, orig : Quantity,
   trigger : Prices \cup {0}, triggered : BOOLEAN]

-----------------------------------------------------------------------------
(* Constructors *)

PlainOrder(side, kind, price, qty) ==
  [side |-> side, kind |-> kind, price |-> price, quantity |-> qty,
   leaves |-> qty, status |-> "ACTIVE",
   display |-> 0, hidden |-> 0, orig |-> 0,
   trigger |-> 0, triggered |-> FALSE]

(* total - display is unsigned subtraction: it wraps when display > total. *)
IcebergOrder(side, price, total, display) ==
  [PlainOrder(side, "ICEBERG", price, total) EXCEPT
     !.display = display, !.hidden = (total - display) % Word, !.orig = display]

StopLossOrder(side, trigger, limit, qty) ==
  [PlainOrder(side, "STOP_LOSS", limit, qty) EXCEPT !.trigger = trigger]

-----------------------------------------------------------------------------
(* Observers *)

IsFilled(o)  == o.leaves = 0
IsMarket(o)  == o.kind = "MARKET"
IsIceberg(o) == o.kind = "ICEBERG"
IsActiveUntilCancelled(o) == o.status # "CANCELLED"
IsActive(o) == o.status \in {"ACTIVE", "PARTIAL"}

(* visibleQty(), which is also what a resting order offers to the matcher.  *)
Visible(o) == IF IsIceberg(o) THEN o.display ELSE o.leaves

-----------------------------------------------------------------------------
(* Mutators *)

(* Refill the display lot of an iceberg from its hidden quantity.  (The    *)
(* longer names are slips: see module OrderBook.)                          *)
ReplenishWholeLots(o) ==
  IF ~IsIceberg(o) \/ o.hidden < o.orig
  THEN o
  ELSE [o EXCEPT !.display = (@ + o.orig) % Word, !.hidden = @ - o.orig]
ReplenishFromNowhere(o) ==
  IF ~IsIceberg(o) \/ o.hidden = 0
  THEN o
  ELSE [o EXCEPT !.display = (@ + Min({o.hidden, o.orig})) % Word]
Replenish(o) ==
  IF ~IsIceberg(o) \/ o.hidden = 0
  THEN o
  ELSE LET lot == Min({o.hidden, o.orig})
       IN  [o EXCEPT !.display = (@ + lot) % Word, !.hidden = @ - lot]

(* Execute qty of the order.  A partial fill of an iceberg is charged to   *)
(* the display lot alone, even where qty exceeds it.                       *)
FillUnclamped(o, qty) ==
  IF qty >= o.leaves
  THEN [o EXCEPT !.leaves  = 0,
                 !.display = IF IsIceberg(o) THEN 0 ELSE @,
                 !.hidden  = IF IsIceberg(o) THEN 0 ELSE @,
                 !.status  = "FILLED"]
  ELSE [o EXCEPT !.leaves  = @ - qty,
                 !.display = IF IsIceberg(o) THEN @ - qty ELSE @,
                 !.status  = "PARTIAL"]
Fill(o, qty) ==
  IF qty >= o.leaves
  THEN [o EXCEPT !.leaves  = 0,
                 !.display = IF IsIceberg(o) THEN 0 ELSE @,
                 !.hidden  = IF IsIceberg(o) THEN 0 ELSE @,
                 !.status  = "FILLED"]
  ELSE [o EXCEPT !.leaves  = @ - qty,
                 !.display = IF IsIceberg(o) THEN @ - Min({qty, @}) ELSE @,
                 !.status  = "PARTIAL"]

CancelOf(o) == [o EXCEPT !.leaves = 0, !.status = "CANCELLED"]

=============================================================================

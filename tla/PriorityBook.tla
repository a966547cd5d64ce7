----------------------------- MODULE PriorityBook -----------------------------
(***************************************************************************)
(* What the README promises of the book: "orders are matched using         *)
(* price-time (FIFO) priority".  Each side of the book is one queue of     *)
(* entries, best price first and, at one price, first come first.  At most *)
(* one order at a time, the taker, is matched against the other side, and  *)
(* it only ever meets the head of that queue.  An entry leaves the queue   *)
(* when nothing is left of it or when a client withdraws or amends it, and *)
(* never otherwise.  There are no levels, no lots and no stops here.       *)
(***************************************************************************)
EXTENDS Integers, SequencesExt

CONSTANTS
  Ids,     (* order ids                                                      *)
  Prices,  (* limit prices                                                   *)
  Left,    (* quantities, a set of natural numbers                           *)
  NoTaker  (* no order is being matched                                      *)

Entry == [id : Ids, price : Prices, left : Left]
Taker == [id : Ids, side : {"BUY", "SELL"}, market : BOOLEAN,
          price : Prices \cup {0}, left : Left]

VARIABLES
  book,    (* the queue of entries of each side                              *)
  taker    (* the order being matched, or NoTaker                            *)

vars == <<book, taker>>

Other(s) == IF s = "BUY" THEN "SELL" ELSE "BUY"

(* An entry of side s at price p comes before one at price q. *)
Ahead(s, p, q) == IF s = "BUY" THEN p > q ELSE p < q

(* Taker t accepts a trade at price p. *)
Accepts(t, p) == t.market \/ (IF t.side = "BUY" THEN p <= t.price ELSE p >= t.price)

(* Taker t can trade now. *)
CanTrade(t) == book[Other(t.side)] # <<>> /\ Accepts(t, Head(book[Other(t.side)]).price)

(* Queue q of side s with e behind every entry of an equal or better price. *)
Insert(q, s, e) ==
  LET n == Cardinality({i \in DOMAIN q : ~Ahead(s, e.price, q[i].price)})
  IN  InsertAt(q, n + 1, e)

Init == book = [s \in {"BUY", "SELL"} |-> <<>>] /\ taker = NoTaker

Arrive(t) == taker = NoTaker /\ taker' = t /\ UNCHANGED book

(* The taker trades n with the head of the other side. *)
Take(n) ==
  /\ taker # NoTaker
  /\ CanTrade(taker)
  /\ n <= taker.left
  /\ n <= Head(book[Other(taker.side)]).left
  /\ taker' = [taker EXCEPT !.left = @ - n]
  /\ book'  = [book EXCEPT ![Other(taker.side)][1].left = @ - n]

(* The head of a queue has nothing left and leaves. *)
Retire(s) ==
  /\ book[s] # <<>>
  /\ Head(book[s]).left = 0
  /\ book' = [book EXCEPT ![s] = Tail(@)]
  /\ UNCHANGED taker

(* The taker is done, or can trade no further and is a market order. *)
Leave ==
  /\ taker # NoTaker
  /\ taker.left = 0 \/ (taker.market /\ ~CanTrade(taker))
  /\ taker' = NoTaker
  /\ UNCHANGED book

(* The taker can trade no further and its remainder is queued. *)
Rest ==
  /\ taker # NoTaker
  /\ taker.left # 0 /\ ~taker.market /\ ~CanTrade(taker)
  /\ book'  = [book EXCEPT ![taker.side] =
                 Insert(@, taker.side,
                        [id |-> taker.id, price |-> taker.price, left |-> taker.left])]
  /\ taker' = NoTaker

(* A client withdraws the i-th entry of side s. *)
Withdraw(s, i) ==
  /\ taker = NoTaker
  /\ book' = [book EXCEPT ![s] = RemoveAt(@, i)]
  /\ UNCHANGED taker

(* A client gives the i-th entry of side s new terms: it loses its place. *)
Amend(s, i, p, n) ==
  /\ taker = NoTaker
  /\ book' = [book EXCEPT ![s] =
                Insert(RemoveAt(@, i), s, [id |-> @[i].id, price |-> p, left |-> n])]
  /\ UNCHANGED taker

Next ==
  \/ \E t \in Taker : Arrive(t)
  \/ \E n \in Left : Take(n)
  \/ \E s \in {"BUY", "SELL"} : Retire(s)
  \/ Leave
  \/ Rest
  \/ \E s \in {"BUY", "SELL"} : \E i \in DOMAIN book[s] : Withdraw(s, i)
  \/ \E s \in {"BUY", "SELL"} : \E i \in DOMAIN book[s], p \in Prices, n \in Left :
       Amend(s, i, p, n)

Spec == Init /\ [][Next]_vars

=============================================================================

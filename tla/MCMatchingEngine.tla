-------------------------- MODULE MCMatchingEngine ---------------------------
(***************************************************************************)
(* An instance of the engine for TLC: the orders that its clients submit.  *)
(***************************************************************************)
EXTENDS EngineProperties

MCIds == 1 .. 3

Plain(k, s, q) == [kind |-> k, side |-> s, price |-> 1, quantity |-> q,
                   display |-> 0, trigger |-> 1]

MCRequests == {Plain("LIMIT", "BUY", 1), Plain("LIMIT", "SELL", 1),
               Plain("STOP_LOSS", "SELL", 1)}

MCAmendments == [price : {1}, quantity : {1}]

=============================================================================

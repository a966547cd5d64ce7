--------------------------- MODULE MatchingEngine ----------------------------
(***************************************************************************)
(* The engine of include/matching_engine.h and src/matching_engine.cpp:    *)
(* threads that submit, cancel and amend orders, over the order book and   *)
(* the pool that the orders are allocated from.                            *)
(*                                                                         *)
(* The four submit functions take the same steps, between which any other  *)
(* thread may run:                                                         *)
(*                                                                         *)
(*   out        not in a call                                              *)
(*   allocate   has its id, before taking a block                          *)
(*   construct  has a block, before constructing the order in it           *)
(*   enter      waits for the book's lock, before match()                  *)
(*   match      inside match(), owner of the lock                          *)
(*   held       owner of the lock, at the end of cancelOrder() or          *)
(*              modifyOrder()                                              *)
(*   return     match() has returned, the local shared_ptr is still alive  *)
(*                                                                         *)
(* The shared_ptrs to an order are not counted: they are where the code    *)
(* keeps them, the containers of the book, the local batch of match() and  *)
(* the locals of the submit functions.  A thread whose step removes the    *)
(* last one has the order to dispose of before it takes its next step.     *)
(***************************************************************************)
EXTENDS OrderBook, MemoryPool

CONSTANT
  AmendedOnce  (* whether clients amend an order at most once: a bound of the *)
               (* runs, and FALSE for clients that amend as they like         *)

ASSUME AmendedOnceAssumption == AmendedOnce \in BOOLEAN
ASSUME IdsAssumption     == Ids \subseteq Nat \ {0}
ASSUME ObjectsAssumption == Objects = Ids

VARIABLES
  nextId,      (* next_id_                                                   *)
  at,          (* where each thread stands                                   *)
  own,         (* the order a thread submits, from taking its id to the end  *)
  home,        (* the block an order was constructed in, or 0                *)
  round,       (* the orders in the local batch of match() as it was taken   *)
  dying,       (* the orders each thread has to dispose of                   *)
  before       (* history: the calls over when an order's id was taken       *)

callVars   == <<nextId, at, own, home, round, before>>
engineVars == <<vars, poolVars, callVars, dying>>

Places == {"out", "allocate", "construct", "enter", "match", "held", "return"}

EngineInit ==
  /\ Init
  /\ PoolInit
  /\ nextId = 1
  /\ at     = [t \in Threads |-> "out"]
  /\ own    = [t \in Threads |-> None]
  /\ home   = [id \in Ids |-> 0]
  /\ round  = {}
  /\ dying  = [t \in Threads |-> {}]
  /\ before = [id \in Ids |-> {}]

-----------------------------------------------------------------------------
(* References *)

InBook ==
  ToSet(pending) \cup ToSet(staged) \cup ToSet(batch) \cup round \cup active
  \cup UNION {ToSet(level[s][p]) : s \in Sides, p \in Prices}

(* The pooled orders some shared_ptr refers to.  The order object that     *)
(* modifyOrder() puts in the book in the place of a pooled one is not from *)
(* the pool.                                                               *)
Referenced ==
  (InBook \ modified)
  \cup {own[t] : t \in {u \in Threads : at[u] \in {"enter", "match", "return"}}}

(* Thread t disposes of the orders that its step leaves unreferenced. *)
DropReferences(t) ==
  dying' = [dying EXCEPT ![t] = @ \cup (Referenced \ Referenced')]

(* Thread t has nothing to dispose of and stands at place. *)
Ready(t, place) == at[t] = place /\ dying[t] = {} /\ (block[t] = 0 \/ place = "construct")

(* Some thread owns the book's lock. *)
Locked == \E t \in Threads : at[t] \in {"match", "held"}

-----------------------------------------------------------------------------
(* submitLimit(), submitMarket(), submitIceberg(), submitStopLoss() *)

Returned == (1 .. nextId - 1) \ {own[t] : t \in Threads}

TakeIdByLoad(t) ==
  /\ Ready(t, "out")
  /\ nextId \in Ids
  /\ nextId' = IF \E u \in Threads : at[u] = "allocate" THEN nextId ELSE nextId + 1
  /\ own'    = [own EXCEPT ![t] = nextId]
  /\ at'     = [at EXCEPT ![t] = "allocate"]
  /\ before' = [before EXCEPT ![nextId] = Returned]
  /\ UNCHANGED <<vars, poolVars, home, round, dying>>
TakeId(t) ==
  /\ Ready(t, "out")
  /\ nextId \in Ids
  /\ nextId' = nextId + 1
  /\ own'    = [own EXCEPT ![t] = nextId]
  /\ at'     = [at EXCEPT ![t] = "allocate"]
  /\ before' = [before EXCEPT ![nextId] = Returned]
  /\ UNCHANGED <<vars, poolVars, home, round, dying>>

Allocate(t) ==
  /\ Ready(t, "allocate")
  /\ PopBlock(t)
  /\ at' = [at EXCEPT ![t] = "construct"]
  /\ UNCHANGED <<vars, nextId, own, home, round, before, dying>>

MakeOrderTwice(t) ==
  /\ Ready(t, "construct")
  /\ Construct(t, own[t])
  /\ home' = [home EXCEPT ![own[t]] = block[t]]
  /\ at'   = [at EXCEPT ![t] = IF home[own[t]] = 0 THEN "allocate" ELSE "enter"]
  /\ UNCHANGED <<vars, nextId, own, round, before, dying>>
MakeOrder(t) ==
  /\ Ready(t, "construct")
  /\ Construct(t, own[t])
  /\ home' = [home EXCEPT ![own[t]] = block[t]]
  /\ at'   = [at EXCEPT ![t] = "enter"]
  /\ UNCHANGED <<vars, nextId, own, round, before, dying>>

(* match() takes the lock.  A stop is held, and the lock released, at once. *)
Enter(t) ==
  /\ Ready(t, "enter")
  /\ ~Locked
  /\ \E r \in Requests :
       \/ HoldStop(own[t], r)   /\ at' = [at EXCEPT ![t] = "return"]
       \/ BeginMatch(own[t], r) /\ at' = [at EXCEPT ![t] = "match"]
  /\ UNCHANGED <<poolVars, nextId, own, home, round, before, dying>>

(* A step of match().  The local batch lives until each of its stops has   *)
(* been matched.                                                           *)
Match(t) ==
  /\ Ready(t, "match")
  /\ MatchStep
  /\ phase = "drain" /\ batch = <<>> => round = {}
  /\ round' = IF batch = <<>> /\ batch' # <<>> THEN ToSet(batch') ELSE round
  /\ at'    = IF phase' = "idle" THEN [at EXCEPT ![t] = "return"] ELSE at
  /\ UNCHANGED <<poolVars, nextId, own, home, before>>
  /\ DropReferences(t)

EndRound(t) ==
  /\ Ready(t, "match")
  /\ phase = "drain"
  /\ batch = <<>>
  /\ round # {}
  /\ round' = {}
  /\ UNCHANGED <<vars, poolVars, nextId, at, own, home, before>>
  /\ DropReferences(t)

(* The submit function returns, which ends its local shared_ptr. *)
ReturnAndDelete(t) ==
  /\ Ready(t, "return")
  /\ at'    = [at EXCEPT ![t] = "out"]
  /\ own'   = [own EXCEPT ![t] = None]
  /\ dying' = [dying EXCEPT ![t] = {own[t]}]
  /\ UNCHANGED <<vars, poolVars, nextId, home, round, before>>
Return(t) ==
  /\ Ready(t, "return")
  /\ at'  = [at EXCEPT ![t] = "out"]
  /\ own' = [own EXCEPT ![t] = None]
  /\ UNCHANGED <<vars, poolVars, nextId, home, round, before>>
  /\ DropReferences(t)

-----------------------------------------------------------------------------
(* cancelOrder() and modifyOrder().  An id that is not active changes      *)
(* nothing.  The old order goes before the lock does.                      *)
Cancel(t, id) ==
  /\ Ready(t, "out")
  /\ ~Locked
  /\ CancelOrder(id)
  /\ at' = [at EXCEPT ![t] = "held"]
  /\ UNCHANGED <<poolVars, nextId, own, home, round, before>>
  /\ DropReferences(t)

Modify(t, id, a) ==
  /\ Ready(t, "out")
  /\ ~Locked
  /\ AmendedOnce => id \notin modified
  /\ ModifyOrder(id, a)
  /\ at' = [at EXCEPT ![t] = "held"]
  /\ UNCHANGED <<poolVars, nextId, own, home, round, before>>
  /\ DropReferences(t)

Unlock(t) ==
  /\ Ready(t, "held")
  /\ at' = [at EXCEPT ![t] = "out"]
  /\ UNCHANGED <<vars, poolVars, nextId, own, home, round, before, dying>>

-----------------------------------------------------------------------------
(* PoolDeleter: the last shared_ptr to an order deallocates it. *)
Dispose(t, id) ==
  /\ id \in dying[t]
  /\ Destroy(t, home[id])
  /\ dying' = [dying EXCEPT ![t] = @ \ {id}]
  /\ home'  = [home EXCEPT ![id] = 0]
  /\ UNCHANGED <<vars, nextId, at, own, round, before>>

GiveBackUnderBookLock(t) ==
  /\ at[t] # "construct"
  /\ ~Locked
  /\ PushBlock(t)
  /\ UNCHANGED <<vars, callVars, dying>>
GiveBack(t) ==
  /\ at[t] # "construct"
  /\ PushBlock(t)
  /\ UNCHANGED <<vars, callVars, dying>>

-----------------------------------------------------------------------------
(* The steps of a thread inside a call. *)
ThreadStep(t) ==
  \/ Allocate(t)
  \/ MakeOrder(t)
  \/ Enter(t)
  \/ Match(t)
  \/ EndRound(t)
  \/ Return(t)
  \/ Unlock(t)
  \/ \E id \in Ids : Dispose(t, id)
  \/ GiveBack(t)

EngineNext ==
  \E t \in Threads :
    \/ TakeId(t)
    \/ \E id \in Ids : Cancel(t, id)
    \/ \E id \in Ids, a \in Amendments : Modify(t, id, a)
    \/ ThreadStep(t)

EngineSpec == EngineInit /\ [][EngineNext]_engineVars

(* A thread inside a call keeps running, and gets a lock that stays free. *)
FairEngineSpec ==
  EngineSpec /\ \A t \in Threads : WF_engineVars(ThreadStep(t))

=============================================================================

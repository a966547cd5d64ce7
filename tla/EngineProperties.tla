-------------------------- MODULE EngineProperties ---------------------------
(***************************************************************************)
(* What the engine's threads, its book and its pool owe each other.        *)
(***************************************************************************)
EXTENDS MatchingEngine

(* An order that any container or thread refers to is intact: its block    *)
(* holds it, and neither another order constructed in the same block nor a *)
(* deallocation before the last reference is gone has overwritten it.      *)
ReferencedIntact ==
  \A id \in Referenced : home[id] \in DOMAIN contents /\ contents[home[id]] = id

(* Nothing leaks: an object in the pool is an order in its one block,      *)
(* referenced or about to be disposed of.  The code had such a leak once,  *)
(* from a second allocation (matching_engine.cpp, line 102).               *)
NothingLeaks ==
  \A b \in DOMAIN contents : contents[b] # Nothing =>
    /\ home[contents[b]] = b
    /\ contents[b] \in Referenced \cup UNION {dying[t] : t \in Threads}

(* What the book assumes of its clients: an order that enters it has an id *)
(* no other order has had, whatever the threads that take ids do.          *)
IdsAreFresh ==
  \A t \in Threads : at[t] \in {"allocate", "construct", "enter"} =>
    /\ orders[own[t]] = None
    /\ \A u \in Threads \ {t} : own[u] # own[t]

(* Time priority as clients can observe it.  Ids and timestamps are taken  *)
(* before the lock, so that orders of overlapping calls may stand in either *)
(* order; but an order whose submission was over when another's began never *)
(* stands behind it, unless it was amended or, a stop, matched later.       *)
KeepsItsPlace(id) == id \notin modified /\ orders[id].kind # "STOP_LOSS"
FirstDoneFirstServed ==
  \A s \in Sides, p \in Prices : \A i, j \in DOMAIN level[s][p] :
    /\ i < j
    /\ KeepsItsPlace(level[s][p][i])
    /\ KeepsItsPlace(level[s][p][j])
    => level[s][p][j] \notin before[level[s][p][i]]

(* Every call returns, with what it leaves behind disposed of: the book's  *)
(* lock is held while the pool's is taken and never the other way round.   *)
InCall(t) == at[t] # "out" \/ dying[t] # {} \/ block[t] # 0
CallsReturn == \A t \in Threads : InCall(t) ~> ~InCall(t)

=============================================================================

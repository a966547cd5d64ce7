# A formal model of the limit order book matching engine

TLA+ modules, TLC configurations and TLAPS proofs about the C++ program in
`src/`: a limit order book with price-time priority, icebergs and stops, its
matching engine and memory pool, and a lock-free queue that feeds the engine
from several threads.

Run everything inside this directory:

    tlc -workers 2 -config book_core.cfg MCOrderBook
    tlapm OrderBookProofs.tla

## 1. The system

| Component | State it keeps | Operations | Used by |
|---|---|---|---|
| `Order` (`include/order.h`, `src/order.cpp`) | side, kind, price, quantities, status, display and hidden lot, trigger | three constructors, `fill`, `replenish`, `cancel`, `trigger` | `OrderBook` |
| `OrderBook` (`include/orderbook.h`, `src/orderbook.cpp`) | `bids_` and `asks_` (price to deque of orders), `active_` (id to order), `pending_stops_`, `triggered_stops_`, `trades_`, a shared mutex | `match`, `cancelOrder`, `modifyOrder`, queries, printing | `MatchingEngine` |
| `MemoryPool`, `PoolDeleter` (`include/memory_pool.h`) | slabs, a free list, a mutex | `allocate`, `deallocate`, `totalCapacity`, `freeCount` | `MatchingEngine`, and the deleters of the orders in the book |
| `MatchingEngine` (`include/matching_engine.h`, `src/matching_engine.cpp`) | the book, the pool, an atomic counter of ids | four submit functions, `cancelOrder`, `modifyOrder`, printing | clients, `ConcurrentMatchingEngine` |
| `ConcurrentQueue` (`benchmark/concurrent_queue.h`) | `head_`, `tail_`, a list of nodes on the heap | `enqueue`, `dequeue`, destructor | `ConcurrentMatchingEngine` |
| `ConcurrentMatchingEngine` (`benchmark/concurrent_matching_engine.*`) | an engine, a queue, a consumer thread, `running_`, a counter | submit functions and `cancelOrder` (they enqueue events), `stop`, the consumer's loop | the concurrent benchmark |
| benchmarks, STL baseline, demo, tests | | | |

How they interact. A client thread calls a submit function of `MatchingEngine`,
which takes an id from an atomic counter and a timestamp from a steady clock, takes a
block from the pool (a lock of its own), constructs the order there, and calls `OrderBook::match`,
which takes the book's unique lock and keeps it until the order, and every stop
its trades set off, is matched. Orders are `shared_ptr`s whose deleter returns
the block to the pool. In the concurrent engine the producers put events into the
queue instead, and one consumer thread takes them out and calls the engine; a
sentinel event makes it stop.

What is hard, and what makes each component correct:

* **Order book.** One book is described by three containers, updated at
  different places of five operations; an order of quantity left may be popped
  from its level in one branch too many. Icebergs keep three numbers in step
  (leaves, display, hidden). Stops travel through a pipeline of three queues
  while the trades of one stop fire others. Correct means: the containers agree;
  no order is lost, traded twice or traded after its cancellation; what is traded
  and what is left add up; price-time priority; `match()` returns.
* **Queue.** Every access races with those of the other threads, nodes are
  deleted while others may hold their address, and the tail lags behind. Correct
  means: FIFO, nothing lost or duplicated, "empty" only when it was, no access to
  a deleted node, progress whoever is delayed.
* **Pool.** Objects are constructed and destroyed outside the lock. Correct means: a
  block is free, in one thread's hands, or holds an object, never two of these; none
  is lost when the pool grows meanwhile.
* **Engine.** Ids and timestamps are taken before the book's lock is; the last
  reference to an order may be dropped by any thread, with or without the book's
  lock; the pool's lock is taken inside it. Correct means: ids are unique; an order
  stands behind every order whose submission was over when its own began; no order
  is given back while anything refers to it, and none leaks; every call returns.
* **Concurrent engine.** `stop()` queues the sentinel behind what is queued
  then. Correct means: every event submitted before `stop()` is dispatched once,
  in order, and `stop()` returns.

`PROJECT.json` lists these hazards at their lines, with the properties that cover
each.

## 2. The modules

| Module | What it is |
|---|---|
| `Orders` | the order record and its member functions, as operators |
| `OrderBook` | the book and `match()`, `cancelOrder()`, `modifyOrder()` |
| `PriorityBook` | abstract: each side one queue, best price first, then first come first |
| `OrderBookProperties` | properties of `OrderBook`, the refinement to `PriorityBook`, and the parts of the inductive invariants |
| `MCOrderBook` | the clients' requests of each run |
| `QueueLemmas`, `OrderBookProofs`, `OrderBookSafety`, `OrderBookLedger` | the theorems about the book |
| `OrderBookPriority` | the theorem that the book implements `PriorityBook` |
| `ConcurrentQueue` | `enqueue()` and `dequeue()`, one memory access per step |
| `FifoQueue` | abstract: a queue in which both take effect at once |
| `QueueProperties` | properties of `ConcurrentQueue` and the refinement to `FifoQueue` |
| `MCConcurrentQueue` | how many values each producer enqueues |
| `QueueProofs` | the theorems about the queue, the refinement of `FifoQueue` among them |
| `OrderBookQueries` | the const functions: best prices, spread, the tables of `printBook()` and `printDepth()`, and their properties |
| `MemoryPool` | slabs, free list, blocks in the hands of threads |
| `MatchingEngine` | threads in `submit*()`, `cancelOrder()`, `modifyOrder()`: composes `OrderBook` and `MemoryPool` |
| `EngineProperties`, `MCMatchingEngine` | what book, pool and threads owe each other; the clients' requests |
| `EngineProofs` | the theorem about the pool, and those about the engine's threads over book and pool, time priority among them |
| `ConcurrentMatchingEngine` | producers, consumer loop, `stop()` and the destructor, over `FifoQueue`; its properties and its refinement |
| `ConcurrentEngineProofs` | the theorems about `stop()`, and that the pipeline is one FIFO queue |

### OrderBook and the code

`orders` holds the order objects (`None` for an id not yet submitted). The maps
are two variables, `level[s][p]` (the deque of ids) and `listed[s]` (the set of
keys), because the code erases a key in a step of its own: that an empty deque is
never left under a key is a property (`BookIndexed`), not an assumption.
`pending`, `staged`, `trades`, `active` are `pending_stops_`, `triggered_stops_`,
`trades_`, `active_`; `cur` and `batch` are the incoming order and the local
`batch` of `match()`.

Every public operation runs under the unique lock, so operations do not
interleave; they are nevertheless not single steps. `match()` is modelled **one
loop iteration at a time**, `phase` saying where its thread stands:

    idle --BeginMatch--> match --Trade--> triggers --TriggersDone--> settle
                         ^  |  ^                                        |
                         |  |  +------- SettleFilled/Iceberg/Partial ---+
               MatchStop |  | FinishMatch
                         |  v
                        drain --EndMatch--> idle

| Action | Code (`src/orderbook.cpp`) |
|---|---|
| `HoldStop`, `BeginMatch` | 154-163: the stop is held, or the order goes to `matchBuy`/`matchSell` |
| `SkipEmpty` | 79 and 124: the order at the front shows nothing and is popped |
| `Trade` | 81-91, 126-136: both orders filled, trade recorded |
| `FireStop`, `TriggersDone` | 47-61: `checkStopTriggers()`, one stop per step |
| `SettleFilled`, `SettleIceberg`, `SettlePartial` | 93-101, 138-146: what becomes of the order traded with |
| `FinishMatch` | 104, 149: the outer loop ends, the remainder is booked |
| `TakeBatch`, `MatchStop`, `EndMatch` | 165-176: the loop over triggered stops |
| `CancelOrder`, `ModifyOrder` | 178-199 with `cancelLocked()`, 16-39 |

`matchBuy()` and `matchSell()` are the same code with the sides and comparisons
swapped, and one set of actions with `Opposite`, `Better` and `Crosses` stands
for both. Quantities are words `0 .. Word - 1` and wrap as unsigned integers do
(`IcebergOrder`, `Replenish`). Three history variables record what the code does
not keep: `executed` (traded so far), `modified` (ids `modifyOrder()` replaced) and
`placedAt` (how many trades there were when a stop was held).

`OrderBookProperties` maps the book to `PriorityBook`. The orders in the levels of a side
form one line: the place of an order is one more than the number of those in front of it,
which stand at a better price or nearer the front of its level (`InFront`, `LineUp`). The
abstract queue holds the id, price and leaves of each, and the abstract taker is `cur`. The
assumption `NoTakerAssumption` says that `None`, which stands for no taker, is not one.

### ConcurrentQueue and the code

A step is one access to memory that other threads see; `pc[t]` names the next one
and the module's header gives its line. `local[t]` are the local variables,
forgotten at the end of each round of the loop, as in C++. Nodes are addresses
with `next` and `value`; `live` and `deleted` are the allocator's view. A deleted
node keeps its contents until its address is handed out again: that is one of the
outcomes a build can produce when a deleted node is read, and no property is
claimed of a behaviour beyond such a read except where addresses are never reused,
in which case the nodes are in effect garbage-collected. Three constants name what the
environment may do: `Reuse` (a deleted address is allocated again), `Spurious`
(`compare_exchange_weak` fails where it could succeed, as on ARM) and `Running`
(the threads that are never delayed for ever). Accesses interleave, that is,
memory is sequentially consistent; the acquire/release pairs themselves are not
modelled.

`Destroy` is the destructor, callable when no thread is in a call: it walks the list
and deletes it. The run then ends in `Destroyed`.

### MemoryPool, MatchingEngine and the code

A block is its number; `contents` says what object lives in each, `free` is the free
list, and `block[t]` the local variable of `allocate()` and `deallocate()`, the block
a thread has in its hands outside the lock. `PopBlock` and `PushBlock` are the
critical sections (with `grow()` in the first); `Construct` and `Destroy` are the
placement new after the one and the destructor call before the other.

`MatchingEngine` gives each thread a place (`at[t]`) in the body common to the four
submit functions: id, block, construction, the wait for the book's lock, `match()`,
return. Inside `match()` a thread takes the steps of `OrderBook`, one at a time, while
the other threads take ids and blocks and give blocks back; only the lock keeps
them out of the book. `cancelOrder()` and `modifyOrder()` take and release the lock in
two steps, since `PoolDeleter` may run in between.

Reference counts are not a variable. `Referenced` is computed from where the code
keeps `shared_ptr`s: the book's containers, the local `batch` of `match()` (`round`:
the vector keeps its orders until the loop over it has ended, `EndRound`) and the
locals of the submit functions. A step that makes an order unreferenced leaves it in
`dying[t]` of the thread that took the step, which must run the deleter
(`Dispose`, `GiveBack`) before anything else. `modified` orders are not in the pool:
`modifyOrder()` replaces the pooled order by one from `make_shared`. `before[id]` is a
history variable, the ids whose submission had returned when `id` was taken.

### ConcurrentMatchingEngine and the code

The queue is `FifoQueue`, the abstract specification that the queue's runs show
`ConcurrentQueue` to implement. (With two or more producers that holds of the
algorithm without reclamation only: finding 3.) An event is the pair of its
producer and its number; the owner's events are sentinels. `Poll`, `Dispatch` and
`Count` are the loop of the consumer, `EnterStop` and `LeaveStop` the two halves of
`stop()`, before and after the join; the destructor takes the same two if `running_`
is still true. `promised` is a history variable: what had been submitted when `stop()`
was first called. `Pipeline` hides the sentinels and the loop: from the engine's side it
is one FIFO queue from which events come out at `Dispatch`.

### Slips

In the specification modules a definition is sometimes preceded by one or two
whose name lengthens its own (`RelistNothing` before `Relist`, `LinkByStore` before
`Link`). They are the definition with a plausible bug in it, used
by no action; put in its place, each makes a run report the property that
`PROJECT.json` pairs it with.

## 3. The runs

| Run | Instance | What it shows |
|---|---|---|
| `book_core` | 3 orders, 3 prices, quantities 1-2, limit and market orders, a stop, cancels, amendments | containers agree, active orders rest, only amendments cross the book, the ledger balances, queries and depth tables are true, price-time priority (refinement of `PriorityBook`) |
| `book_iceberg` | 4 orders, 1 price, icebergs of 3 with lots 0-2, limits 0-2, cancels, amendments to 0 and 2 | an order dropped from its level offers nothing, lots stay in step, the ledger balances, a trade of nothing is the only trade of an order of nothing, a cancelled order never trades |
| `book_stops` | 5 orders, 2 prices, stops of both sides at both triggers, buyers of 1, sellers of 2, cancels | one place per stop, nothing forgotten, no trigger missed, each step of `match()` brings it nearer to its end (action property), it returns |
| `book_makers` | 4 orders, 2 prices, icebergs that only rest | every resting iceberg shows a lot, and replenishment keeps its place (refinement) |
| `book_lost_iceberg` | icebergs that take before they rest | **violates** `ActiveOrdersRest`: see findings |
| `book_amended_iceberg` | icebergs that only rest, amended | **violates** `ActiveOrdersRest`: see findings |
| `queue_spsc` | 1 producer of 5 values, 1 consumer, 4 addresses, reused | no deleted node is touched, nothing leaks, FIFO |
| `queue_mpmc` | 2 producers (2 and 1 values), 2 consumers, spurious failures, no reuse | list intact, FIFO, empty answers true |
| `queue_delayed` | 2 producers (one may stop for ever at any line), 1 consumer | lock-freedom: the other producer's calls return, every value is delivered |
| `engine_pool` | 2 threads, 3 ids, limit orders of both sides and a stop, 1 price, slabs of 2 blocks | each block at one place, referenced orders intact, nothing leaks, fresh ids, time priority as clients see it, every call returns |
| `cme_stop` | 2 producers of 3 events, `stop()` up to twice, the destructor | drained and counted when `stop()` returns, in order and once each (refinement of `FifoQueue`), nothing moves afterwards, `stop()` returns |
| `queue_freed_node` | 2 producers of 1 value each, 1 consumer | **violates** `DereferencesLive`: see findings |

**Bounds, and why they are enough.** Orders are distinguished by side, price and
arrival. A loop of `match()` needs two resting orders to pass from one to the next and a
third to arrive.

A cascade needs more. Its second batch exists only if a stop trades while another
is pending, so that something must be left to trade with: in `book_stops` a seller of 2
at the lower price takes a buyer and rests with 1. If the buyer stood at the higher price, the
trade fires a buyer's stop; that stop takes the rest, at the lower price, which fires a
seller's stop. The stop that was fired by a stop's trade is matched in a second batch, and with
a third stop it is staged while the first batch is not over: five orders in all.
A `match()` that ends after one batch loses it, which is the slip the run is tried with
(`FinishMatchAfterOneBatch`). The run goes as far as a second batch; that a cascade of
any length comes to its end is `MatchDescends` (section 4).

Two prices make every comparison true, false and equal; the
depth tables, which sort and cut off, have three. Orders and amendments of quantity 0
are in `book_iceberg`.
Quantity 3 against lots of 0, 1 and 2 gives a lot that divides the remainder, one that
does not, and none; `Word` is larger than any quantity in the run, so that wrapping
is seen as a violation of `TypeOK` or `Ledger` and not hidden. Fresh ids bound the
number of submissions; cancellation and amendment repeat without bound. In the
queue, 5 values through 4 addresses make every address be used again while the
other thread is anywhere in its loop; two threads on one side are enough for each
compare-and-swap to lose a race, and the third value lets a producer return and
enter again while the other is in the middle of its call. In `engine_pool`, three orders
against slabs of two blocks make the pool grow while a thread has the last block of
the first slab in its hands, and reuse blocks after; two threads contend for both
locks, and the third id lets one submit again while the other is inside a call; an
order is amended at most once (`AmendedOnce`), which keeps calls finite. In `cme_stop`, three events
per producer fall before, between and behind the sentinels of `stop()`.

**Symmetry** is used on ids, addresses and consumers, in runs without liveness. In
`book_stops`, which has liveness, clients take their ids in turn instead
(`InTurnFairSpec`): ids are interchangeable, so that this leaves out no behaviour but
for the names of orders.
**Deadlock** is not checked in the book's runs: when the clients have used up the ids
and nothing is active, the book rests; so does the engine in `engine_pool`, whose
`CallsReturn` says that no call waits for ever, and in `cme_stop` the system ends when
the object is gone. The queue's runs check deadlock: consumers never stop calling
`dequeue()` until the queue is destroyed.

**Fairness.** `book_stops` assumes weak fairness of `MatchStep`, the steps of the
thread inside `match()`: it holds the lock, waits for nothing, and a thread that is
ready to run is scheduled. Nothing is assumed of the clients. `queue_delayed` assumes
weak fairness of one producer's steps inside `enqueue()` and of the consumer, and
nothing of the other producer, nor that anybody calls `enqueue()`. It leaves spurious
failures out, which weak fairness would let recur for ever. `engine_pool` assumes weak
fairness of each thread's steps inside a call: a thread is scheduled, and it gets the
book's lock if that stays free. Calls are finite in number, so that a lock that is
free is not taken away again and again; nothing is assumed of a mutex's order of
admission, nor that anybody begins a call. `cme_stop` assumes it of the consumer
and of the owner inside `stop()`, not of the producers nor that `stop()` is called.

### Findings

1. *An iceberg that takes first can be lost* (`book_lost_iceberg`). Its fills are
   charged to the display lot (`order.cpp:47-50`), it is booked without
   replenishment, and with an empty lot the next order to reach it pops it from its
   level while `active_` keeps it. `GhostsOfferNothing` and `IcebergsShowALot` say how
   far the promise does hold: what is dropped shows nothing, and an iceberg that
   only rests is always replenished.
2. *An amended iceberg is lost* (`book_amended_iceberg`). `modifyOrder()` makes the new
   order with the plain constructor (`orderbook.cpp:190`): its kind is still iceberg,
   its lots are 0. It rests with its new quantity and shows nothing, and the next
   order to reach it pops it from its level while `active_` keeps it. The README's own
   example amends an iceberg. Here too `GhostsOfferNothing` is all that holds, and
   `IcebergSplit` leaves out the iceberg that shows nothing: neither says that an
   amended iceberg can trade.
3. *A producer may follow a deleted node* (`queue_freed_node`). The node taken off
   the head is deleted at once; a second producer may have loaded it as the tail. With
   one producer, one consumer and a compare-and-swap that does not fail spuriously
   it cannot happen (`queue_spsc`), and the order of accesses is otherwise right for
   any number of threads (`queue_mpmc`): reclamation is all that is amiss.

Two things that a client may stumble over are modelled as they are and reported by no run.
`match()` compares a stop's trigger with later trades only: a stop submitted when the
last trade is already beyond its trigger waits for another one (the table of the
repository's README can be read otherwise), and `NoMissedTrigger` counts trades from the
submission on. An iceberg submitted with a lot larger than its total has a hidden
quantity that wraps; the constructor's comment (`order.h:17`) leaves it to clients not to do so,
and so do the runs and, as the assumption `LotsFit`, the theorems about lots.

## 4. The proofs

For all sets of ids, prices, requests and amendments and every word size, under
the named assumptions of `Orders`, `OrderBook`, `MemoryPool` and `MatchingEngine` only
(ids are positive numbers, and the pool holds orders and nothing else), and for any numbers of
threads, events and calls (`AmendedOnce`, by which `engine_pool` keeps calls finite, is a
constant of `MatchingEngine`; the theorems hold of either value, that is, also of clients that amend the
same order again and again):

| Theorem | Property |
|---|---|
| `StructureInvariant`, `TypeCorrect`, `IndexesAgree`, `NoOrderTwice` | `TypeOK`, `BookIndexed`, `OnePlaceEach` |
| `CancelledOrdersStayOut` | `CancelledNeverTrades`, an action property |
| `NothingTradedOnce` | `OnlyEmptyOrdersTradeNothing` |
| `NoOrderForgotten` | `NothingLost` |
| `GhostsAreEmpty` | `GhostsOfferNothing` |
| `CrossedByAmendmentsOnly` | `CrossedOnlyByModify` |
| `EveryTriggerSeen` | `NoMissedTrigger` |
| `MatchDescends` | `WorkShrinks`, an action property |
| `MatchGoesOn` | inside `match()` some step's guard holds (`CanGoOn`) |
| `TablesAreTrue` | `DepthTrue` |
| `BlocksApart` (`MemoryPool`, assuming `SlabSize` is not 0 and `Nothing` is no object) | `OnePlaceEachBlock` |
| `EngineUsesTheBook`, `EngineUsesThePool` | `EngineSpec => Spec` and `EngineSpec => PoolSpec` |
| `EngineBlocksApart`, `OrdersIntact`, `NoOrderLeaks`, `FreshIds` | `OnePlaceEachBlock`, `ReferencedIntact`, `NothingLeaks`, `IdsAreFresh` |
| `TimePriority` | `FirstDoneFirstServed` |
| `StopDrains`, `NothingAfterStop`, `PipelineIsFifo` (assuming the owner is no client) | `StoppedMeansDrained`, `SettledAfterStop`, an action property, and the refinement `RefinesPipeline` |
| `LotsAddUp`, `LedgerBalances` (assuming `LotsFit`: no iceberg displays more than its total) | `IcebergSplit`, `Ledger` |
| `RestingIcebergsShow` (assuming `LotsFit`, `LotsShow`: no iceberg has a lot of 0; and of behaviours in which icebergs only rest) | `IcebergsShowALot` |
| `ActiveOrdersStand`, `QuotesAreTrue` (assuming also `AmendmentsLeave`: no amendment to 0) | `ActiveOrdersRest`, `QuotesTrue` |
| `PlainOrdersStand` (assuming `AmendmentsLeave` and no icebergs, of all behaviours) | `ActiveOrdersRest`, `QuotesTrue` |
| `PriceTimePriority` (under the conditions of `ActiveOrdersStand`) | `RefinesPriorityBook`, the refinement of `PriorityBook` |
| `PlainPriority` (under those of `PlainOrdersStand`) | `RefinesPriorityBook` |
| `PointersSpellTheQueue`, `EmptyIsTrue` (assuming `SafelyReused`) | `ChainIntact`, `EmptyAnswersTrue` |
| `QueueIsFifo` (assuming `SafelyReused`) | `RefinesFifo`, the refinement of `FifoQueue` |
| `OneToOneIsMemorySafe` (assuming `OneToOne`) | `DereferencesLive` |
| `NothingLeaks` of the queue (assuming `SafelyReused` and finitely many nodes and threads) | `HeapAccounted` |

The argument. No single one of the three structural properties is inductive: that a
popped order may leave `active_` needs that it stands in no other level, which
needs that `cur` and the stops are in none, which needs the state between two steps
of `match()`. `Structure` is their conjunction with `Placed` (containers hold
submitted orders at prices that exist) and `LoopState` (an order is being matched
exactly in the loop phases, and until it is settled the order traded with is at the
front of its level). `OrderBookProofs` proves that each action keeps each conjunct
the action touches. On top of it, in `OrderBookSafety`:

* a cancelled order is in no container and is not being matched
  (`CancelledNowhere`), so that neither side of a trade is one;
* an order that is neither finished nor cancelled and has nothing left was made with
  nothing, and unless `modifyOrder()` made it so it does not rest and has not traded yet
  (`EmptyOrders`). A resting order that trades shows something, so that a trade of nothing is
  due to the incoming order, which it finishes (`TradeKeepsEmptyOrders`);
* `NothingLost`, `GhostsOfferNothing`, `CrossedOnlyByModify` and `NoMissedTrigger`
  are inductive relative to `Structure`. `CrossedOnlyByModify` uses that
  `FinishMatch` books an order only when the best price of the other side, hence
  every price, is out of its reach.

And in `OrderBookLedger`: a trade never exceeds what either order has left because an
iceberg's lot never exceeds its leaves, which needs `Lots`: display and hidden add up
to leaves or the display is empty, and for the order in the middle of being
settled they add up even when the lot is empty, without which `Replenish` would
break it. `LotsFit` is needed: an iceberg submitted with a lot larger than its
total starts with a hidden quantity that has wrapped.

`BlocksApart` is about the pool alone, whoever uses it: `PoolNext` lets any thread
allocate, construct and deallocate as long as what it deallocates is an object
that lives in a block. `OnePlaceEachBlock` is inductive once it says which blocks
exist: `PoolInv` adds the types and states it block by block (`HandsApart`,
`EmptyMeansSpare`); `GrownPool` shows that `grow()` keeps it and leaves a block to pop.

`EngineProofs` ties the two together. The engine's steps call `OrderBook` and
`MemoryPool` with arguments of their own, so that the engine uses the book as `Spec` says
only if the order it enters is an order, and the pool as `PoolSpec` says only if the
block it gives back holds the order it disposes of. That needs where each `shared_ptr` is:
`EngineInv` is `Structure` and `PoolInv` with `IdState` (each thread's id is its own, below
the counter, and in the book exactly while the thread is matching or returning),
`RoundState` (the local batch keeps what is being matched) and `HomeState` (an order that
is referenced or about to be disposed of is in its block, a block that is not empty holds
such an order, and no two threads dispose of one). That an order is never given back
twice or while referenced follows because a step puts an order in `dying` only when it
takes the last reference away, and an order nothing refers to is never referred to
again, ids being fresh. With `EngineUsesTheBook` and `EngineUsesThePool` every theorem
about the book and the pool holds of the engine.

`ConcurrentEngineProofs` follows one event from `submit` to the engine (`Promise`): before
`stop()` there is no sentinel and each event is dispatched, in the consumer's hands or
in the queue; afterwards what was submitted until then is one of the first two or
stands before every sentinel, and once the consumer has taken a sentinel there is no such place
left. A second sentinel changes nothing in this. `PipelineIsFifo` maps a step that
puts a client's event in the queue, or dispatches one, to the abstract step, and every
other to none. `ClientEvents`, the queue without its sentinels, is a recursive function:
that it keeps or drops what is pushed at the back (`KeptOfGrown`) and what stands in front
(`KeptOfFront`) is shown by a least counterexample.

*Time priority* (`TimePriority`) is a statement about the two sides of the book's lock:
`before[id]` is fixed when the id is taken, the place in the level when the order is booked.
`InTurn` is inductive over `EngineInv`: what a thread is still submitting is over for no
order (`TurnState`); the orders held for a trigger are stops, which the property leaves out
(`OnlyStopsHeld`); and no order stands behind one it was over for (`InOrder`). The step
that matters is `LevelOrder` of `OrderBookSafety`: only the booking of `FinishMatch` and an
amendment put an order behind another.

*What is on offer.* `OrderBookLedger` says when findings 1 and 2 do not happen. Its
condition `IcebergsOnlyRest` is about the behaviour, not the clients: no iceberg trades
while it is being matched (finding 1), and none is amended (finding 2). Then every iceberg that waits or is being matched still shows its first
lot, and every active order shows something, save the one between its trade and its
settlement (`IcebergsOffer`, `NothingEmpty`): replenishing never yields an empty lot, because
`Lots` leaves the hidden quantity equal to the leaves when the display is empty. With `GhostsOfferNothing`
every active order is then in a level. `QuotesAreTrue` needs besides that a best price
exists: the prices may be infinitely many, but a step lists at most one new one, so that
the listed ones stay bounded (`Bounded`).

*Why `match()` ends.* `Work` names what is still before it, most significant first: the stops
not yet begun, pending ones included; what the order being matched may still trade; where the loop
stands after a trade; and how many active orders stand in levels. A stop that fires only moves from one
queue to the next, and is gone from `Work` when it is begun; a trade lowers the second whatever the
resting order is replenished to; an order that shows nothing is passed by taking it out of
its level. `MatchDescends` proves that each step lowers `Work` in the lexicographic order, whose entries are
natural numbers. It needs that the orders in the levels are finitely many,
which is inductive: a step adds at most one to `active_`. `MatchGoesOn` proves that the loops never stand before
a step nobody can take: a listed price has a front, the best price exists, the order to be settled is
there. The two together are `LockReleased` without its last step: that a thread that can run
does run is fairness.

*The tables.* `printDepth()` computes one column by adding and the other by taking off from the total, in
words that wrap. `TablesAreTrue` shows both to be the sum of what all orders up to the row show. What a fold
does is known of a recursive function on the subsets of its domain (`FoldExists`, by a
least counterexample), so that the sum of a union of apart sets is the sum of the sums (`SumUnion`), and
wrapping after each addition is wrapping once at the end (`AddedIs`, of which taking off
is the case of negative numbers). The keys of a side exist in sorted order because they are
finitely many (`SortedExists`), the orders at a price are those in one level, and the orders up to a row
are those up to the row before and one level more (`NextKey`).

*Price-time priority.* `PriceTimePriority` says that each side of the book is one queue: what
trades is the head of the queue of the other side, and what joins a queue joins behind everything of
an equal or better price. `OrderBookPriority` characterises the line of a side (`IsLine`: the
orders of its levels, once each, of which the one in front precedes the other), shows that there
is exactly one, and then what one operation on one level does to it: a pop at the best price takes the
head off, a push at any price inserts behind the equal and better ones, an erase takes one
order out, an amendment in its level takes it to the back of its price. Two things are needed of
the state besides `Structure`. What `LineUp` computes is a line (`Aligned`: at first both are
empty, and each step shows what the next one is), and the order just traded with is still
the head of its line when it is settled, the stops fired in between notwithstanding
(`BestTraded`). The conditions are there because the code pops an order that shows nothing.
If that order has quantity left, as in findings 1 and 2, a queue loses an entry that nobody
withdrew. If it was amended to 0, the queue may lose it, but `active_` keeps it, and the
next amendment brings back an order that had left. So the theorem is about the
behaviours in which everything active is on offer, as `ActiveOrdersStand` has it.

*The queue.* `QueueProofs` has one invariant, `QueueInv`, for both regimes in which the
algorithm is right, `SafelyReused`: addresses are never used again, whatever the number of threads; or
they are, and there is one producer, one consumer and a compare-and-swap that fails only on a difference
(`OneToOne`). Finding 3 shows that the second cannot be extended to more producers. Its
parts are the chain (`Chained`: the pointers from `head_` spell `linked`, and `tail_` is the
last node or the one before), the heap (`Heap`: each allocated node is in the chain, or is one
producer's new node, or the old head of one consumer) and what each thread knows at each line
(`ProducerKnows`, `ConsumerKnows`). `Known` is where the regimes differ: without reuse a thread may hold
any node that was ever linked, whose `next` never changes again; with reuse, between one producer and
one consumer, only nodes still in the chain, which is why none of them has been deleted. A
successful compare-and-swap then means what the algorithm wants it to mean: the tail's `next` was null, so that the
node is the last one; the head had not moved, so that the value read before is the one taken.
That the destructor's walk visits exactly the chain is again by a least counterexample.

The facts about sequences (`QueueLemmas`: pop, push, and erase from an injective
sequence), folds and division with remainder are stated once and cited.

Induction enters nowhere as such: where an argument is inductive in a number, it
takes a least counterexample, whose existence (`LeastNumber`, `FirstNumber` of `QueueLemmas`)
follows from the well-foundedness of `<` on the naturals.

**Only model-checked.** The liveness properties, `LockReleased`, `EnqueueReturns`, `Delivered`,
`CallsReturn` and `StopReturns`: fairness and `ENABLED` are outside what the prover handles. Every
invariant, every action property and every refinement of the passing runs is proved.

## 5. What is not modelled, and why

* The destructors of `MatchingEngine`, `OrderBook` and `MemoryPool`. The engine declares
  `book_` before `pool_`, so that the pool's slabs go first and the orders still in the
  book are then given back to a pool that is gone: what happens there is undefined, and
  the model ends before it. The hazard is listed.
* `tradeHistory()` returns a reference to a vector that another thread may be growing, a
  data race; `printTrades()` lists the vector. `printStats()` and `printPoolStats()` read
  one value at a time under the lock and print them; nothing says that they belong
  together.
* `stop()` called by two threads at once: the lifecycle in the header has one owner.
* Timestamps: no decision reads them. Formatting and logging.
* Weak memory in the queue.
* Benchmarks, STL baseline, demo, tests, build files.

## 6. Plan

Done: the order book, its queries, runs and theorems up to the refinement of `PriorityBook`;
the queue with its destructor and its theorems; the pool and its theorem; the engine's threads
over book and pool, with theorems up to time priority; the concurrent engine over the
abstract queue, with its theorems; the depth tables, and that `match()` ends. Left, and out of
reach of these tools: weak memory in the queue, and proofs of the liveness properties.

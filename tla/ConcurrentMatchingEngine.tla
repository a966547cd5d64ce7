---------------------- MODULE ConcurrentMatchingEngine -----------------------
(***************************************************************************)
(* The engine behind a queue, benchmark/concurrent_matching_engine.h and   *)
(* .cpp: producers put events into the queue, one consumer takes them out  *)
(* and calls the matching engine, and the owner of the object stops and    *)
(* destroys it.  The queue is the abstract one, whose i-th value of thread *)
(* p is <<p, i>>: that of the owner is a sentinel.  A call of the matching *)
(* engine is one step, since no other thread calls it.                     *)
(*                                                                         *)
(*   consumer  poll       at the head of consumerLoop()                    *)
(*             dispatch   has an event, before calling the engine          *)
(*             count      the call has returned, before counting it        *)
(*             exited     consumerLoop() has returned                      *)
(*   owner     using      in no call                                       *)
(*             joining    inside stop(), behind its sentinel               *)
(*             stopped    stop() has returned                              *)
(*             gone       the object is destroyed                          *)
(***************************************************************************)
EXTENDS Integers, SequencesExt

CONSTANTS
  Clients,     (* producer threads                                           *)
  Owner,       (* the thread that calls stop() and the destructor            *)
  Dispatcher,  (* the consumer thread                                        *)
  MaxEvents,   (* bound: events a producer submits                           *)
  MaxStops     (* bound: how often the owner calls stop()                    *)

ASSUME OwnerAssumption == Owner \notin Clients

VARIABLES
  items, accepted, received,   (* queue_: see FifoQueue                      *)
  consumer,    (* where the consumer stands                                  *)
  ev,          (* its local event                                            *)
  dispatched,  (* the events the engine was called with, in order            *)
  processed,   (* events_processed_                                          *)
  owner,       (* where the owner stands                                     *)
  running,     (* running_                                                   *)
  closing,     (* the destructor has begun                                   *)
  promised     (* history: events submitted when stop() was first called     *)

Queue == INSTANCE FifoQueue
           WITH Producers <- Clients \cup {Owner}, Consumers <- {Dispatcher}

queueVars == <<items, accepted, received>>
workVars  == <<consumer, ev, dispatched, processed>>
ownerVars == <<owner, running, closing, promised>>
cmeVars   == <<queueVars, workVars, ownerVars>>

(* A default-constructed event, which no thread has submitted. *)
NoEvent == <<Dispatcher, 0>>

Init ==
  /\ Queue!Init
  /\ consumer   = "poll"
  /\ ev         = NoEvent
  /\ dispatched = <<>>
  /\ processed  = 0
  /\ owner      = "using"
  /\ running    = TRUE
  /\ closing    = FALSE
  /\ promised   = [p \in Clients |-> 0]

-----------------------------------------------------------------------------
(* submitLimit(), submitMarket(), cancelOrder(): the event is enqueued,    *)
(* whether or not stop() has been called.  No client calls an object that  *)
(* is being destroyed.                                                     *)
Submit(p) ==
  /\ ~closing
  /\ accepted[p] < MaxEvents
  /\ Queue!Enqueue(p)
  /\ UNCHANGED <<workVars, ownerVars>>

-----------------------------------------------------------------------------
(* consumerLoop(): as long as dequeue() fails it spins; a sentinel ends it. *)
IsSentinel(e) == e[1] = Owner

PollWithoutContinue ==
  /\ consumer = "poll"
  /\ IF items = <<>>
     THEN UNCHANGED <<queueVars, ev>>
     ELSE Queue!Dequeue(Dispatcher) /\ ev' = Head(items)
  /\ consumer' = IF IsSentinel(ev') THEN "exited" ELSE "dispatch"
  /\ UNCHANGED <<dispatched, processed, ownerVars>>
PollWhileRunning ==
  /\ consumer = "poll"
  /\ IF owner = "joining"
     THEN consumer' = "exited" /\ UNCHANGED <<queueVars, ev>>
     ELSE Queue!Dequeue(Dispatcher) /\ ev' = Head(items) /\ consumer' = "dispatch"
  /\ UNCHANGED <<dispatched, processed, ownerVars>>
Poll ==
  /\ consumer = "poll"
  /\ Queue!Dequeue(Dispatcher)
  /\ ev' = Head(items)
  /\ consumer' = IF IsSentinel(ev') THEN "exited" ELSE "dispatch"
  /\ UNCHANGED <<dispatched, processed, ownerVars>>

Dispatch ==
  /\ consumer = "dispatch"
  /\ dispatched' = Append(dispatched, ev)
  /\ consumer'   = "count"
  /\ UNCHANGED <<queueVars, ev, processed, ownerVars>>

Count ==
  /\ consumer = "count"
  /\ processed' = processed + 1
  /\ consumer'  = "poll"
  /\ UNCHANGED <<queueVars, ev, dispatched, ownerVars>>

-----------------------------------------------------------------------------
(* stop() puts a sentinel behind what is queued ... *)
EnterStopWithoutSentinel(last) ==
  /\ owner'    = "joining"
  /\ closing'  = last
  /\ promised' = IF accepted[Owner] = 0 THEN [p \in Clients |-> accepted[p]] ELSE promised
  /\ UNCHANGED <<queueVars, workVars, running>>
EnterStop(last) ==
  /\ Queue!Enqueue(Owner)
  /\ owner'    = "joining"
  /\ closing'  = last
  /\ promised' = IF accepted[Owner] = 0 THEN [p \in Clients |-> accepted[p]] ELSE promised
  /\ UNCHANGED <<workVars, running>>

Stop ==
  /\ owner \in {"using", "stopped"}
  /\ accepted[Owner] < MaxStops
  /\ EnterStop(FALSE)

(* ... and joins the consumer, unless an earlier stop() has. *)
LeaveStopWithoutJoin ==
  /\ owner = "joining"
  /\ running' = FALSE
  /\ owner'   = IF closing THEN "gone" ELSE "stopped"
  /\ UNCHANGED <<queueVars, workVars, closing, promised>>
LeaveStop ==
  /\ owner = "joining"
  /\ consumer = "exited"
  /\ running' = FALSE
  /\ owner'   = IF closing THEN "gone" ELSE "stopped"
  /\ UNCHANGED <<queueVars, workVars, closing, promised>>

(* The destructor stops the engine if nobody has. *)
Destroy ==
  /\ owner \in {"using", "stopped"}
  /\ \/ running /\ EnterStop(TRUE)
     \/ /\ ~running
        /\ owner'   = "gone"
        /\ closing' = TRUE
        /\ UNCHANGED <<queueVars, workVars, running, promised>>

-----------------------------------------------------------------------------
ConsumerStep == Poll \/ Dispatch \/ Count

Next ==
  \/ \E p \in Clients : Submit(p)
  \/ ConsumerStep
  \/ Stop
  \/ LeaveStop
  \/ Destroy

Spec == Init /\ [][Next]_cmeVars

(* The consumer runs, and so does the owner inside stop().  Nobody has to  *)
(* submit anything or to stop the engine.                                  *)
FairSpec == Spec /\ WF_cmeVars(ConsumerStep) /\ WF_cmeVars(LeaveStop)

-----------------------------------------------------------------------------
(* What clients put into a queue q, without the sentinels. *)
ClientEvents(q) ==
  LET kept[n \in 0 .. Len(q)] ==
        IF n = 0 THEN <<>>
        ELSE IF IsSentinel(q[n]) THEN kept[n - 1] ELSE Append(kept[n - 1], q[n])
  IN  kept[Len(q)]

InHand == IF consumer = "dispatch" THEN <<ev>> ELSE <<>>

(* Seen from the engine, the queue and the loop are one queue: each event  *)
(* reaches it once, in the order of submission, and an event that does not *)
(* is still waiting, also one that came behind the sentinel (lines 64-95). *)
Pipeline == INSTANCE FifoQueue WITH
  Producers <- Clients,
  Consumers <- {Dispatcher},
  items     <- ClientEvents(InHand \o items),
  accepted  <- [p \in Clients |-> accepted[p]],
  received  <- [c \in {Dispatcher} |-> dispatched]
RefinesPipeline == Pipeline!Spec

(* When stop() has returned, every event submitted before it was called    *)
(* has been dispatched, what was dispatched has been counted, and no thread *)
(* is left that could do more (header, lines 24 and 40).                   *)
StoppedMeansDrained ==
  owner \in {"stopped", "gone"} =>
    /\ \A p \in Clients : \A i \in 1..promised[p] : <<p, i>> \in ToSet(dispatched)
    /\ processed = Len(dispatched)
    /\ consumer = "exited"

(* The counter can be read from any thread after stop(): it no longer      *)
(* moves, nor does anything reach the engine, however late the clients.    *)
SettledAfterStop ==
  [][~running => UNCHANGED <<dispatched, processed>>]_cmeVars

(* stop() returns, and so does the destructor, called once or again,       *)
(* with events before and behind the sentinel.                             *)
StopReturns == owner = "joining" ~> owner # "joining"

=============================================================================

------------------------ MODULE ConcurrentEngineProofs ------------------------
(***************************************************************************)
(* For any number of clients, of events and of calls of stop(): what stop() *)
(* has promised is dispatched when it returns, nothing moves after it, and  *)
(* queue and loop together are one FIFO queue of the clients' events.      *)
(***************************************************************************)
EXTENDS ConcurrentMatchingEngine, QueueLemmas

Events == (Clients \cup {Owner}) \X (Nat \ {0})

CmeTypeOK ==
  /\ items \in Seq(Events)
  /\ accepted \in [Clients \cup {Owner} -> Nat]
  /\ consumer \in {"poll", "dispatch", "count", "exited"}
  /\ dispatched \in Seq(Events)
  /\ consumer = "dispatch" => ev \in Events
  /\ processed \in Nat
  /\ owner \in {"using", "joining", "stopped", "gone"}
  /\ promised \in [Clients -> Nat]

(* An event of a client that the engine has seen or is about to see. *)
Taken(e) == e \in ToSet(dispatched) \/ (consumer = "dispatch" /\ ev = e)

(* An event that the consumer will come to before any sentinel. *)
Ahead(e) ==
  \E j \in DOMAIN items : items[j] = e /\ \A k \in 1..j : ~IsSentinel(items[k])

(* Before stop() there is no sentinel, so that all that was submitted is   *)
(* taken or ahead; afterwards what was submitted until then still is, and  *)
(* the consumer that has found a sentinel has nothing ahead.               *)
Promise ==
  /\ accepted[Owner] = 0 =>
       /\ consumer # "exited"
       /\ \A p \in Clients : promised[p] = 0
       /\ \A j \in DOMAIN items : ~IsSentinel(items[j])
       /\ \A p \in Clients : \A i \in 1..accepted[p] : Taken(<<p, i>>) \/ Ahead(<<p, i>>)
  /\ \A p \in Clients : \A i \in 1..promised[p] :
       Taken(<<p, i>>) \/ (consumer # "exited" /\ Ahead(<<p, i>>))

Counted == Len(dispatched) = processed + (IF consumer = "count" THEN 1 ELSE 0)

Joined ==
  /\ owner \in {"stopped", "gone"} => consumer = "exited"
  /\ ~running => consumer = "exited"

CmeInv == CmeTypeOK /\ Promise /\ Counted /\ Joined

-----------------------------------------------------------------------------
(* The queue grows at its back and shrinks at its front. *)
LEMMA GrownQueue ==
  ASSUME items \in Seq(Events), NEW new \in Events, items' = Append(items, new)
  PROVE  /\ items' \in Seq(Events)
         /\ \A e \in Events : Ahead(e) => Ahead(e)'
         /\ (\A j \in DOMAIN items : ~IsSentinel(items[j])) /\ ~IsSentinel(new) =>
              Ahead(new)' /\ \A j \in DOMAIN items' : ~IsSentinel(items'[j])
<1>1. /\ items' \in Seq(Events)
      /\ DOMAIN items = 1 .. Len(items) /\ DOMAIN items' = 1 .. Len(items) + 1
      /\ \A i \in 1 .. Len(items) : items'[i] = items[i]
      /\ items'[Len(items) + 1] = new
      /\ Len(items) \in Nat
  BY AppendProperties
<1>2. ASSUME NEW e \in Events, Ahead(e) PROVE Ahead(e)'
  <2>1. PICK j \in DOMAIN items : items[j] = e /\ \A k \in 1..j : ~IsSentinel(items[k])
    BY <1>2 DEF Ahead
  <2>2. j \in DOMAIN items' /\ \A k \in 1..j : items'[k] = items[k]
    BY <1>1
  <2>3. j \in 1..j
    BY <1>1
  <2> QED BY <2>1, <2>2, <2>3 DEF Ahead, IsSentinel
<1>3. ASSUME \A j \in DOMAIN items : ~IsSentinel(items[j]), ~IsSentinel(new)
      PROVE  Ahead(new)' /\ \A j \in DOMAIN items' : ~IsSentinel(items'[j])
  <2>1. \A j \in DOMAIN items' : ~IsSentinel(items'[j])
    BY <1>1, <1>3 DEF IsSentinel
  <2>2. Len(items) + 1 \in DOMAIN items' /\ 1 .. Len(items) + 1 = DOMAIN items'
    BY <1>1
  <2> QED BY <1>1, <2>1, <2>2 DEF Ahead, IsSentinel
<1> QED BY <1>1, <1>2, <1>3

LEMMA ShrunkQueue ==
  ASSUME items \in Seq(Events), items # <<>>, items' = Tail(items)
  PROVE  /\ items' \in Seq(Events) /\ Head(items) \in Events
         /\ IsSentinel(Head(items)) =>
              /\ \E j \in DOMAIN items : IsSentinel(items[j])
              /\ \A e \in Events : ~Ahead(e)
         /\ \A e \in Events : Ahead(e) => e = Head(items) \/ Ahead(e)'
         /\ (\A j \in DOMAIN items : ~IsSentinel(items[j])) =>
              \A j \in DOMAIN items' : ~IsSentinel(items'[j])
<1>1. /\ items' \in Seq(Events)
      /\ Len(items) \in Nat \ {0}
      /\ DOMAIN items = 1 .. Len(items) /\ DOMAIN items' = 1 .. Len(items) - 1
      /\ \A i \in 1 .. Len(items) - 1 : items'[i] = items[i + 1]
      /\ Head(items) = items[1] /\ Head(items) \in Events
  BY HeadTailProperties
<1>2. 1 \in DOMAIN items /\ \A j \in DOMAIN items : 1 \in 1..j
  BY <1>1
<1>3. IsSentinel(Head(items)) =>
        /\ \E j \in DOMAIN items : IsSentinel(items[j])
        /\ \A e \in Events : ~Ahead(e)
  BY <1>1, <1>2 DEF Ahead, IsSentinel
<1>4. ASSUME NEW e \in Events, Ahead(e), e # Head(items) PROVE Ahead(e)'
  <2>1. PICK j \in DOMAIN items : items[j] = e /\ \A k \in 1..j : ~IsSentinel(items[k])
    BY <1>4 DEF Ahead
  <2>2. j # 1
    BY <1>1, <1>4, <2>1
  <2>3. j - 1 \in DOMAIN items' /\ items'[j - 1] = items[j]
    BY <1>1, <2>2
  <2>4. \A k \in 1 .. j - 1 : k + 1 \in 1..j /\ items'[k] = items[k + 1]
    BY <1>1
  <2>5. \A k \in 1 .. j - 1 : ~IsSentinel(items'[k])
    BY <2>1, <2>4 DEF IsSentinel
  <2> QED BY <2>1, <2>3, <2>5 DEF Ahead, IsSentinel
<1>5. (\A j \in DOMAIN items : ~IsSentinel(items[j])) =>
        \A j \in DOMAIN items' : ~IsSentinel(items'[j])
  <2>1. \A j \in DOMAIN items' : j + 1 \in DOMAIN items /\ items'[j] = items[j + 1]
    BY <1>1
  <2> QED BY <2>1 DEF IsSentinel
<1> QED BY <1>1, <1>3, <1>4, <1>5

-----------------------------------------------------------------------------
LEMMA CmeInitHolds == Init => CmeInv
<1> SUFFICES ASSUME Init PROVE CmeInv
  OBVIOUS
<1>1. /\ items = <<>> /\ dispatched = <<>> /\ processed = 0 /\ running = TRUE
      /\ accepted = [p \in Clients \cup {Owner} |-> 0] /\ promised = [p \in Clients |-> 0]
      /\ consumer = "poll" /\ owner = "using"
  BY DEF Init, Queue!Init
<1>2. CmeTypeOK
  BY <1>1 DEF CmeTypeOK
<1>3. Promise
  BY <1>1 DEF Promise
<1>4. Counted /\ Joined
  BY <1>1 DEF Counted, Joined
<1> QED BY <1>2, <1>3, <1>4 DEF CmeInv

LEMMA SubmitKeeps ==
  ASSUME CmeInv, NEW p \in Clients, Submit(p)
  PROVE  CmeInv'
<1> PICK new : new = <<p, accepted[p] + 1>>
  OBVIOUS
<1>1. /\ items' = Append(items, new) /\ accepted' = [accepted EXCEPT ![p] = @ + 1]
      /\ UNCHANGED <<consumer, ev, dispatched, processed, owner, running, closing, promised>>
  BY DEF Submit, Queue!Enqueue, workVars, ownerVars
<1>2. p # Owner /\ new \in Events /\ ~IsSentinel(new)
  BY OwnerAssumption DEF CmeInv, CmeTypeOK, Events, IsSentinel
<1>3. /\ items' \in Seq(Events)
      /\ \A e \in Events : Ahead(e) => Ahead(e)'
      /\ (\A j \in DOMAIN items : ~IsSentinel(items[j])) =>
           Ahead(new)' /\ \A j \in DOMAIN items' : ~IsSentinel(items'[j])
  BY <1>1, <1>2, GrownQueue DEF CmeInv, CmeTypeOK
<1>4. \A e \in Events : Taken(e)' <=> Taken(e)
  BY <1>1 DEF Taken
<1>5. \A q \in Clients, i \in Nat \ {0} : <<q, i>> \in Events
  BY DEF Events
<1>6. CmeTypeOK'
  BY <1>1, <1>3 DEF CmeInv, CmeTypeOK
<1>7. Promise'
  <2>1. accepted'[Owner] = accepted[Owner]
    BY <1>1, <1>2 DEF CmeInv, CmeTypeOK
  <2>2. ASSUME accepted[Owner] = 0, NEW q \in Clients, NEW i \in 1..accepted'[q]
        PROVE  (Taken(<<q, i>>) \/ Ahead(<<q, i>>))'
    <3>1. \/ i \in 1..accepted[q] /\ i \in Nat \ {0}
          \/ q = p /\ i = accepted[p] + 1
      <4>1. CASE q = p
        BY <1>1, <2>2, <4>1 DEF CmeInv, CmeTypeOK
      <4>2. CASE q # p
        BY <1>1, <2>2, <4>2 DEF CmeInv, CmeTypeOK
      <4> QED BY <4>1, <4>2
    <3>2. CASE i \in 1..accepted[q] /\ i \in Nat \ {0}
      BY <1>3, <1>4, <1>5, <2>2, <3>2 DEF CmeInv, Promise
    <3>3. CASE q = p /\ i = accepted[p] + 1
      <4>1. Ahead(new)'
        BY <1>3, <2>2 DEF CmeInv, Promise
      <4>2. new = <<q, i>>
        BY <3>3
      <4> QED BY <4>1, <4>2
    <3> QED BY <3>1, <3>2, <3>3
  <2>3. ASSUME NEW q \in Clients, NEW i \in 1..promised[q]
        PROVE  (Taken(<<q, i>>) \/ (consumer # "exited" /\ Ahead(<<q, i>>)))'
    <3>1. <<q, i>> \in Events
      BY <1>5, <2>3 DEF CmeInv, CmeTypeOK
    <3> QED BY <1>1, <1>3, <1>4, <2>3, <3>1 DEF CmeInv, Promise
  <2> QED BY <1>1, <1>3, <2>1, <2>2, <2>3 DEF CmeInv, Promise
<1>8. Counted' /\ Joined'
  BY <1>1 DEF CmeInv, Counted, Joined
<1> QED BY <1>6, <1>7, <1>8 DEF CmeInv

LEMMA PollKeeps ==
  ASSUME CmeInv, Poll
  PROVE  CmeInv'
<1>1. /\ items # <<>> /\ items' = Tail(items) /\ ev' = Head(items)
      /\ consumer = "poll"
      /\ consumer' = IF IsSentinel(Head(items)) THEN "exited" ELSE "dispatch"
      /\ UNCHANGED <<accepted, dispatched, processed, owner, running, closing, promised>>
  BY DEF Poll, Queue!Dequeue, ownerVars, IsSentinel
<1>2. /\ items' \in Seq(Events) /\ Head(items) \in Events
      /\ IsSentinel(Head(items)) =>
           /\ \E j \in DOMAIN items : IsSentinel(items[j])
           /\ \A e \in Events : ~Ahead(e)
      /\ \A e \in Events : Ahead(e) => e = Head(items) \/ Ahead(e)'
      /\ (\A j \in DOMAIN items : ~IsSentinel(items[j])) =>
           \A j \in DOMAIN items' : ~IsSentinel(items'[j])
  BY <1>1, ShrunkQueue DEF CmeInv, CmeTypeOK
<1>3. \A e \in Events : Taken(e) => Taken(e)'
  BY <1>1 DEF Taken
<1>4. ~IsSentinel(Head(items)) => \A e \in Events : Ahead(e) => Taken(e)' \/ Ahead(e)'
  BY <1>1, <1>2 DEF Taken
<1>5. \A q \in Clients, i \in Nat \ {0} : <<q, i>> \in Events
  BY DEF Events
<1>6. CmeTypeOK'
  BY <1>1, <1>2 DEF CmeInv, CmeTypeOK
<1>7. Promise'
  <2>1. ASSUME accepted[Owner] = 0
        PROVE  /\ ~IsSentinel(Head(items)) /\ consumer' # "exited"
               /\ \A j \in DOMAIN items' : ~IsSentinel(items'[j])
    <3>1. ~IsSentinel(Head(items))
      BY <1>2, <2>1 DEF CmeInv, Promise
    <3> QED BY <1>1, <1>2, <2>1, <3>1 DEF CmeInv, Promise
  <2>2. ASSUME accepted[Owner] = 0, NEW q \in Clients, NEW i \in 1..accepted[q]
        PROVE  (Taken(<<q, i>>) \/ Ahead(<<q, i>>))'
    <3>1. <<q, i>> \in Events
      BY <1>5, <2>2 DEF CmeInv, CmeTypeOK
    <3>2. Taken(<<q, i>>) \/ Ahead(<<q, i>>)
      BY <2>2 DEF CmeInv, Promise
    <3> QED BY <1>3, <1>4, <2>1, <2>2, <3>1, <3>2
  <2>3. ASSUME NEW q \in Clients, NEW i \in 1..promised[q]
        PROVE  (Taken(<<q, i>>) \/ (consumer # "exited" /\ Ahead(<<q, i>>)))'
    <3>1. <<q, i>> \in Events
      BY <1>5, <2>3 DEF CmeInv, CmeTypeOK
    <3>2. Taken(<<q, i>>) \/ Ahead(<<q, i>>)
      BY <2>3 DEF CmeInv, Promise
    <3>3. CASE IsSentinel(Head(items))
      BY <1>2, <1>3, <3>1, <3>2, <3>3
    <3>4. CASE ~IsSentinel(Head(items))
      BY <1>1, <1>3, <1>4, <3>1, <3>2, <3>4
    <3> QED BY <3>3, <3>4
  <2> QED BY <1>1, <2>1, <2>2, <2>3 DEF CmeInv, Promise
<1>8. Counted' /\ Joined'
  BY <1>1 DEF CmeInv, Counted, Joined
<1> QED BY <1>6, <1>7, <1>8 DEF CmeInv

LEMMA DispatchKeeps ==
  ASSUME CmeInv, Dispatch
  PROVE  CmeInv'
<1>1. /\ dispatched' = Append(dispatched, ev) /\ consumer = "dispatch" /\ consumer' = "count"
      /\ UNCHANGED <<items, accepted, ev, processed, owner, running, closing, promised>>
  BY DEF Dispatch, queueVars, ownerVars
<1>2. /\ dispatched' \in Seq(Events) /\ Len(dispatched') = Len(dispatched) + 1
      /\ ToSet(dispatched') = ToSet(dispatched) \cup {ev}
  BY <1>1, PushQueue, AppendProperties DEF CmeInv, CmeTypeOK
<1>3. \A e : Taken(e)' <=> Taken(e)
  BY <1>1, <1>2 DEF Taken
<1>4. \A e : Ahead(e)' <=> Ahead(e)
  BY <1>1 DEF Ahead, IsSentinel
<1>5. CmeTypeOK'
  BY <1>1, <1>2 DEF CmeInv, CmeTypeOK
<1>6. Promise'
  BY <1>1, <1>3, <1>4 DEF CmeInv, Promise, IsSentinel
<1>7. Counted'
  BY <1>1, <1>2 DEF CmeInv, CmeTypeOK, Counted
<1>8. Joined'
  BY <1>1 DEF CmeInv, Joined
<1> QED BY <1>5, <1>6, <1>7, <1>8 DEF CmeInv

LEMMA CountKeeps ==
  ASSUME CmeInv, Count
  PROVE  CmeInv'
<1>1. /\ processed' = processed + 1 /\ consumer = "count" /\ consumer' = "poll"
      /\ UNCHANGED <<items, accepted, ev, dispatched, owner, running, closing, promised>>
  BY DEF Count, queueVars, ownerVars
<1>2. \A e : (Taken(e)' <=> Taken(e)) /\ (Ahead(e)' <=> Ahead(e))
  BY <1>1 DEF Taken, Ahead, IsSentinel
<1>3. CmeTypeOK'
  BY <1>1 DEF CmeInv, CmeTypeOK
<1>4. Promise'
  BY <1>1, <1>2 DEF CmeInv, Promise, IsSentinel
<1>5. Counted'
  BY <1>1 DEF CmeInv, CmeTypeOK, Counted
<1>6. Joined'
  BY <1>1 DEF CmeInv, Joined
<1> QED BY <1>3, <1>4, <1>5, <1>6 DEF CmeInv

(* The first sentinel goes behind what has been submitted; a later one     *)
(* disturbs nothing.                                                       *)
LEMMA EnterStopKeeps ==
  ASSUME CmeInv, NEW last \in BOOLEAN, EnterStop(last)
  PROVE  CmeInv'
<1> DEFINE new == <<Owner, accepted[Owner] + 1>>
<1>1. /\ items' = Append(items, new) /\ accepted' = [accepted EXCEPT ![Owner] = @ + 1]
      /\ owner' = "joining"
      /\ promised' = IF accepted[Owner] = 0 THEN [p \in Clients |-> accepted[p]] ELSE promised
      /\ UNCHANGED <<consumer, ev, dispatched, processed, running>>
  BY DEF EnterStop, Queue!Enqueue, workVars
<1>2. new \in Events
  BY DEF CmeInv, CmeTypeOK, Events
<1> HIDE DEF new
<1>3. items' \in Seq(Events) /\ \A e \in Events : Ahead(e) => Ahead(e)'
  BY <1>1, <1>2, GrownQueue DEF CmeInv, CmeTypeOK
<1>4. \A e \in Events : Taken(e)' <=> Taken(e)
  BY <1>1 DEF Taken
<1>5. CmeTypeOK'
  <2>1. promised' \in [Clients -> Nat]
    BY <1>1 DEF CmeInv, CmeTypeOK
  <2> QED BY <1>1, <1>3, <2>1 DEF CmeInv, CmeTypeOK
<1>6. Promise'
  <2>1. accepted'[Owner] # 0
    BY <1>1 DEF CmeInv, CmeTypeOK
  <2>2. ASSUME NEW q \in Clients, NEW i \in 1..promised'[q]
        PROVE  (Taken(<<q, i>>) \/ (consumer # "exited" /\ Ahead(<<q, i>>)))'
    <3>1. <<q, i>> \in Events
      BY <1>5, <2>2 DEF CmeTypeOK, Events
    <3>2. CASE accepted[Owner] = 0
      BY <1>1, <1>3, <1>4, <2>2, <3>1, <3>2 DEF CmeInv, Promise
    <3>3. CASE accepted[Owner] # 0
      BY <1>1, <1>3, <1>4, <2>2, <3>1, <3>3 DEF CmeInv, Promise
    <3> QED BY <3>2, <3>3
  <2> QED BY <2>1, <2>2 DEF Promise
<1>7. Counted' /\ Joined'
  BY <1>1 DEF CmeInv, Counted, Joined
<1> QED BY <1>5, <1>6, <1>7 DEF CmeInv

(* A step of the owner alone. *)
LEMMA OwnerKeeps ==
  ASSUME CmeInv, UNCHANGED <<queueVars, workVars, promised>>,
         owner' \in {"stopped", "gone"}, running' \in {running, FALSE}, consumer = "exited"
  PROVE  CmeInv'
<1>1. UNCHANGED <<items, accepted, consumer, ev, dispatched, processed, promised>>
  BY DEF queueVars, workVars
<1>2. \A e : (Taken(e)' <=> Taken(e)) /\ (Ahead(e)' <=> Ahead(e))
  BY <1>1 DEF Taken, Ahead, IsSentinel
<1>3. CmeTypeOK'
  BY <1>1 DEF CmeInv, CmeTypeOK
<1>4. Promise'
  BY <1>1, <1>2 DEF CmeInv, Promise, IsSentinel
<1>5. Counted' /\ Joined'
  BY <1>1 DEF CmeInv, Counted, Joined
<1> QED BY <1>3, <1>4, <1>5 DEF CmeInv

LEMMA CmeStepKeeps == CmeInv /\ [Next]_cmeVars => CmeInv'
<1> SUFFICES ASSUME CmeInv, [Next]_cmeVars PROVE CmeInv'
  OBVIOUS
<1>1. CASE UNCHANGED cmeVars
  <2>1. UNCHANGED <<items, accepted, consumer, ev, dispatched, processed, owner, running, promised>>
    BY <1>1 DEF cmeVars, queueVars, workVars, ownerVars
  <2>2. \A e : (Taken(e)' <=> Taken(e)) /\ (Ahead(e)' <=> Ahead(e))
    BY <2>1 DEF Taken, Ahead, IsSentinel
  <2>3. CmeTypeOK' /\ Counted' /\ Joined'
    BY <2>1 DEF CmeInv, CmeTypeOK, Counted, Joined
  <2>4. Promise'
    BY <2>1, <2>2 DEF CmeInv, Promise, IsSentinel
  <2> QED BY <2>3, <2>4 DEF CmeInv
<1>2. CASE \E p \in Clients : Submit(p)
  BY <1>2, SubmitKeeps
<1>3. CASE ConsumerStep
  BY <1>3, PollKeeps, DispatchKeeps, CountKeeps DEF ConsumerStep
<1>4. CASE Stop
  BY <1>4, EnterStopKeeps DEF Stop
<1>5. CASE LeaveStop
  BY <1>5, OwnerKeeps DEF LeaveStop
<1>6. CASE Destroy
  <2>1. CASE running /\ EnterStop(TRUE)
    BY <2>1, EnterStopKeeps
  <2>2. CASE ~running /\ owner' = "gone" /\ UNCHANGED <<queueVars, workVars, running, promised>>
    BY <2>2, OwnerKeeps DEF CmeInv, Joined
  <2> QED BY <1>6, <2>1, <2>2 DEF Destroy
<1> QED BY <1>1, <1>2, <1>3, <1>4, <1>5, <1>6 DEF Next

(* The promise of stop() is kept at every step between.                    *)
THEOREM CmeInvariant == Spec => []CmeInv
BY CmeInitHolds, CmeStepKeeps, PTL DEF Spec

(* When stop() has returned, every event submitted before it was called    *)
(* has been dispatched and counted (lines 54 to 62).                       *)
THEOREM StopDrains == Spec => []StoppedMeansDrained
<1>1. CmeInv => StoppedMeansDrained
  <2> SUFFICES ASSUME CmeInv, owner \in {"stopped", "gone"} PROVE StoppedMeansDrained
    BY DEF StoppedMeansDrained
  <2>1. consumer = "exited"
    BY DEF CmeInv, Joined
  <2>2. processed = Len(dispatched)
    BY <2>1 DEF CmeInv, CmeTypeOK, Counted
  <2>3. \A p \in Clients : \A i \in 1..promised[p] : <<p, i>> \in ToSet(dispatched)
    BY <2>1 DEF CmeInv, Promise, Taken
  <2> QED BY <2>1, <2>2, <2>3 DEF StoppedMeansDrained
<1> QED BY <1>1, CmeInvariant, PTL

(* After that nothing reaches the engine, and the counter stands still.    *)
THEOREM NothingAfterStop == Spec => SettledAfterStop
<1>1. CmeInv /\ [Next]_cmeVars => [~running => UNCHANGED <<dispatched, processed>>]_cmeVars
  <2> SUFFICES ASSUME CmeInv, Next, ~running PROVE UNCHANGED <<dispatched, processed>>
    OBVIOUS
  <2>1. consumer = "exited"
    BY DEF CmeInv, Joined
  <2> QED BY <2>1 DEF Next, Submit, ConsumerStep, Poll, Dispatch, Count, Stop, EnterStop,
                      LeaveStop, Destroy, workVars, ownerVars
<1> QED BY <1>1, CmeInvariant, PTL DEF Spec, SettledAfterStop

-----------------------------------------------------------------------------
(* The queue without its sentinels.  ClientEvents() is a recursive function *)
(* over the front parts of the queue; a least counterexample stands in for *)
(* induction over them.                                                    *)

KeptOf(f, q, n) ==
  IF n = 0 THEN <<>>
  ELSE IF IsSentinel(q[n]) THEN f[n - 1] ELSE Append(f[n - 1], q[n])

Keeps(f, q, m) == f = [n \in 0 .. m |-> KeptOf(f, q, n)]

(* There is such a function, and its values are queues of client events. *)
LEMMA KeptExists ==
  ASSUME NEW q \in Seq(Events)
  PROVE  \E f : Keeps(f, q, Len(q))
<1> DEFINE Bad == {m \in 0 .. Len(q) : ~\E f : Keeps(f, q, m)}
<1>1. Len(q) \in Nat /\ Bad \subseteq Nat
  OBVIOUS
<1> SUFFICES ASSUME Bad # {} PROVE FALSE
  BY <1>1
<1>2. PICK m \in Bad : m \in Nat /\ (m # 0 => m - 1 \in Nat /\ m - 1 \notin Bad)
  <2> HIDE DEF Bad
  <2> QED BY <1>1, FirstNumber
<1>3. m \in 0 .. Len(q) /\ ~\E f : Keeps(f, q, m)
  BY <1>2
<1>4. CASE m = 0
  <2> DEFINE f == [n \in 0 .. m |-> <<>>]
  <2>1. \A n \in 0 .. m : KeptOf(f, q, n) = <<>>
    BY <1>4 DEF KeptOf
  <2>2. Keeps(f, q, m)
    BY <2>1 DEF Keeps
  <2> QED BY <1>3, <2>2
<1>5. CASE m # 0
  <2>1. m - 1 \in 0 .. Len(q) /\ m - 1 < m /\ m \in Nat
    BY <1>1, <1>3, <1>5
  <2>2. m - 1 \notin Bad
    <3> HIDE DEF Bad
    <3> QED BY <1>2, <1>5
  <2>3. PICK g : Keeps(g, q, m - 1)
    BY <2>1, <2>2
  <2>4. /\ DOMAIN g = 0 .. m - 1
        /\ \A n \in 0 .. m - 1 : g[n] = KeptOf(g, q, n)
    BY <2>3 DEF Keeps
  <2> DEFINE f == [n \in 0 .. m |-> IF n = m THEN KeptOf(g, q, m) ELSE g[n]]
  <2>5. \A n \in 0 .. m : f[n] = KeptOf(f, q, n)
    <3> SUFFICES ASSUME NEW n \in 0 .. m PROVE f[n] = KeptOf(f, q, n)
      OBVIOUS
    <3>1. n # 0 => n - 1 \in 0 .. m /\ n - 1 # m
      BY <2>1
    <3>2. n # 0 => f[n - 1] = g[n - 1]
      BY <3>1
    <3>3. KeptOf(f, q, n) = KeptOf(g, q, n)
      <4> HIDE DEF f
      <4> QED BY <3>2 DEF KeptOf
    <3>4. n # m => n \in 0 .. m - 1
      BY <2>1
    <3> QED BY <2>4, <3>3, <3>4
  <2>6. Keeps(f, q, m)
    <3>1. f = [n \in 0 .. m |-> f[n]]
      OBVIOUS
    <3> HIDE DEF f
    <3> QED BY <2>5, <3>1 DEF Keeps
  <2> HIDE DEF f
  <2> QED BY <1>3, <2>6
<1> QED BY <1>4, <1>5

LEMMA KeptFunction ==
  ASSUME NEW q \in Seq(Events)
  PROVE  \E f : /\ ClientEvents(q) = f[Len(q)]
                /\ f[0] = <<>>
                /\ \A n \in 1 .. Len(q) :
                     f[n] = IF IsSentinel(q[n]) THEN f[n - 1] ELSE Append(f[n - 1], q[n])
                /\ \A n \in 0 .. Len(q) : f[n] \in Seq(Events)
<1> DEFINE f == CHOOSE f : f = [n \in 0 .. Len(q) |-> KeptOf(f, q, n)]
<1>1. ClientEvents(q) = f[Len(q)]
  BY DEF ClientEvents, KeptOf
<1>2. f = [n \in 0 .. Len(q) |-> KeptOf(f, q, n)]
  BY KeptExists DEF Keeps
<1> HIDE DEF f
<1>3. Len(q) \in Nat /\ \A n \in 0 .. Len(q) : f[n] = KeptOf(f, q, n)
  BY <1>2
<1>4. f[0] = <<>>
  BY <1>3 DEF KeptOf
<1>5. \A n \in 1 .. Len(q) :
        f[n] = IF IsSentinel(q[n]) THEN f[n - 1] ELSE Append(f[n - 1], q[n])
  BY <1>3 DEF KeptOf
<1>6. \A n \in 0 .. Len(q) : f[n] \in Seq(Events)
  <2> DEFINE Bad == {n \in 0 .. Len(q) : f[n] \notin Seq(Events)}
  <2> SUFFICES ASSUME Bad # {} PROVE FALSE
    OBVIOUS
  <2>1. Bad \subseteq Nat
    OBVIOUS
  <2>2. PICK n \in Bad : n \in Nat /\ (n # 0 => n - 1 \in Nat /\ n - 1 \notin Bad)
    <3> HIDE DEF Bad
    <3> QED BY <2>1, FirstNumber
  <2>3. n # 0
    <3>1. f[0] \in Seq(Events)
      BY <1>4, EmptySeq
    <3> QED BY <3>1
  <2>4. n \in 1 .. Len(q) /\ n - 1 \in 0 .. Len(q) /\ n - 1 < n
    BY <1>3, <2>3
  <2>5. n - 1 \notin Bad
    <3> HIDE DEF Bad
    <3> QED BY <2>2, <2>3
  <2>6. f[n - 1] \in Seq(Events) /\ q[n] \in Events
    BY <2>4, <2>5
  <2>7. f[n] \in Seq(Events)
    <3>1. Append(f[n - 1], q[n]) \in Seq(Events)
      BY <2>6, AppendProperties
    <3> QED BY <1>5, <2>4, <2>6, <3>1
  <2> QED BY <2>7
<1> QED BY <1>1, <1>4, <1>5, <1>6

(* What is left of a queue is left of it when it has grown, with the new   *)
(* event if that is a client's.                                            *)
LEMMA KeptOfGrown ==
  ASSUME NEW q \in Seq(Events), NEW e \in Events
  PROVE  /\ ClientEvents(q) \in Seq(Events)
         /\ ClientEvents(Append(q, e)) =
              IF IsSentinel(e) THEN ClientEvents(q) ELSE Append(ClientEvents(q), e)
<1> DEFINE r == Append(q, e)
<1>1. /\ r \in Seq(Events) /\ Len(r) = Len(q) + 1 /\ r[Len(q) + 1] = e
      /\ \A n \in 1 .. Len(q) : r[n] = q[n]
      /\ Len(q) \in Nat
  BY AppendProperties
<1> HIDE DEF r
<1>2. PICK f : /\ ClientEvents(q) = f[Len(q)]
               /\ f[0] = <<>>
               /\ \A n \in 1 .. Len(q) :
                    f[n] = IF IsSentinel(q[n]) THEN f[n - 1] ELSE Append(f[n - 1], q[n])
               /\ \A n \in 0 .. Len(q) : f[n] \in Seq(Events)
  BY KeptFunction
<1>3. PICK g : /\ ClientEvents(r) = g[Len(r)]
               /\ g[0] = <<>>
               /\ \A n \in 1 .. Len(r) :
                    g[n] = IF IsSentinel(r[n]) THEN g[n - 1] ELSE Append(g[n - 1], r[n])
  BY <1>1, KeptFunction
<1>4. g[Len(q)] = f[Len(q)]
  <2> DEFINE Bad == {n \in 0 .. Len(q) : g[n] # f[n]}
  <2> SUFFICES ASSUME Bad # {} PROVE FALSE
    BY <1>1
  <2>1. Bad \subseteq Nat
    OBVIOUS
  <2>2. PICK n \in Bad : n \in Nat /\ (n # 0 => n - 1 \in Nat /\ n - 1 \notin Bad)
    <3> HIDE DEF Bad
    <3> QED BY <2>1, FirstNumber
  <2>3. n # 0
    BY <1>2, <1>3
  <2>4. n \in 1 .. Len(q) /\ n \in 1 .. Len(r) /\ n - 1 \in 0 .. Len(q) /\ n - 1 < n
    BY <1>1, <2>3
  <2>5. n - 1 \notin Bad
    <3> HIDE DEF Bad
    <3> QED BY <2>2, <2>3
  <2>6. g[n - 1] = f[n - 1] /\ r[n] = q[n]
    BY <1>1, <2>4, <2>5
  <2>7. g[n] = f[n]
    BY <1>2, <1>3, <2>4, <2>6
  <2> QED BY <2>7
<1>5. g[Len(r)] = IF IsSentinel(e) THEN g[Len(q)] ELSE Append(g[Len(q)], e)
  BY <1>1, <1>3
<1>6. f[Len(q)] \in Seq(Events)
  BY <1>1, <1>2
<1> QED BY <1>2, <1>3, <1>4, <1>5, <1>6 DEF r

(* Its first client event is the first that is left of it. *)
LEMMA KeptOfFront ==
  ASSUME NEW e \in Events, NEW q \in Seq(Events)
  PROVE  ClientEvents(<<e>> \o q) =
           IF IsSentinel(e) THEN ClientEvents(q) ELSE <<e>> \o ClientEvents(q)
<1> DEFINE r == <<e>> \o q
           front == IF IsSentinel(e) THEN <<>> ELSE <<e>>
<1>1. /\ <<e>> \in Seq(Events) /\ Len(<<e>>) = 1 /\ <<e>>[1] = e
      /\ front \in Seq(Events)
      /\ Len(q) \in Nat
  OBVIOUS
<1>2. /\ r \in Seq(Events) /\ Len(r) = Len(q) + 1 /\ r[1] = e
      /\ \A n \in 1 .. Len(q) : r[n + 1] = q[n]
  BY <1>1, ConcatProperties
<1> HIDE DEF r
<1>3. PICK f : /\ ClientEvents(q) = f[Len(q)]
               /\ f[0] = <<>>
               /\ \A n \in 1 .. Len(q) :
                    f[n] = IF IsSentinel(q[n]) THEN f[n - 1] ELSE Append(f[n - 1], q[n])
               /\ \A n \in 0 .. Len(q) : f[n] \in Seq(Events)
  BY KeptFunction
<1>4. PICK g : /\ ClientEvents(r) = g[Len(r)]
               /\ g[0] = <<>>
               /\ \A n \in 1 .. Len(r) :
                    g[n] = IF IsSentinel(r[n]) THEN g[n - 1] ELSE Append(g[n - 1], r[n])
  BY <1>2, KeptFunction
<1>5. g[1] = front
  <2>1. g[1] = IF IsSentinel(e) THEN g[0] ELSE Append(g[0], e)
    <3>1. 1 \in 1 .. Len(r) /\ 1 - 1 = 0
      BY <1>1, <1>2
    <3> HIDE DEF front
    <3> QED BY <1>2, <1>4, <3>1
  <2>2. Append(<<>>, e) = <<e>>
    OBVIOUS
  <2> QED BY <1>4, <2>1, <2>2
<1> HIDE DEF front
<1>6. g[Len(q) + 1] = front \o f[Len(q)]
  <2> DEFINE Bad == {n \in 0 .. Len(q) : g[n + 1] # front \o f[n]}
  <2> SUFFICES ASSUME Bad # {} PROVE FALSE
    BY <1>1
  <2>1. Bad \subseteq Nat
    OBVIOUS
  <2>2. PICK n \in Bad : n \in Nat /\ (n # 0 => n - 1 \in Nat /\ n - 1 \notin Bad)
    <3> HIDE DEF Bad
    <3> QED BY <2>1, FirstNumber
  <2>3. n # 0
    BY <1>1, <1>3, <1>5, ConcatEmptySeq
  <2>4. /\ n \in 1 .. Len(q) /\ n + 1 \in 1 .. Len(r) /\ n - 1 \in 0 .. Len(q) /\ n - 1 < n
        /\ (n + 1) - 1 = n /\ (n - 1) + 1 = n
    BY <1>1, <1>2, <2>3
  <2>5. n - 1 \notin Bad
    <3> HIDE DEF Bad
    <3> QED BY <2>2, <2>3
  <2>6. g[n] = front \o f[n - 1] /\ r[n + 1] = q[n] /\ q[n] \in Events
    <3>1. g[(n - 1) + 1] = front \o f[n - 1]
      BY <2>4, <2>5
    <3>2. r[n + 1] = q[n]
      BY <1>2, <2>4
    <3>3. q[n] \in Events
      BY <2>4
    <3> QED BY <2>4, <3>1, <3>2, <3>3
  <2>7. g[n + 1] = IF IsSentinel(q[n]) THEN g[n] ELSE Append(g[n], q[n])
    BY <1>4, <2>4, <2>6
  <2>8. f[n] = IF IsSentinel(q[n]) THEN f[n - 1] ELSE Append(f[n - 1], q[n])
    BY <1>3, <2>4
  <2>9. f[n - 1] \in Seq(Events)
    BY <1>3, <2>4
  <2>10. Append(front \o f[n - 1], q[n]) = front \o Append(f[n - 1], q[n])
    <3> HIDE DEF Bad
    <3>1. front \in Seq(Events) /\ q[n] \in Events
      BY <1>1, <2>6
    <3>2. SUFFICES ASSUME NEW a \in Seq(Events), NEW b \in Seq(Events), NEW x \in Events
                   PROVE  Append(a \o b, x) = a \o Append(b, x)
      BY <2>9, <3>1
    <3>3. <<x>> \in Seq(Events) /\ a \o b \in Seq(Events)
      BY ConcatProperties
    <3>4. Append(a \o b, x) = (a \o b) \o <<x>> /\ Append(b, x) = b \o <<x>>
      BY <3>3, AppendIsConcat
    <3>5. \A c \in Seq(Events) : (a \o b) \o c = a \o (b \o c)
      BY ConcatAssociative
    <3> QED BY <3>3, <3>4, <3>5
  <2>11. g[n + 1] = front \o f[n]
    BY <2>6, <2>7, <2>8, <2>10
  <2> QED BY <2>11
<1>7. ClientEvents(r) = front \o ClientEvents(q) /\ ClientEvents(q) \in Seq(Events)
  BY <1>1, <1>2, <1>3, <1>4, <1>6
<1>8. CASE IsSentinel(e)
  BY <1>7, <1>8, ConcatEmptySeq DEF r, front
<1>9. CASE ~IsSentinel(e)
  BY <1>7, <1>9 DEF r, front
<1> QED BY <1>8, <1>9

(* A queue is its front element and the rest. *)
LEMMA FrontAndRest ==
  ASSUME NEW e \in Events, NEW q \in Seq(Events)
  PROVE  /\ <<e>> \o q \in Seq(Events) /\ <<e>> \o q # <<>>
         /\ Head(<<e>> \o q) = e /\ Tail(<<e>> \o q) = q
<1> DEFINE r == <<e>> \o q
<1>1. <<e>> \in Seq(Events) /\ Len(<<e>>) = 1 /\ <<e>>[1] = e /\ Len(q) \in Nat
  OBVIOUS
<1>2. /\ r \in Seq(Events) /\ Len(r) = Len(q) + 1 /\ r[1] = e
      /\ \A n \in 1 .. Len(q) : r[n + 1] = q[n]
  BY <1>1, ConcatProperties
<1> HIDE DEF r
<1>3. r # <<>> /\ Head(r) = e
  BY <1>1, <1>2
<1>4. Tail(r) = q
  <2>1. Tail(r) \in Seq(Events) /\ Len(Tail(r)) = Len(q)
        /\ \A n \in 1 .. Len(q) : Tail(r)[n] = r[n + 1]
    BY <1>1, <1>2, <1>3, HeadTailProperties
  <2> QED BY <1>2, <2>1, SeqEqual
<1> QED BY <1>2, <1>3, <1>4 DEF r

LEMMA SplitQueue ==
  ASSUME NEW q \in Seq(Events), q # <<>>
  PROVE  Head(q) \in Events /\ Tail(q) \in Seq(Events) /\ q = <<Head(q)>> \o Tail(q)
<1>1. /\ Head(q) \in Events /\ Tail(q) \in Seq(Events) /\ Head(q) = q[1]
      /\ Len(q) \in Nat \ {0} /\ Len(Tail(q)) = Len(q) - 1
      /\ \A n \in 1 .. Len(q) - 1 : Tail(q)[n] = q[n + 1]
  BY HeadTailProperties
<1> DEFINE h == Head(q)
           t == Tail(q)
<1> HIDE DEF h, t
<1>2. h \in Events /\ t \in Seq(Events) /\ Len(t) \in Nat /\ h = q[1]
      /\ Len(t) = Len(q) - 1 /\ \A n \in 1 .. Len(q) - 1 : t[n] = q[n + 1]
  BY <1>1 DEF h, t
<1>3. <<h>> \in Seq(Events) /\ Len(<<h>>) = 1 /\ <<h>>[1] = h
  BY <1>2
<1> DEFINE r == <<h>> \o t
<1>4. /\ r \in Seq(Events) /\ Len(r) = 1 + Len(t)
      /\ \A n \in 1 .. 1 + Len(t) : r[n] = IF n <= 1 THEN <<h>>[n] ELSE t[n - 1]
  BY <1>2, <1>3, ConcatProperties
<1> HIDE DEF r
<1>5. \A n \in 1 .. Len(r) : r[n] = q[n]
  <2> SUFFICES ASSUME NEW n \in 1 .. Len(r) PROVE r[n] = q[n]
    OBVIOUS
  <2>1. CASE n = 1
    BY <1>2, <1>3, <1>4, <2>1
  <2>2. CASE n # 1
    <3>1. n - 1 \in 1 .. Len(q) - 1 /\ ~(n <= 1) /\ (n - 1) + 1 = n
      BY <1>1, <1>2, <1>4, <2>2
    <3> QED BY <1>2, <1>4, <3>1
  <2> QED BY <2>1, <2>2
<1>6. r = q
  BY <1>1, <1>2, <1>4, <1>5, SeqEqual
<1> QED BY <1>2, <1>6 DEF h, t, r

-----------------------------------------------------------------------------
(* Every step of the engine's queue, of the loop and of stop() is a step of *)
(* one queue of client events, or none of it.                              *)

HandHoldsEvent == consumer = "dispatch" => ~IsSentinel(ev)

LEMMA HandHoldsEventKept ==
  ASSUME HandHoldsEvent, [Next]_cmeVars
  PROVE  HandHoldsEvent'
BY DEF HandHoldsEvent, Next, Submit, ConsumerStep, Poll, Dispatch, Count, Stop, EnterStop,
       LeaveStop, Destroy, cmeVars, workVars, ownerVars, IsSentinel

Waiting  == ClientEvents(InHand \o items)
Through  == <<Waiting, [p \in Clients |-> accepted[p]], [c \in {Dispatcher} |-> dispatched]>>

LEMMA InHandFacts ==
  ASSUME CmeInv
  PROVE  /\ items \in Seq(Events) /\ InHand \in Seq(Events) /\ InHand \o items \in Seq(Events)
         /\ consumer # "dispatch" => InHand = <<>> /\ InHand \o items = items
         /\ consumer = "dispatch" => InHand = <<ev>> /\ ev \in Events
<1>1. items \in Seq(Events) /\ (consumer = "dispatch" => ev \in Events)
  BY DEF CmeInv, CmeTypeOK
<1>2. /\ consumer # "dispatch" => InHand = <<>>
      /\ consumer = "dispatch" => InHand = <<ev>>
  BY DEF InHand
<1>3. InHand \in Seq(Events)
  <2>1. CASE consumer = "dispatch"
    <3>1. \A e \in Events : <<e>> \in Seq(Events)
      OBVIOUS
    <3> QED BY <1>1, <1>2, <2>1, <3>1
  <2>2. CASE consumer # "dispatch"
    BY <1>2, <2>2, EmptySeq
  <2> QED BY <2>1, <2>2
<1>4. InHand \o items \in Seq(Events)
  BY <1>1, <1>3, ConcatProperties
<1>5. <<>> \o items = items
  BY <1>1, ConcatEmptySeq
<1> QED BY <1>1, <1>2, <1>3, <1>4, <1>5

LEMMA PushedBehindHand ==
  ASSUME NEW a \in Seq(Events), NEW b \in Seq(Events), NEW x \in Events
  PROVE  ClientEvents(a \o Append(b, x)) =
           IF IsSentinel(x) THEN ClientEvents(a \o b) ELSE Append(ClientEvents(a \o b), x)
<1>1. <<x>> \in Seq(Events) /\ a \o b \in Seq(Events)
  BY ConcatProperties
<1>2. Append(a \o b, x) = (a \o b) \o <<x>> /\ Append(b, x) = b \o <<x>>
  BY <1>1, AppendIsConcat
<1>3. (a \o b) \o <<x>> = a \o (b \o <<x>>)
  BY <1>1, ConcatAssociative
<1>4. a \o Append(b, x) = Append(a \o b, x)
  BY <1>2, <1>3
<1>5. ClientEvents(Append(a \o b, x)) =
        IF IsSentinel(x) THEN ClientEvents(a \o b) ELSE Append(ClientEvents(a \o b), x)
  BY <1>1, KeptOfGrown
<1> QED BY <1>4, <1>5

LEMMA EnqueuedWaits ==
  ASSUME CmeInv, NEW x \in Events, items' = Append(items, x), consumer' = consumer, ev' = ev
  PROVE  Waiting' = IF IsSentinel(x) THEN Waiting ELSE Append(Waiting, x)
<1>1. InHand' = InHand
  BY DEF InHand
<1>2. Waiting' = ClientEvents(InHand \o Append(items, x))
  BY <1>1 DEF Waiting, ClientEvents, IsSentinel
<1> QED BY <1>2, InHandFacts, PushedBehindHand DEF Waiting

LEMMA SubmitEnqueues ==
  ASSUME CmeInv, NEW p \in Clients, Submit(p)
  PROVE  Pipeline!Enqueue(p)
<1> PICK new : new = <<p, accepted[p] + 1>>
  OBVIOUS
<1>1. /\ items' = Append(items, new) /\ accepted' = [accepted EXCEPT ![p] = @ + 1]
      /\ consumer' = consumer /\ ev' = ev /\ dispatched' = dispatched
  BY DEF Submit, Queue!Enqueue, workVars
<1>2. new \in Events /\ ~IsSentinel(new)
  BY OwnerAssumption DEF CmeInv, CmeTypeOK, Events, IsSentinel
<1>3. Waiting' = Append(Waiting, new)
  BY <1>1, <1>2, EnqueuedWaits
<1>4. [q \in Clients |-> accepted'[q]]
        = [[q \in Clients |-> accepted[q]] EXCEPT ![p] = @ + 1]
  BY <1>1 DEF CmeInv, CmeTypeOK
<1>5. new = <<p, [q \in Clients |-> accepted[q]][p] + 1>>
  OBVIOUS
<1> QED BY <1>1, <1>3, <1>4, <1>5 DEF Pipeline!Enqueue, Waiting

LEMMA StopShowsNothing ==
  ASSUME CmeInv, NEW last \in BOOLEAN, EnterStop(last)
  PROVE  UNCHANGED Through
<1> PICK new : new = <<Owner, accepted[Owner] + 1>>
  OBVIOUS
<1>1. /\ items' = Append(items, new) /\ accepted' = [accepted EXCEPT ![Owner] = @ + 1]
      /\ consumer' = consumer /\ ev' = ev /\ dispatched' = dispatched
  BY DEF EnterStop, Queue!Enqueue, workVars
<1>2. new \in Events /\ IsSentinel(new)
  BY DEF CmeInv, CmeTypeOK, Events, IsSentinel
<1>3. Waiting' = Waiting
  BY <1>1, <1>2, EnqueuedWaits
<1>4. \A q \in Clients : accepted'[q] = accepted[q]
  BY <1>1, OwnerAssumption DEF CmeInv, CmeTypeOK
<1>5. [q \in Clients |-> accepted'[q]] = [q \in Clients |-> accepted[q]]
  BY <1>4
<1> QED BY <1>1, <1>3, <1>5 DEF Through

LEMMA PollShowsNothing ==
  ASSUME CmeInv, Poll
  PROVE  UNCHANGED Through
<1> PICK e, rest : e = Head(items) /\ rest = Tail(items)
  OBVIOUS
<1>1. /\ items # <<>> /\ items' = rest /\ ev' = e /\ consumer = "poll"
      /\ consumer' = IF IsSentinel(e) THEN "exited" ELSE "dispatch"
      /\ accepted' = accepted /\ dispatched' = dispatched
  BY DEF Poll, Queue!Dequeue, IsSentinel
<1>2. items \in Seq(Events) /\ InHand \o items = items
  BY <1>1, InHandFacts
<1>3. e \in Events /\ rest \in Seq(Events) /\ items = <<e>> \o rest
  BY <1>1, <1>2, SplitQueue
<1>4. Waiting = IF IsSentinel(e) THEN ClientEvents(rest) ELSE ClientEvents(items)
  BY <1>2, <1>3, KeptOfFront DEF Waiting
<1>5. InHand' = IF IsSentinel(e) THEN <<>> ELSE <<e>>
  BY <1>1 DEF InHand
<1>6. InHand' \o items' = IF IsSentinel(e) THEN rest ELSE items
  <2>1. <<>> \o rest = rest
    BY <1>3, ConcatEmptySeq
  <2> QED BY <1>1, <1>3, <1>5, <2>1
<1>7. Waiting' = ClientEvents(IF IsSentinel(e) THEN rest ELSE items)
  BY <1>6 DEF Waiting, ClientEvents, IsSentinel
<1>8. Waiting' = Waiting
  BY <1>4, <1>7
<1> QED BY <1>1, <1>8 DEF Through

LEMMA DispatchDequeues ==
  ASSUME CmeInv, HandHoldsEvent, Dispatch
  PROVE  Pipeline!Dequeue(Dispatcher)
<1> PICK e, q : e = ev /\ q = items
  OBVIOUS
<1>1. /\ consumer = "dispatch" /\ consumer' = "count" /\ dispatched' = Append(dispatched, e)
      /\ items' = q /\ accepted' = accepted
  BY DEF Dispatch, queueVars
<1>2. InHand = <<e>> /\ e \in Events /\ q \in Seq(Events) /\ ~IsSentinel(e)
  BY <1>1, InHandFacts DEF HandHoldsEvent
<1>3. Waiting = <<e>> \o ClientEvents(q)
  BY <1>2, KeptOfFront DEF Waiting
<1>4. ClientEvents(q) \in Seq(Events)
  BY <1>2, KeptOfGrown
<1>5. Waiting # <<>> /\ Head(Waiting) = e /\ Tail(Waiting) = ClientEvents(q)
  BY <1>2, <1>3, <1>4, FrontAndRest
<1>6. InHand' \o items' = q
  <2>1. InHand' = <<>>
    BY <1>1 DEF InHand
  <2> QED BY <1>1, <1>2, <2>1, ConcatEmptySeq
<1>7. Waiting' = ClientEvents(q)
  BY <1>6 DEF Waiting, ClientEvents, IsSentinel
<1>8. [c \in {Dispatcher} |-> dispatched']
        = [[c \in {Dispatcher} |-> dispatched] EXCEPT ![Dispatcher] = Append(@, Head(Waiting))]
  BY <1>1, <1>5
<1> QED BY <1>1, <1>5, <1>7, <1>8 DEF Pipeline!Dequeue, Waiting

LEMMA OthersShowNothing ==
  ASSUME \/ UNCHANGED cmeVars
         \/ Count
         \/ UNCHANGED <<queueVars, workVars>>
  PROVE  UNCHANGED Through
<1>1. UNCHANGED <<items, accepted, dispatched>>
  BY DEF cmeVars, queueVars, workVars, Count
<1>2. InHand' = InHand
  BY DEF InHand, cmeVars, workVars, Count
<1>3. Waiting' = Waiting
  BY <1>1, <1>2 DEF Waiting, ClientEvents, IsSentinel
<1> QED BY <1>1, <1>3 DEF Through

LEMMA PipelineStep ==
  ASSUME CmeInv, HandHoldsEvent, [Next]_cmeVars
  PROVE  [Pipeline!Next]_(Pipeline!fifoVars)
<1>1. ASSUME NEW p \in Clients, Submit(p) PROVE Pipeline!Next
  BY <1>1, SubmitEnqueues DEF Pipeline!Next
<1>2. ASSUME Dispatch PROVE Pipeline!Next
  BY <1>2, DispatchDequeues DEF Pipeline!Next
<1>3. ASSUME UNCHANGED cmeVars \/ Poll \/ Count \/ Stop \/ LeaveStop \/ Destroy
      PROVE  UNCHANGED Through
  BY <1>3, PollShowsNothing, StopShowsNothing, OthersShowNothing DEF Stop, LeaveStop, Destroy
<1>4. UNCHANGED Through => UNCHANGED Pipeline!fifoVars
  BY DEF Through, Waiting, Pipeline!fifoVars
<1> QED BY <1>1, <1>2, <1>3, <1>4 DEF Next, ConsumerStep

(* Behind the queue the engine is a queue itself: each submitted event      *)
(* reaches it at most once, in the order of submission (lines 64 to 95),   *)
(* and one that came behind a sentinel is still waiting.                   *)
THEOREM PipelineIsFifo == Spec => RefinesPipeline
<1>1. Init => HandHoldsEvent
  BY DEF Init, HandHoldsEvent
<1>2. Init => Pipeline!Init
  <2> SUFFICES ASSUME Init PROVE Pipeline!Init
    OBVIOUS
  <2>1. CmeInv /\ consumer = "poll" /\ items = <<>> /\ dispatched = <<>>
        /\ accepted = [p \in Clients \cup {Owner} |-> 0]
    BY CmeInitHolds DEF Init, Queue!Init
  <2>2. InHand \o items = <<>>
    BY <2>1, InHandFacts
  <2>3. Waiting = <<>>
    <3>1. <<>> \in Seq(Events) /\ Len(<<>>) = 0
      BY EmptySeq
    <3>2. ClientEvents(<<>>) = <<>>
      BY <3>1, KeptFunction
    <3> QED BY <2>2, <3>2 DEF Waiting
  <2> QED BY <2>1, <2>3 DEF Pipeline!Init, Waiting
<1>3. CmeInv /\ HandHoldsEvent /\ [Next]_cmeVars
        => HandHoldsEvent' /\ [Pipeline!Next]_(Pipeline!fifoVars)
  BY HandHoldsEventKept, PipelineStep
<1> QED BY <1>1, <1>2, <1>3, CmeInvariant, PTL DEF Spec, RefinesPipeline, Pipeline!Spec

=============================================================================

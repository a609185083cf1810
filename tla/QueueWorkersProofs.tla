------------------------- MODULE QueueWorkersProofs -------------------------
(***************************************************************************)
(* Theorems about the work queue and its workers, for every set of keys,   *)
(* every number of workers and every capacity of the channel.              *)
(***************************************************************************)
EXTENDS QueueWorkers, WorkqueueProofs, TLAPS

(* The inductive invariant: types, the consistency of the queue, and the   *)
(* correspondence between the processing set and what workers hold.        *)
Inv == TypeOK /\ QueueConsistent /\ ProcessingIsHeld /\ OneWorkerPerKey

LEMMA InvInit == Init => Inv
<1> SUFFICES ASSUME Init PROVE Inv
  OBVIOUS
<1>1. Good(wq) /\ wq = NewQueue
  BY NewQueueGood DEF Init
<1>2. wq.processing = {} /\ Len(wq.channel) <= ChannelCapacity
  BY <1>1, ChannelCapacityAssumption DEF NewQueue
<1>3. TypeOK
  BY <1>1, <1>2 DEF Init, TypeOK, Good, Phases
<1>4. ProcessingIsHeld /\ OneWorkerPerKey
  BY <1>2 DEF Init, ProcessingIsHeld, OneWorkerPerKey, Working
<1> QED BY <1>1, <1>3, <1>4 DEF Inv, QueueConsistent, Good

(* A step that keeps the phases' being at work and leaves the processing   *)
(* set alone keeps the correspondence.                                     *)
LEMMA HeldKept ==
    ASSUME Inv, Good(wq'), Len(wq.channel') <= ChannelCapacity,
           phase' \in [Workers -> Phases], UNCHANGED holds,
           wq.processing' = wq.processing,
           \A w \in Workers : phase'[w] \in Working <=> phase[w] \in Working
    PROVE  Inv'
<1>1. TypeOK' /\ QueueConsistent'
  BY DEF Inv, TypeOK, QueueConsistent, Good
<1>2. ProcessingIsHeld'
  BY DEF Inv, ProcessingIsHeld
<1>3. OneWorkerPerKey'
  BY DEF Inv, OneWorkerPerKey
<1> QED BY <1>1, <1>2, <1>3 DEF Inv

LEMMA InvNext == Inv /\ [Next]_vars => Inv'
<1> SUFFICES ASSUME Inv, [Next]_vars PROVE Inv'
  OBVIOUS
<1>g. Good(wq)
  BY DEF Inv, TypeOK, QueueConsistent, Good
<1>c. /\ wq.channel \in Seq(Items)
      /\ Len(wq.channel) \in Nat
      /\ ChannelCapacity \in Nat
  BY ChannelCapacityAssumption DEF Inv, TypeOK, Queues
<1>1. ASSUME NEW item \in Items, Request(item) PROVE Inv'
  <2>1. Good(wq') /\ wq.processing' = wq.processing /\ wq.channel' = wq.channel
    BY <1>1, <1>g, AddGood DEF Request, SameDelays
  <2> QED BY <1>1, <2>1, HeldKept DEF Request, Inv, TypeOK
<1>2. ASSUME NEW item \in Items, Expire(item) PROVE Inv'
  <2>1. Good(wq') /\ wq.processing' = wq.processing /\ wq.channel' = wq.channel
    BY <1>2, <1>g, FireGood DEF Expire
  <2> QED BY <1>2, <2>1, HeldKept DEF Expire, Inv, TypeOK
<1>3. ASSUME Receive PROVE Inv'
  <2>1. /\ Good(wq')
        /\ wq.processing' = wq.processing
        /\ wq.channel' = Tail(wq.channel)
        /\ wq.channel # <<>>
    BY <1>3, <1>g, ReceiveGood DEF Receive, CanReceive
  <2>2. Len(wq.channel') <= ChannelCapacity
    BY <2>1, <1>c DEF Inv, TypeOK
  <2> QED BY <1>3, <2>1, <2>2, HeldKept DEF Receive, Inv, TypeOK
<1>4. ASSUME Stop PROVE Inv'
  <2>1. Good(wq') /\ wq.processing' = wq.processing /\ wq.channel' = wq.channel
    BY <1>4, <1>g, ShutDownGood DEF Stop
  <2> QED BY <1>4, <2>1, HeldKept DEF Stop, Inv, TypeOK
<1>5. ASSUME NEW w \in Workers, Take(w) PROVE Inv'
  <2> DEFINE k == Head(wq.queue)
  <2>1. /\ Good(wq')
        /\ k \in wq.dirty \ wq.processing
        /\ k \in Items
        /\ wq.processing' = wq.processing \cup {k}
        /\ wq.channel' = wq.channel
    BY <1>5, <1>g, GetGood DEF Take, SameDelays, Good, Queues
  <2>2. /\ phase' = [phase EXCEPT ![w] = "handling"]
        /\ holds' = [holds EXCEPT ![w] = k]
        /\ phase[w] = "idle"
        /\ phase \in [Workers -> Phases]
        /\ holds \in [Workers -> Items \cup {NoItem}]
    BY <1>5 DEF Take, Goto, Inv, TypeOK
  <2>3. TypeOK' /\ QueueConsistent'
    BY <2>1, <2>2 DEF Inv, TypeOK, QueueConsistent, Good, Phases
  <2>4. \A v \in Workers : phase[v] \in Working => holds[v] \in wq.processing
    BY DEF Inv, ProcessingIsHeld
  <2>5. ProcessingIsHeld'
    BY <2>1, <2>2, NoItemAssumption DEF Inv, ProcessingIsHeld, Working
  <2>6. OneWorkerPerKey'
    BY <2>1, <2>2, <2>4 DEF Inv, OneWorkerPerKey, ProcessingIsHeld
  <2> QED BY <2>3, <2>5, <2>6 DEF Inv
<1>6. ASSUME NEW w \in Workers, Leave(w) PROVE Inv'
  BY <1>6, <1>g, HeldKept DEF Leave, Goto, Inv, TypeOK, Working, Phases
<1>7. ASSUME NEW w \in Workers, HandlerReturns(w) PROVE Inv'
  BY <1>7, <1>g, HeldKept DEF HandlerReturns, Goto, Inv, TypeOK, Working, Phases
<1>8. ASSUME NEW w \in Workers, Retry(w) PROVE Inv'
  <2>1. holds[w] \in Items
    BY <1>8 DEF Retry, Goto, Inv, TypeOK, ProcessingIsHeld, Working
  <2>2. /\ Good(wq')
        /\ wq.processing' = wq.processing
        /\ wq.channel' = IF wq.shuttingDown THEN wq.channel ELSE Append(wq.channel, holds[w])
    BY <1>8, <1>g, <2>1, AddRateLimitedGood DEF Retry
  <2>3. Len(wq.channel') <= ChannelCapacity
    BY <1>8, <1>c, <2>1, <2>2 DEF Retry, CanAddRateLimited, Inv, TypeOK
  <2> QED BY <1>8, <2>2, <2>3, HeldKept DEF Retry, Goto, Inv, TypeOK, Working, Phases
<1>9. ASSUME NEW w \in Workers, Settle(w) PROVE Inv'
  <2>1. Good(wq') /\ wq.processing' = wq.processing /\ wq.channel' = wq.channel
    BY <1>9, <1>g, ForgetGood DEF Settle
  <2> QED BY <1>9, <2>1, HeldKept DEF Settle, Goto, Inv, TypeOK, Working, Phases
<1>10. ASSUME NEW w \in Workers, Finish(w) PROVE Inv'
  <2> DEFINE k == holds[w]
  <2>1. k \in wq.processing /\ k # NoItem
    BY <1>10 DEF Finish, Goto, Inv, ProcessingIsHeld, Working
  <2>2. /\ Good(wq')
        /\ wq.processing' = wq.processing \ {k}
        /\ wq.channel' = wq.channel
    BY <1>10, <1>g, <2>1, DoneGood DEF Finish, SameDelays
  <2>3. /\ phase' = [phase EXCEPT ![w] = "idle"]
        /\ holds' = [holds EXCEPT ![w] = NoItem]
        /\ phase[w] = "finishing"
        /\ phase \in [Workers -> Phases]
        /\ holds \in [Workers -> Items \cup {NoItem}]
    BY <1>10 DEF Finish, Goto, Inv, TypeOK
  <2>4. TypeOK' /\ QueueConsistent'
    BY <2>2, <2>3 DEF Inv, TypeOK, QueueConsistent, Good, Phases
  <2>5. \A v \in Workers : v # w => holds[v] # k
    BY <2>1 DEF Inv, OneWorkerPerKey
  <2>6. ProcessingIsHeld'
    BY <2>2, <2>3, <2>5 DEF Inv, ProcessingIsHeld, Working
  <2>7. OneWorkerPerKey'
    BY <2>3 DEF Inv, OneWorkerPerKey
  <2> QED BY <2>4, <2>6, <2>7 DEF Inv
<1>11. ASSUME UNCHANGED vars PROVE Inv'
  BY <1>11, <1>g, HeldKept DEF vars, Inv, TypeOK
<1> QED
  BY <1>1, <1>2, <1>3, <1>4, <1>5, <1>6, <1>7, <1>8, <1>9, <1>10, <1>11
  DEF Next, WorkerStep

(* Every reachable state satisfies the invariant. *)
THEOREM Invariance == Spec => []Inv
BY InvInit, InvNext, PTL DEF Spec

(* The types hold, and waitingForAddCh is never filled past its capacity:  *)
(* a worker that retries waits for room.                                   *)
THEOREM TypesHold == Spec => []TypeOK
<1>1. Inv => TypeOK
  BY DEF Inv
<1> QED BY <1>1, Invariance, PTL

(* The processing set of the queue is what the workers hold: each Get has  *)
(* its Done, for the same key.                                             *)
THEOREM ProcessingIsAlwaysHeld == Spec => []ProcessingIsHeld
<1>1. Inv => ProcessingIsHeld
  BY DEF Inv
<1> QED BY <1>1, Invariance, PTL

(* queue.go, comment on Type: every element of queue is in the dirty set   *)
(* and not in the processing set, once; and no dirty key is missing.       *)
THEOREM QueueAlwaysConsistent == Spec => []QueueConsistent
<1>1. Inv => QueueConsistent
  BY DEF Inv
<1> QED BY <1>1, Invariance, PTL

(* No key is ever in the hands of two workers. *)
THEOREM NoTwoWorkersOnAKey == Spec => []OneWorkerPerKey
<1>1. Inv => OneWorkerPerKey
  BY DEF Inv
<1> QED BY <1>1, Invariance, PTL

-----------------------------------------------------------------------------
(* A key the limiter remembers has a turn coming: also the key of a worker *)
(* that is about to be done with it, whose mark no longer counts then.     *)
Coming == Delayed(wq) \cup wq.dirty

RetryInv ==
    ~wq.shuttingDown =>
        /\ wq.failures \subseteq Coming \cup wq.processing
        /\ \A w \in Workers :
               phase[w] = "finishing" /\ holds[w] \in wq.failures => holds[w] \in Coming

(* A step that takes nothing out of what is coming but what it hands to a  *)
(* worker, and makes no worker finish.                                     *)
LEMMA RetryKept ==
    ASSUME RetryInv, UNCHANGED <<holds, wq.shuttingDown, wq.failures, wq.processing>>,
           Coming \subseteq Coming',
           \A w \in Workers : phase'[w] = "finishing" => phase[w] = "finishing"
    PROVE  RetryInv'
BY DEF RetryInv

(* What Receive and Expire move stays on its way. *)
LEMMA StaysComing ==
    ASSUME Inv, Receive \/ \E item \in Items : Expire(item)
    PROVE  /\ Coming \subseteq Coming'
           /\ UNCHANGED <<wq.shuttingDown, wq.failures, wq.processing>>
<1>g. Good(wq) /\ wq.channel \in Seq(Items)
  BY DEF Inv, TypeOK, QueueConsistent, Good, Queues
<1>1. CASE Receive
  <2> DEFINE k == Head(wq.channel)
  <2>1. wq.channel # <<>> /\ wq' \in Received(wq) /\ ~wq.shuttingDown
    BY <1>1 DEF Receive, CanReceive
  <2>2. Range(wq.channel) \subseteq Range(Tail(wq.channel)) \cup {k}
    BY <1>g, <2>1, TailKeepsOthers
  <2>3. CASE wq' = ReceiveAndWait(wq)
    <3>1. /\ wq'.channel = Tail(wq.channel) /\ wq'.waiting = wq.waiting \cup {k}
          /\ wq'.dirty = wq.dirty
          /\ UNCHANGED <<wq.shuttingDown, wq.failures, wq.processing>>
      BY <1>g, <2>3 DEF ReceiveAndWait, Good, Queues
    <3> QED BY <2>2, <3>1 DEF Coming, Delayed
  <2>4. CASE wq' = ReceiveAndAdd(wq)
    <3>1. /\ wq'.channel = Tail(wq.channel) /\ wq'.waiting = wq.waiting
          /\ wq'.dirty = wq.dirty \cup {k}
          /\ UNCHANGED <<wq.shuttingDown, wq.failures, wq.processing>>
      BY <1>g, <2>1, <2>4 DEF ReceiveAndAdd, Add, Good, Queues
    <3> QED BY <2>2, <3>1 DEF Coming, Delayed
  <2> QED BY <2>1, <2>3, <2>4 DEF Received
<1>2. ASSUME NEW item \in Items, Expire(item)
      PROVE  /\ Coming \subseteq Coming'
             /\ UNCHANGED <<wq.shuttingDown, wq.failures, wq.processing>>
  <2>1. /\ wq'.channel = wq.channel /\ wq'.waiting = wq.waiting \ {item}
        /\ wq'.dirty = wq.dirty \cup {item}
        /\ UNCHANGED <<wq.shuttingDown, wq.failures, wq.processing>>
    BY <1>g, <1>2 DEF Expire, CanFire, Fire, Add, Good, Queues
  <2> QED BY <2>1 DEF Coming, Delayed
<1> QED BY <1>1, <1>2

LEMMA RetryNext == Inv /\ RetryInv /\ [Next]_vars => RetryInv'
<1> SUFFICES ASSUME Inv, RetryInv, [Next]_vars PROVE RetryInv'
  OBVIOUS
<1>g. Good(wq) /\ wq \in Queues /\ wq.channel \in Seq(Items)
  BY DEF Inv, TypeOK, QueueConsistent, Good, Queues
<1>h. \A w \in Workers : phase[w] \in Working => holds[w] \in wq.processing
  BY DEF Inv, ProcessingIsHeld
<1>p. phase \in [Workers -> Phases] /\ holds \in [Workers -> Items \cup {NoItem}]
  BY DEF Inv, TypeOK
<1>1. ASSUME NEW item \in Items, Request(item) PROVE RetryInv'
  <2>1. /\ wq'.channel = wq.channel /\ wq'.waiting = wq.waiting
        /\ wq.dirty \subseteq wq'.dirty
        /\ UNCHANGED <<wq.shuttingDown, wq.failures, wq.processing>>
    BY <1>1, <1>g DEF Request, Add, Queues
  <2>2. Coming \subseteq Coming'
    BY <2>1 DEF Coming, Delayed
  <2> QED BY <1>1, <2>1, <2>2, RetryKept DEF Request
<1>2. CASE Receive \/ \E item \in Items : Expire(item)
  BY <1>2, StaysComing, RetryKept DEF Receive, Expire
<1>3. CASE Stop
  <2>1. wq'.shuttingDown
    BY <1>3, <1>g, ShutDownGood DEF Stop
  <2> QED BY <2>1 DEF RetryInv
<1>4. ASSUME NEW w \in Workers, Take(w) PROVE RetryInv'
  <2> DEFINE k == Head(wq.queue)
  <2>1. /\ k \in wq.dirty \ wq.processing
        /\ wq'.processing = wq.processing \cup {k} /\ wq'.dirty = wq.dirty \ {k}
        /\ wq'.waiting = wq.waiting /\ SameDelays(wq, wq')
    BY <1>4, <1>g, GetGood DEF Take
  <2>2. Coming' = Delayed(wq) \cup (wq.dirty \ {k})
    BY <2>1 DEF Coming, Delayed, SameDelays
  <2>3. \A v \in Workers : phase'[v] = "finishing" =>
            phase[v] = "finishing" /\ holds'[v] = holds[v] /\ holds[v] # k
    BY <1>4, <1>h, <1>p, <2>1 DEF Take, Goto, Working
  <2> QED BY <2>1, <2>2, <2>3 DEF RetryInv, Coming, SameDelays
<1>5. ASSUME NEW w \in Workers, Leave(w) \/ HandlerReturns(w) PROVE RetryInv'
  <2>1. \A v \in Workers : phase'[v] = "finishing" => phase[v] = "finishing"
    BY <1>5, <1>p DEF Leave, HandlerReturns, Goto
  <2> QED BY <1>5, <2>1, RetryKept DEF Leave, HandlerReturns, Coming
<1>6. ASSUME NEW w \in Workers, Retry(w), ~wq'.shuttingDown PROVE RetryInv'
  <2> DEFINE k == holds[w]
  <2>1. k \in Items
    BY <1>6, <1>h, <1>g DEF Retry, Goto, Working, Queues
  <2>2. /\ wq'.failures = wq.failures \cup {k} /\ wq'.channel = Append(wq.channel, k)
        /\ wq'.waiting = wq.waiting
        /\ UNCHANGED <<wq.shuttingDown, wq.dirty, wq.processing>>
    BY <1>6, <1>g DEF Retry, AddRateLimited, Queues
  <2>3. Coming' = Coming \cup {k}
    BY <1>g, <2>1, <2>2, RangeAppend DEF Coming, Delayed
  <2>4. \A v \in Workers : phase'[v] = "finishing" => phase[v] = "finishing" \/ v = w
    BY <1>6, <1>p DEF Retry, Goto
  <2> QED BY <1>6, <2>2, <2>3, <2>4 DEF RetryInv, Retry
<1>7. ASSUME NEW w \in Workers, Settle(w) PROVE RetryInv'
  <2>1. /\ wq'.failures = wq.failures \ {holds[w]}
        /\ wq'.channel = wq.channel /\ wq'.waiting = wq.waiting
        /\ UNCHANGED <<wq.shuttingDown, wq.dirty, wq.processing>>
    BY <1>7, <1>g DEF Settle, Forget, Queues
  <2>2. \A v \in Workers : phase'[v] = "finishing" => phase[v] = "finishing" \/ v = w
    BY <1>7, <1>p DEF Settle, Goto
  <2> QED BY <1>7, <2>1, <2>2 DEF RetryInv, Settle, Coming, Delayed
<1>8. ASSUME NEW w \in Workers, Finish(w) PROVE RetryInv'
  <2> DEFINE k == holds[w]
  <2>1. k \in wq.processing
    BY <1>8, <1>h DEF Finish, Goto, Working
  <2>2. /\ wq'.processing = wq.processing \ {k} /\ wq'.dirty = wq.dirty
        /\ wq'.waiting = wq.waiting /\ SameDelays(wq, wq')
    BY <1>8, <1>g, <2>1, DoneGood DEF Finish
  <2>3. Coming' = Coming
    BY <2>2 DEF Coming, Delayed, SameDelays
  <2>4. phase[w] = "finishing" /\ \A v \in Workers :
            phase'[v] = "finishing" => phase[v] = "finishing" /\ holds'[v] = holds[v]
    BY <1>8, <1>p DEF Finish, Goto
  <2> QED BY <2>2, <2>3, <2>4 DEF RetryInv, SameDelays
<1>9. CASE UNCHANGED vars
  BY <1>9, RetryKept DEF vars, Coming
<1> QED
  BY <1>1, <1>2, <1>3, <1>4, <1>5, <1>6, <1>7, <1>8, <1>9 DEF Next, WorkerStep, RetryInv

(* No key is remembered by the rate limiter for nothing: as long as the    *)
(* queue is open a key that failed is delayed, queued or in the hands of a *)
(* worker, also when it was added, handed out or fired in between.         *)
THEOREM FailedKeysComeBack == Spec => []FailuresHaveARetry
<1>1. Init => RetryInv
  BY DEF Init, NewQueue, RetryInv
<1>2. RetryInv => FailuresHaveARetry
  BY DEF RetryInv, FailuresHaveARetry, Coming
<1> QED BY <1>1, <1>2, RetryNext, Invariance, PTL DEF Spec

-----------------------------------------------------------------------------
(* When the last worker has left, the queue is shut and empty, and nothing *)
(* can enter it any more.                                                  *)
AllGone == \A w \in Workers : phase[w] = "gone"
GoneInv == AllGone => wq.shuttingDown /\ wq.queue = <<>>

LEMMA GoneNext == Inv /\ GoneInv /\ [Next]_vars => GoneInv'
<1> SUFFICES ASSUME Inv, GoneInv, [Next]_vars, AllGone'
             PROVE  wq'.shuttingDown /\ wq'.queue = <<>>
  BY DEF GoneInv
<1>p. phase \in [Workers -> Phases] /\ wq \in Queues
  BY DEF Inv, TypeOK
<1>1. CASE AllGone
  <2>1. wq.shuttingDown /\ wq.queue = <<>> /\ \E w \in Workers : TRUE
    BY <1>1, WorkersAssumption DEF GoneInv
  <2>2. \A w \in Workers : ~WorkerStep(w)
    BY <1>1
    DEF AllGone, WorkerStep, Take, Leave, HandlerReturns, Retry, Settle, Finish, Goto
  <2>3. CASE Stop \/ Receive \/ \E item \in Items : Expire(item)
    BY <2>1, <2>3 DEF Stop, Receive, CanReceive, Expire, CanFire
  <2>4. CASE \E item \in Items : Request(item)
    BY <2>1, <2>4 DEF Request, Add
  <2> QED BY <2>1, <2>2, <2>3, <2>4 DEF Next, vars
<1>2. CASE ~AllGone
  <2>1. PICK w \in Workers : phase[w] # "gone" /\ phase'[w] = "gone"
    BY <1>2 DEF AllGone
  <2>2. PICK v \in Workers : WorkerStep(v)
    BY <2>1 DEF Next, Request, Expire, Receive, Stop, vars
  <2>3. phase'[v] = "gone"
    BY DEF AllGone
  <2>4. Leave(v)
    BY <1>p, <2>2, <2>3 DEF WorkerStep, Take, HandlerReturns, Retry, Settle, Finish, Goto
  <2> QED BY <2>4 DEF Leave, GetSaysShutdown
<1> QED BY <1>1, <1>2

(* The workers leave only after the items that were in the queue when      *)
(* ShutDown was called have been drained, those asked for again while they *)
(* were being processed included.                                          *)
THEOREM ShutDownDrains == Spec => []NothingLeftBehind
<1>1. Init => GoneInv
  BY WorkersAssumption DEF Init, GoneInv, AllGone
<1>2. Inv /\ GoneInv => NothingLeftBehind
  <2> SUFFICES ASSUME Inv, GoneInv, AllGone PROVE wq.dirty = {} /\ wq.processing = {}
    BY DEF NothingLeftBehind, AllGone
  <2>1. wq.processing = {}
    BY DEF AllGone, Inv, ProcessingIsHeld, Working
  <2>2. Range(wq.queue) = {}
    BY DEF GoneInv, Range
  <2> QED BY <2>1, <2>2 DEF Inv, QueueConsistent, QueueIsDirtyNotProcessing
<1> QED BY <1>1, <1>2, GoneNext, Invariance, PTL DEF Spec

-----------------------------------------------------------------------------
(* Refinement: each step of the queue and its workers is a step of the     *)
(* abstract KeyedWork, or changes nothing of what KeyedWork talks about.   *)
LEMMA PromiseStep == Inv /\ [Next]_vars => [Promise!Next]_(Promise!vars)
<1> SUFFICES ASSUME Inv, [Next]_vars PROVE [Promise!Next]_(Promise!vars)
  OBVIOUS
<1> USE DEF Promise!vars
<1>g. Good(wq)
  BY DEF Inv, TypeOK, QueueConsistent, Good
<1>1. ASSUME NEW item \in Items, Request(item) PROVE [Promise!Next]_(Promise!vars)
  <2>1. /\ wq.processing' = wq.processing
        /\ wq.shuttingDown' = wq.shuttingDown
        /\ wq.dirty' = IF wq.shuttingDown THEN wq.dirty ELSE wq.dirty \cup {item}
    BY <1>1, <1>g, AddGood DEF Request, SameDelays
  <2> QED BY <2>1 DEF Promise!Next, Promise!Request
<1>2. ASSUME NEW item \in Items, Expire(item) PROVE [Promise!Next]_(Promise!vars)
  <2>1. /\ wq.processing' = wq.processing
        /\ wq.shuttingDown' = wq.shuttingDown
        /\ wq.dirty' = IF wq.shuttingDown THEN wq.dirty ELSE wq.dirty \cup {item}
    BY <1>2, <1>g, FireGood DEF Expire
  <2> QED BY <2>1 DEF Promise!Next, Promise!Request
<1>3. ASSUME Receive PROVE [Promise!Next]_(Promise!vars)
  <2>1. /\ wq.processing' = wq.processing
        /\ wq.shuttingDown' = wq.shuttingDown
        /\ ~wq.shuttingDown
        /\ \/ wq.dirty' = wq.dirty
           \/ wq.dirty' = wq.dirty \cup {Head(wq.channel)}
        /\ Head(wq.channel) \in Items
    BY <1>3, <1>g, ReceiveGood DEF Receive, CanReceive
  <2> QED BY <2>1 DEF Promise!Next, Promise!Request
<1>4. ASSUME Stop PROVE [Promise!Next]_(Promise!vars)
  <2>1. /\ wq.processing' = wq.processing
        /\ wq.dirty' = wq.dirty
        /\ wq.shuttingDown' = TRUE
    BY <1>4, <1>g, ShutDownGood DEF Stop, Good, Queues
  <2> QED BY <2>1 DEF Promise!Next, Promise!Close
<1>5. ASSUME NEW w \in Workers, Take(w) PROVE [Promise!Next]_(Promise!vars)
  <2>1. /\ Head(wq.queue) \in wq.dirty \ wq.processing
        /\ Head(wq.queue) \in Items
        /\ wq.processing' = wq.processing \cup {Head(wq.queue)}
        /\ wq.dirty' = wq.dirty \ {Head(wq.queue)}
        /\ wq.shuttingDown' = wq.shuttingDown
    BY <1>5, <1>g, GetGood DEF Take, SameDelays, Good, Queues
  <2> QED BY <2>1 DEF Promise!Next, Promise!Start
<1>6. ASSUME NEW w \in Workers, Leave(w) \/ HandlerReturns(w)
      PROVE  [Promise!Next]_(Promise!vars)
  BY <1>6 DEF Leave, HandlerReturns
<1>7. ASSUME NEW w \in Workers, Retry(w) PROVE [Promise!Next]_(Promise!vars)
  <2>1. holds[w] \in Items
    BY <1>7 DEF Retry, Goto, Inv, TypeOK, ProcessingIsHeld, Working
  <2> QED BY <1>7, <1>g, <2>1, AddRateLimitedGood DEF Retry
<1>8. ASSUME NEW w \in Workers, Settle(w) PROVE [Promise!Next]_(Promise!vars)
  BY <1>8, <1>g, ForgetGood DEF Settle
<1>9. ASSUME NEW w \in Workers, Finish(w) PROVE [Promise!Next]_(Promise!vars)
  <2>1. holds[w] \in wq.processing /\ holds[w] \in Items
    BY <1>9 DEF Finish, Goto, Inv, TypeOK, ProcessingIsHeld, Working
  <2>2. /\ wq.processing' = wq.processing \ {holds[w]}
        /\ wq.dirty' = wq.dirty
        /\ wq.shuttingDown' = wq.shuttingDown
    BY <1>9, <1>g, <2>1, DoneGood DEF Finish, SameDelays
  <2> QED BY <2>1, <2>2 DEF Promise!Next, Promise!Finish
<1>10. ASSUME UNCHANGED vars PROVE [Promise!Next]_(Promise!vars)
  BY <1>10 DEF vars
<1> QED
  BY <1>1, <1>2, <1>3, <1>4, <1>5, <1>6, <1>7, <1>8, <1>9, <1>10
  DEF Next, WorkerStep

(* The queue and its workers implement the safety part of KeyedWork. *)
THEOREM SafelyImplementsKeyedWork == Spec => Promise!SafetySpec
<1>1. Init => Promise!Init
  BY DEF Init, NewQueue, Promise!Init
<1> QED BY <1>1, PromiseStep, Invariance, PTL DEF Spec, Promise!SafetySpec
=============================================================================

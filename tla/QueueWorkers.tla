---------------------------- MODULE QueueWorkers ----------------------------
(***************************************************************************)
(* One work queue and the goroutines that share it: event handlers that    *)
(* Add keys, the workers started by Run that execute                       *)
(* processNextWorkItemPodbuggertool (processNextWorkItemPod has the same   *)
(* body), the waitingLoop goroutine of the delaying queue, and the         *)
(* deferred ShutDown.  The handler called for a key (syncHandler,          *)
(* handlePod) is reduced to its result: nil or an error.                   *)
(***************************************************************************)
EXTENDS Workqueue

CONSTANTS
    Workers,
    NoItem

ASSUME NoItemAssumption == NoItem \notin Items
ASSUME WorkersAssumption == Workers # {}

VARIABLES
    wq,        \* the queue
    phase,     \* phase[w]: where worker w is in processNextWorkItem
    holds      \* holds[w]: the key it got and has not yet marked Done

vars == <<wq, phase, holds>>

Phases == {"idle", "handling", "succeeded", "failed", "finishing", "gone"}

Init ==
    /\ wq = NewQueue
    /\ phase = [w \in Workers |-> "idle"]
    /\ holds = [w \in Workers |-> NoItem]

(* An event handler adds a key. *)
Request(item) ==
    /\ wq' = Add(wq, item)
    /\ UNCHANGED <<phase, holds>>

Goto(w, from, to) ==
    /\ phase[w] = from
    /\ phase' = [phase EXCEPT ![w] = to]

(* obj, shutdown := c.workqueue.Get() *)
Take(w) ==
    /\ CanGet(wq)
    /\ Goto(w, "idle", "handling")
    /\ holds' = [holds EXCEPT ![w] = Head(wq.queue)]
    /\ wq' = Get(wq)

(* Get returned shutdown: the loop of runWorker ends, and wait.Until ends  *)
(* with it because stopCh was closed before ShutDown was called.           *)
Leave(w) ==
    /\ GetSaysShutdown(wq)
    /\ Goto(w, "idle", "gone")
    /\ UNCHANGED <<wq, holds>>

(* The handler of the key returns. *)
HandlerReturns(w) ==
    /\ \E result \in {"succeeded", "failed"} : Goto(w, "handling", result)
    /\ UNCHANGED <<wq, holds>>

(* An error: c.workqueue.AddRateLimited(key) *)
Retry(w) ==
    /\ CanAddRateLimited(wq)
    /\ Goto(w, "failed", "finishing")
    /\ wq' = AddRateLimited(wq, holds[w])
    /\ UNCHANGED holds

(* Mutant of Settle: the rate limiter is not told. *)
SettleUnforgotten(w) ==
    /\ Goto(w, "succeeded", "finishing")
    /\ UNCHANGED <<wq, holds>>

(* No error: c.workqueue.Forget(obj) *)
Settle(w) ==
    /\ Goto(w, "succeeded", "finishing")
    /\ wq' = Forget(wq, holds[w])
    /\ UNCHANGED holds

(* The deferred c.workqueue.Done(obj), after either of them. *)
Finish(w) ==
    /\ Goto(w, "finishing", "idle")
    /\ wq' = Done(wq, holds[w])
    /\ holds' = [holds EXCEPT ![w] = NoItem]

(* The waitingLoop goroutine takes an entry of the channel ... *)
Receive ==
    /\ CanReceive(wq)
    /\ wq' \in Received(wq)
    /\ UNCHANGED <<phase, holds>>

(* ... and adds an item whose delay is over. *)
Expire(item) ==
    /\ CanFire(wq, item)
    /\ wq' = Fire(wq, item)
    /\ UNCHANGED <<phase, holds>>

(* defer c.workqueue.ShutDown() in Run, once stopCh is closed. *)
Stop ==
    /\ ~wq.shuttingDown
    /\ wq' = ShutDown(wq)
    /\ UNCHANGED <<phase, holds>>

WorkerStep(w) ==
    Take(w) \/ Leave(w) \/ HandlerReturns(w) \/ Retry(w) \/ Settle(w) \/ Finish(w)

Next ==
    \/ \E item \in Items : Request(item) \/ Expire(item)
    \/ \E w \in Workers : WorkerStep(w)
    \/ Receive
    \/ Stop

(* Goroutines are scheduled, the handlers return, and delays end.          *)
(* Each turn of waitingLoop pops every entry whose delay is over.          *)
(* Senders blocked on waitingForAddCh are served first come, first served, *)
(* hence the strong fairness of Retry.  Nothing obliges an event to come   *)
(* or the process to be stopped.                                           *)
Fairness ==
    /\ \A w \in Workers : WF_vars(WorkerStep(w)) /\ SF_vars(Retry(w))
    /\ WF_vars(Receive)
    /\ \A item \in Items : WF_vars(Expire(item))

Spec == Init /\ [][Next]_vars /\ Fairness

-----------------------------------------------------------------------------
(* The types of the three variables; the channel is never past its capacity. *)
TypeOK ==
    /\ wq \in Queues
    /\ Len(wq.channel) <= ChannelCapacity
    /\ phase \in [Workers -> Phases]
    /\ holds \in [Workers -> Items \cup {NoItem}]

(* queue.go, comment on Type: the queue holds exactly the dirty items that *)
(* nobody is processing, each of them once.                                *)
QueueConsistent == QueueIsDirtyNotProcessing(wq)

Working == {"handling", "succeeded", "failed", "finishing"}

(* The processing set is what the workers hold: no Get is without its Done *)
(* and no Done is given to somebody else's key.                            *)
ProcessingIsHeld ==
    /\ wq.processing = {holds[w] : w \in {v \in Workers : phase[v] \in Working}}
    /\ \A w \in Workers : phase[w] \in Working <=> holds[w] # NoItem

(* Two workers are never on the same key at once, whatever is added while  *)
(* the key is being handled (what lets syncHandler and handlePod do        *)
(* without locks of their own).                                            *)
OneWorkerPerKey ==
    \A v, w \in Workers : v # w /\ holds[v] # NoItem => holds[v] # holds[w]

(* The limiter never remembers a key that has no further turn coming: a    *)
(* key that failed is delayed, queued, or in some worker's hands, so its   *)
(* back-off is eventually reset or a retry is due.                         *)
FailuresHaveARetry ==
    ~wq.shuttingDown =>
        wq.failures \subseteq Delayed(wq) \cup wq.dirty \cup wq.processing

(* queue.go, comment on ShutDown: the workers leave only after the items   *)
(* that were in the queue have been drained.                               *)
NothingLeftBehind ==
    (\A w \in Workers : phase[w] = "gone") => wq.dirty = {} /\ wq.processing = {}

(* A key whose handler failed gets another turn, unless the queue is shut. *)
FailedIsRetried ==
    \A item \in Items :
        (\E w \in Workers : phase[w] = "failed" /\ holds[w] = item)
            ~> (wq.shuttingDown \/ \E w \in Workers : phase[w] = "handling" /\ holds[w] = item)

(* After ShutDown every worker leaves (for workqueuePods ShutDown is never *)
(* called, so its workers have no such guarantee).                         *)
ShutDownEndsWorkers == wq.shuttingDown ~> \A w \in Workers : phase[w] = "gone"

(* The queue and its workers do what KeyedWork promises: a request made    *)
(* during processing is not lost, a key has one worker, every wanted key   *)
(* gets its turn.                                                          *)
Promise == INSTANCE KeyedWork WITH
    wanted <- wq.dirty, busy <- wq.processing, closed <- wq.shuttingDown

ImplementsKeyedWork == Promise!Spec
=============================================================================

----------------------------- MODULE Workqueue -----------------------------
(***************************************************************************)
(* The rate-limiting work queue of client-go (queue.go, delaying_queue.go, *)
(* rate_limiting_queue.go, default_rate_limiters.go) that the controller   *)
(* instantiates twice, as workqueue and as workqueuePods.                  *)
(*                                                                         *)
(* A queue is one record, and every method is an operator from the queue   *)
(* before the call to the queue after it: each method holds the queue's    *)
(* lock from its first to its last access, so a call is one step.          *)
(* Time is abstracted: an item waiting for its delay may fire at any       *)
(* moment, and the count of failures of an item is reduced to whether the  *)
(* limiter still remembers the item.                                       *)
(***************************************************************************)
EXTENDS Integers, Sequences, Functions

CONSTANTS
    Items,             \* the keys ("namespace/name") put in the queue
    ChannelCapacity    \* capacity of waitingForAddCh (1000 in the code)

ASSUME ChannelCapacityAssumption == ChannelCapacity \in Nat \ {0}

Queues ==
    [ queue        : Seq(Items),       \* order in which items are handed out
      dirty        : SUBSET Items,     \* items that need processing
      processing   : SUBSET Items,     \* items handed out and not yet Done
      shuttingDown : BOOLEAN,
      channel      : Seq(Items),       \* waitingForAddCh
      waiting      : SUBSET Items,     \* waitingForQueue, waitingEntryByData
      failures     : SUBSET Items ]    \* items the rate limiter remembers

NewQueue ==
    [ queue |-> <<>>, dirty |-> {}, processing |-> {}, shuttingDown |-> FALSE,
      channel |-> <<>>, waiting |-> {}, failures |-> {} ]

(* Mutant of Add: an item is queued although somebody is processing it. *)
AddAlwaysQueues(q, item) ==
    IF q.shuttingDown \/ item \in q.dirty
    THEN q
    ELSE [q EXCEPT !.dirty = @ \cup {item}, !.queue = Append(@, item)]

Add(q, item) ==
    IF q.shuttingDown \/ item \in q.dirty
    THEN q
    ELSE [q EXCEPT !.dirty = @ \cup {item},
                   !.queue = IF item \in q.processing THEN @ ELSE Append(@, item)]

(* Mutant of GetSaysShutdown: the queue is not drained first. *)
GetSaysShutdownAtOnce(q) == q.shuttingDown

(* Get blocks while the queue is empty and open. *)
CanGet(q) == q.queue # <<>>
GetSaysShutdown(q) == q.queue = <<>> /\ q.shuttingDown

(* Mutant of Get: the item is not marked as being processed. *)
GetUnmarked(q) ==
    [q EXCEPT !.queue = Tail(@), !.dirty = @ \ {Head(q.queue)}]

Get(q) ==
    [q EXCEPT !.queue      = Tail(@),
              !.processing = @ \cup {Head(q.queue)},
              !.dirty      = @ \ {Head(q.queue)}]

(* Mutants of Done: the mark stays; the request made meanwhile is lost. *)
DoneKeepsMark(q, item) ==
    [q EXCEPT !.queue = IF item \in q.dirty THEN Append(@, item) ELSE @]

DoneLosesRequest(q, item) ==
    [q EXCEPT !.processing = @ \ {item}, !.dirty = @ \ {item}]

Done(q, item) ==
    [q EXCEPT !.processing = @ \ {item},
              !.queue      = IF item \in q.dirty THEN Append(@, item) ELSE @]

ShutDown(q) == [q EXCEPT !.shuttingDown = TRUE]

(* Mutants of CanAddRateLimited: the channel has no limit; a sender that   *)
(* is blocked does not learn of the shutdown.                              *)
CanAlwaysAddRateLimited(q) == TRUE
CanAddIntoRoomOnly(q) == Len(q.channel) < ChannelCapacity

(* AddAfter blocks on a full channel; closing stopCh releases it. *)
CanAddRateLimited(q) == q.shuttingDown \/ Len(q.channel) < ChannelCapacity

AddRateLimited(q, item) ==
    [q EXCEPT !.failures = @ \cup {item},
              !.channel  = IF q.shuttingDown THEN @ ELSE Append(@, item)]

Forget(q, item) == [q EXCEPT !.failures = @ \ {item}]

(* waitingLoop takes one entry from the channel: the entry joins the heap, *)
(* where an entry of the same item absorbs it, or, its delay being over    *)
(* already, the item is added at once.  The loop ends at ShutDown.         *)
CanReceive(q) == q.channel # <<>> /\ ~q.shuttingDown

ReceiveAndWait(q) ==
    [q EXCEPT !.channel = Tail(@), !.waiting = @ \cup {Head(q.channel)}]

ReceiveAndAdd(q) ==
    Add([q EXCEPT !.channel = Tail(@)], Head(q.channel))

Received(q) == {ReceiveAndWait(q), ReceiveAndAdd(q)}

(* waitingLoop pops an entry whose delay is over. *)
CanFire(q, item) == item \in q.waiting /\ ~q.shuttingDown

(* Mutant of Fire: the entry leaves the heap and is not added. *)
FireDrops(q, item) == [q EXCEPT !.waiting = @ \ {item}]

Fire(q, item) == Add([q EXCEPT !.waiting = @ \ {item}], item)

-----------------------------------------------------------------------------
(* Facts about one queue, used by the specifications that hold queues. *)

(* The comment on Type: every element of queue is dirty and not being      *)
(* processed; conversely a dirty item is queued as soon as nobody is       *)
(* processing it, so no request is lost, and it is queued once.            *)
QueueIsDirtyNotProcessing(q) ==
    /\ Range(q.queue) = q.dirty \ q.processing
    /\ IsInjective(q.queue)

(* An item a delayed add still stands for. *)
Delayed(q) == Range(q.channel) \cup q.waiting
=============================================================================

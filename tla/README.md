# PodBuggerTool: specifications and proofs

PodBuggerTool is a Kubernetes controller. A user creates a `Podbuggertool`
resource with a label (`app=payment`) and an image; the controller puts an
ephemeral container with that image into every pod that carries the label and is
ready. The program proper is `src/controller.go` (660 lines, of which lines 576 to
659 are commented out or unused) and `src/main.go`; it has no tests. Most of what
makes it work or fail lies in how it uses two libraries vendored beside it, the
work queue and the shared informer of client-go, and those are modelled with it.

This directory holds TLA+ modules of the controller and of these two libraries,
TLC configurations that check them on small instances, and proofs, checked by
TLAPS, about the two libraries, about the controller (the half that looks after tools, and the whole),
and about the program's start and end.

    tlc -config MCInject.cfg MCPodBuggerTool.tla      (one run)
    tlapm QueueWorkersProofs.tla                      (one proof)

## 1. The system

### Components

| component | code | state | operations |
|---|---|---|---|
| tool side of the controller | `src/controller.go:113-136, 209-260, 352-469` | the pool `mapPbtool`, `workqueue` | `AddFunc`, `UpdateFunc`, `DeleteFunc`, `enqueuePodbuggertool`, `cacheTargetLabel...`, `removeTargetLabel...`, `syncHandler`, `updatePodbuggertoolStatus` |
| pod side of the controller | `src/controller.go:141-159, 214-218, 262-340, 471-569` | `workqueuePods`; it reads `mapPbtool` | the handlers of pods, `enqueuePod`, `checkLabelPod`, `handlePod`, `updatePod` |
| work queue | client-go `util/workqueue` | `queue`, `dirty`, `processing`, `waitingForAddCh`, the heap of delayed entries, the limiter's failures | `Add`, `Get`, `Done`, `AddRateLimited`, `Forget`, `ShutDown`, `waitingLoop` |
| shared informer | client-go `tools/cache` | the indexer, the FIFO of deltas, the buffer of notifications | list and watch, `Replace`, `HandleDeltas`, resync, `pop` and `run` of the listener |
| polling | apimachinery `util/wait` | none that outlives a call | `PollImmediate` |
| start and signals | `src/main.go`, `src/pkg/signals`, `NewController`, `Run` | `stopCh`, the channel of signals | `main`, `Run`, `SetupSignalHandler` |
| informer factories | `src/pkg/generated/informers` and client-go's `informers` | the informers registered and those started | `InformerFor`, `Start`, `Informer()`, `Lister()` |
| typed client | `src/pkg/generated/clientset` | the API server's objects | `Create`, `Update`, `Patch`, `Delete`, `DeleteCollection`, `List`, `Watch` |
| lister, deep copies | `src/pkg/generated/listers`, `zz_generated.deepcopy.go` | the objects in memory, shared by pointers | `Get`, `DeepCopy` |
| API types | `src/pkg/apis/podbuggertool/v1beta1` | - | `Spec.Label`, `Spec.Image`, `Status.Installed` |

### How they interact

The API server tells the two informers of tools and of pods. Each informer keeps
a store, read by a lister, and calls the handlers of its kind one at a time on a
goroutine of its own. The handlers of tools write the pool and put the tool's key
into `workqueue`; those of pods read the pool, and put the pod's key into
`workqueuePods` if a label of the pod is in it. Two workers per queue, started when
all stores are filled, take keys out: `syncHandler` writes `Status.Installed = 1`
through the API server; `handlePod` waits, up to 120 seconds, for the pod to be
ready, and `updatePod` looks the label up in the pool once more and writes the
ephemeral container. Both writes come back as update events. A panic in any of
these goroutines ends the process (`HandleCrash` panics again), and Kubernetes
starts another, with an empty pool and empty queues.

### What is hard in it

- The pool is a Go map shared without a lock by four goroutines: the handlers of
  tools, those of pods, and two pod workers.
- It is consulted twice for each pod, up to two minutes apart.
- It has one entry per label, not one per tool.
- Handlers see a compressed history: a broken watch merges states, and reports
  missed deletions as `DeletedFinalStateUnknown`.
- The status is written from the lister's copy, which may be older than the server's.
- The pods' half turns every error into success; only the resync of the informer,
  every 5 seconds (`src/main.go:49`), brings a pod back.
- Everything but the API server's objects is lost in a restart.
- FIFO, store, notifications and lister hold pointers to the same objects.
- Signals may come at any moment of the start, twice in a row, or in the moment in which the
  caches get synced; `Run` shuts down one of the two queues only.

`PROJECT.json` lists these and the other hazards, each at its line.

### What makes each component correct

- *Queue*: one worker per key; a request made while a key is being processed is
  not lost; what fails is retried; shutdown drains and ends.
- *Informer*: notifications are an unbroken chain per key, and end in the server's state;
  nothing that is shared is written; "synced" means that the first list is in the store.
- *Start and end*: workers see full caches of informers that somebody started; a
  signal ends the process at whatever point it is, and the exit tells how far it had come.
- *Tool side*: the pool holds just the labels of the tools that exist; a stale
  status write never undoes a user's; every tool gets its status; the controller's own
  writes do not keep it busy.
- *Pod side*: a ready pod that matches gets a container, and is left alone then; never one
  nobody asked for; no worker is held by a pod for ever.

## 2. The modules

| module | models |
|---|---|
| `Workqueue` | the methods of one queue, as operators from a record to a record |
| `KeyedWork` | what a queue promises: the abstract specification |
| `QueueWorkers` | one queue with handlers, workers, `waitingLoop`, shutdown |
| `WorkqueueProofs` | lemmas: what each method does to a queue |
| `QueueWorkersProofs` | theorems about `QueueWorkers` |
| `Informer` | what an informer is to its users: server, store, notifications, relists, restarts; the abstract specification |
| `DeltaFIFO` | the queue between reflector and informer, as operators from a record to a record |
| `ToolClient` | the calls of the typed client, by what they do to the API server |
| `ToolInformer` | the informer of Podbuggertools as it is built, from reflector to lister, with a worker that writes a status; implements `Informer` |
| `Lifecycle` | one life of the process: signals, `main`, factories, `Run`, workers, exit |
| `LifecycleProofs` | theorems about `Lifecycle` |
| `InformerProofs` | theorems about `Informer` |
| `ToolInformerLemmas` | lemmas about the operators of `DeltaFIFO` and of the mapping in `ToolInformer` |
| `ToolInformerProofs` | theorems about `ToolInformer`, among them that it implements `Informer` |
| `PbtController` | the tool side; instantiates `Informer` and `Workqueue` |
| `PbtControllerProofs` | theorems about `PbtController` |
| `PodBuggerTool` | the whole process: extends `PbtController` with the pod side and its own `Informer` and `Workqueue` |
| `PodBuggerToolProofs` | theorems about `PodBuggerTool` |
| `MCQueueWorkers`, `MCToolInformer`, `MCPbtController`, `MCPodBuggerTool`, `MCLifecycle` | instances for TLC |

Operators whose comment begins "Mutant of" are faulty variants of the definition
that follows them; no specification uses them. They document which mistake each
property is there to catch: with the variant in place of the definition, the run
that checks the property fails.

### Workqueue, QueueWorkers

A method of `Type` holds the queue's lock from its first to its last access to it, so a
call is one step. `Add`, `Get`, `Done`, `ShutDown` translate `queue.go` line by line.
`AddRateLimited` records the failure and sends to `waitingForAddCh`, blocking when
it is full unless the queue is shutting down (`delaying_queue.go:160-179`).
`waitingLoop` is two steps, `Receive` (an entry goes to the heap, merging with one
of the same key, or, its delay being over, straight to the queue) and `Expire`; the real loop,
once it has taken one entry, drains the channel before it does anything else, which is a sequence of
`Receive`s. Clock, length of the back-off, the token bucket and metrics are left out: any
delay may end at any time. The limiter's counter per key is reduced to whether
it remembers the key. `processNextWorkItem...` is
`Take`, `HandlerReturns`, `Retry` or `Settle`, `Finish`, with a choice of results for the
handler. The branch for keys that are not strings is left out: only strings are added.
A goroutine may be between any two of these.

### Informer

`server` is what the API server holds; `unseen[k]` the states of key `k` on their way
(watch events, then deltas in the FIFO); `store` the indexer; `pending` the
notifications in the listener's buffer; `told` what the handlers were last told; `listing`
the keys of the first list still missing, so `HasSynced == listing = {}`. `Observe` is
`HandleDeltas` for one state: it updates the store and adds a notification with the *store's*
old object. `Relist` stands for a broken watch followed by a list, at any moment. Of the unseen states of each key a prefix
had reached the FIFO and stays (`MayHaveReached`; at least the first state of a key of the first list), the rest
vanishes; listed objects arrive behind it as they are, and an object the store has but the list has not as
a deletion with `lost`, the `DeletedFinalStateUnknown`, unless the prefix ends in a deletion already (`dedupDeltas`). An
object that is neither listed nor in the store, but still unseen as created, gets no deletion
(`delta_fifo.go:579-600` looks in the store only) and stays in the store as a ghost: it is `Overlooked`, until another
list finds it. A tombstone carries the store's object of the moment of the list, which may be
older than what is unseen before it (`delta_fifo.go:736-739` says so); its notification has `old = NoObject` in `Informer`,
and `Chain` makes no claim about it. The order of different keys is not kept,
because the FIFO and the watch do not promise it in what handlers can use. A listed object equal to
the stored one is passed on to the handlers only if a resync is due (`shared_informer.go:544-553`): that is
`Observe` or `Overlook`. The modules of the controller take `Observe` for it throughout, that is, they
count a resync as due; no handler can tell the two apart.

### DeltaFIFO, ToolClient, ToolInformer

`Informer` is written from what a user of a shared informer can observe; `ToolInformer` is written from the code
behind it, and proved to implement it. `DeltaFIFO` has one operator per method of `delta_fifo.go`; a
method that goes through a Go map or a set takes the order in which keys enter the queue as a parameter (`Replace`, `Resync`),
and `ToolInformer` chooses it among the orders of those keys that are to be queued (`ToQueue`). `populated` is left out: a `ToolInformer` begins, and begins again after a
restart, when its first list is in the FIFO.

An object in memory is a cell of `heap`, and FIFO, notifications, indexer and lister hold its number.
The number is the object's resourceVersion: two decodings of the same version are one cell, which can be told from two
only by writing one of them, and that is what `SharedAreReadOnly` rules out. `CopyCell` is the one cell for copies; it is
enough for one worker at a time, which is the model's bound on workers in `syncHandler`.

| step | code |
|---|---|
| `WatchHandler` | one event of the watch goes to the FIFO (`reflector.go:454-520`) |
| `ListAgain` | the watch broke so that a list is needed (`:254-360`) |
| `ResyncTimer` | `Resync` (`:367-390`) |
| `ProcessLoop` | `Pop` takes a key with its deltas and calls `HandleDeltas`, the FIFO's lock held: `FifoIsFree` is false until it is done |
| `HandleDelta` | one turn of the loop in `HandleDeltas`: indexer, then a notification |
| `Deliver` | the handlers return |
| `SyncHandler`, `UpdatePodbuggertoolStatus` | `Get`, `DeepCopy`, the status set; the write, which the server refuses if the tool has changed since |

The mapping to `Informer` reads `unseen[k]` as the deltas `HandleDeltas` has in hand, those in the FIFO, and the
events on the wire, without a `Sync` delta, which only the oldest of a key's deltas can be. `ListAgain` empties the wire and queues the listed states,
which is `Relist`; `ProcessLoop`, `WatchHandler` and the worker are stutters. A list answers with the server's current state, and the watch
after it misses nothing. `ListAgain` has no guard but the FIFO's lock: deltas may still be
queued, and then deletions are merged (`DedupDeltas`), a `Deleted` delta may carry an object older than the deltas before it, and
a tool queued as added, not yet indexed, and missing in the list is overlooked. That is rare in practice, since a reflector waits 800 ms or more
before it lists again, but nothing in the code excludes it. `OverlookedOnlyWhenQueued` says that this is
the only way in which a deletion is lost: nothing else makes a tool overlooked, and a list that finds it in the indexer ends it.
The comment of `SharedInformer` (`shared_informer.go:54-66`) promises more, a cache "eventually consistent with
the authoritative state", which an overlooked tool contradicts until the next list; `ToldCatchesUp` therefore
exempts it, as `UnseenLeadsToServer` speaks of tools that exist. The answer of the list and `Replace` are one step: nothing enters the FIFO between the two, keys popped in that time are popped before the step
in the model, and writes to the server come after it, as events of the watch that follows.

### Lifecycle

The main goroutine is `main`, at one of `Statements`; each constructor may fail, and `Fatal` ends the process. `InformerFor` is
the factory's: what `NewController` asks for (`Requests`, eight of them, in order) creates an informer or finds one, and `Start`
runs those registered by then. The goroutine of `SetupSignalHandler` is `FirstSignal` and `SecondSignal`; a signal
before `signal.Notify` kills, and a third one that finds the channel full is lost. `WaitForCacheSync` is `FirstCheck`, then
`TickFindsThemSynced` or `GiveUp`; when both are possible Go's `select` takes either. `RunReturns` is the deferred
`workqueue.ShutDown`: `workqueuePods` is never shut down, its workers stay in `Get`, and the process ends all the same
because `main` returns (`Finish`). What an informer holds and what a worker does with an item are left to the other
modules; an informer is listing, watching or stopped, and a queue holds a number of items.
After `stopCh` is closed the goroutines of informers stop one by one, and workers may still be busy when the process ends.

### PbtController

Each handler is an action that reads the oldest notification, acts, and removes it
(`AddTool`, `IgnoreUpdate`, `DeleteTool`); `UpdateFunc` is two steps, `UpdateRemoves`
and `UpdateCaches`, because pods may be looked up in the pool in between. `TombstonePanics`
is the failing type assertion at line 131. `syncHandler` is `LookUpTool` and one of
`UpdateSucceeds`, `UpdateRefused` (conflict or not found) and `UpdateFaults` (the call
fails before or after it took effect). A tool is a label, an image, `installed` and
a `resourceVersion`; a pool entry is the key and the image of the tool that put it there.
`Fold` is what `strings.EqualFold` compares, a constant function so that an instance may
identify two strings. `WellFormed` are the labels with a "=".

### PodBuggerTool

`BeginScan`, `ScanLabel`, `EndScan` are a handler of pods with `checkLabelPod`: one step
per label, in any order, since the handlers of tools may change the pool between two
labels and Go's map order is arbitrary. A worker goes through `TakePod`, `LookUpPod` (the snapshot), `Polls`
(at most `MaxPolls` checks), `FetchPod`, `MatchLabel` (one label of the *snapshot* per step),
`ReadEphs`, `PutEphs`, `SettlePod`, `FinishPod`; `GivesUp` and `PutFails` are the calls
that fail. `NilPanics` is line 521 reached with no label found. `PutEphs` replaces the
list (line 544); the API server refuses it if the pod was written in between, if
an existing ephemeral container is missing from it, or if the container's name is
not a DNS label (`Nameable`); an accepted write equal to what is stored changes
nothing. `Panics` and `Killed` restart both halves: what the API server holds survives,
nothing else. `PoolWriting` and `PoolReading` say that a goroutine is about to
write or read the map; the Go runtime may stop the process when both happen at once,
which is one of the two reasons for `Killed`. What a race does to the
map beyond that is not modelled. Pods are created, deleted and relabelled, become
ready or not, and are given containers by users (`PodEvents` selects which).

## 3. The runs

A run checks the properties in its `.cfg`. Bounds are the constants `Max...`; states beyond
them are not explored. Most of them count events of the environment. Two of `informer` also stop a step of the program:
`MaxRevision` counts the tools written, by users and by the worker, so the worker's write is not possible after the last of them;
`MaxBreaks` counts resyncs along with broken watches and restarts, so the timer does not fire again once it is used up. No property of that run
asks for either step, and the theorems, where there are no such bounds on the values, cover the rest.
`PendingBound` and `PodPendingBound` keep resyncs and lists of the controller's informers for a moment in which few notifications
are pending.

| run | instance | checks |
|---|---|---|
| `queue` | 2 keys, 2 workers, channel of 1 | `TypeOK`, `QueueConsistent`, `ProcessingIsHeld`, `OneWorkerPerKey`, `FailuresHaveARetry`, `NothingLeftBehind`, `FailedIsRetried`, `ShutDownEndsWorkers`, `ImplementsKeyedWork` |
| `informer` | 2 tools, 2 versions written, 2 broken watches, resyncs or restarts, 1 worker | `Chain`, `UnseenLeadsToServer`, `NotesMakeSense`, `FifoStaysConsistent`, `SyncedMeansListed`, `ImplementsInformer`, `SharedAreReadOnly`, `ToldMovesForward`, `OverlookedOnlyWhenQueued`, `ToldCatchesUp` |
| `pool` | 2 tools with labels of their own, 2 edits, 1 relist, 1 worker | `PbtTypeOK`, `PoolSound`, `PoolComplete` |
| `status` | 1 tool, 2 workers, 2 edits, 1 failing call, 1 crash | `OnlyUsersChangeTools`, `ToolsGetInstalled`, `ComesToRest` |
| `inject` | 1 tool, 1 pod, 1 edit, 1 pod event (created, deleted, readiness), 2 readiness checks, 1 failing call, 1 relist, restarts by panics | `EventuallyInjected`, `ServedPodsRest`, `WorkersReleased` |
| `injected` | 1 tool moving between 2 labels and 2 images (1 edit), 1 pod deleted and re-created with other labels, 1 kill | `PodTypeOK`, `InjectedWasOffered` |
| `lifecycle` | 3 signals, 2 workers of each kind, queues of at most 1 item | `TypeOK`, `InformersAreShared`, `WorkersSeeFullCaches`, `ExitTellsHowFar`, `ServesUnlessStopped`, `SignalEndsProcess` |

Why these are enough to be worth something. The queue with one slot in the channel
is full after one failure, so blocking, shutdown while blocked, and a retry of a key
that is queued anew all happen with two workers; a third key adds only order. In `informer`
two versions are two tools created, one tool deleted and re-created before a list, a user's edit under a worker's stale copy, or the worker's own write; any
of them may be deleted again. Two disturbances (list, resync or restart) meet every state of
a FIFO with two keys, drained or not: a deletion found while a newer version is queued, one merged with another, a tool that a list overlooks, and
the next list that finds it. Three versions with one disturbance (397,676 states) were checked as well, without a difference, but take longer than
a run should. `FirstName` fixes which of two interchangeable tools is there at first.
In `lifecycle` three signals are one more than the program answers, and one item per queue
keeps a worker busy while the other waits. In `pool`, two edits are
a deletion and re-creation, a label moved away and back, or an edit of each of two tools. In
`inject` one pod event is what it takes to delete a pod behind a broken watch (the
tombstone panics, and the run shows that the restart heals it), or to make it ready too late; panics
are the only restarts in it (a kill at any moment doubles the states: 456,674, checked once without a difference), `injected` and `status` have the others. `injected` needs two images, to tell a changed one, and treats them as
interchangeable (symmetry; it checks no liveness). `MaxPolls` is 2 in `inject`: a check that fails and is
followed by another, one after which the pod is ready, and the timeout after the last one all occur there; a third check
would repeat the second. It is 1 in
the other runs with pods, whose properties are not about polling.
In `inject` a pod that has its container is `Served` while no tool
asks for another image; an edit of the image ends that, since the update is refused (`user_container`) and the pod queued at each resync.
`status` has no relist, and `pool` gives each tool labels of its own: the runs below show that
the properties fail otherwise, so this is the exact ground on which they hold. The runs
with pods take images that make valid container names and, except `user_container`, no
containers of users, for the same reason.

### Where the code does not do what is said of it

These runs each end in a counterexample, on purpose.

| run | property | what happens |
|---|---|---|
| `pool_shared` | `PoolComplete` | two tools with one label: the deletion of the one that owns the entry ends the search for the other's pods (`src/controller.go:426`) |
| `status_relist` | `ToolsGetInstalled` | a tool deleted and re-created during a broken watch looks unchanged to `UpdateFunc`, and never gets its status (`:118`) |
| `nil_tool` | `UpdatePodFindsATool` | the tool goes away between `checkLabelPod` and `updatePod`: nil is read (`:521`) |
| `pool_race` | `PoolNotRaced` | the handlers of tools write the pool while a pod's handler or worker reads it (`:444`) |
| `user_container` | `EventuallyInjected` | a pod with somebody else's ephemeral container never gets the controller's (`:544`) |

Read from the code while modelling, and without a run of their own:

- the handlers at lines 131 and 155 panic on `DeletedFinalStateUnknown`. The run `inject` takes
  the step for pods, `pool` for tools;
- `UpdateFunc` ignores an edit in case only (line 118) while the pool's keys are
  exact: with a `Fold` that identifies two labels `PoolSound` fails. No run has such labels (`Fold` is the identity in all of them),
  and theorem `PoolIsRight` excludes them;
- a label without "=" is only warned of (line 449), yet the tool is reported installed;
- `updatePod` matches the labels of the snapshot, not those of the pod it just fetched (line 513);
  so `InjectedWasOffered` speaks of labels any pod of that name has had;
- the container's name is the image with a prefix (line 521): `busybox:1.28` does not
  give a DNS label and is refused for ever;
- `workqueuePods` is never shut down (line 186 does it for `workqueue` only). The
  process ends soon after `Run` returns, which hides it: `SignalEndsProcess` holds because nobody waits for the workers.

### Fairness

Weak fairness of a worker, a handler, `Observe`, `Receive`, `Expire` and `Panics`: a
goroutine that can run is scheduled, a call to the API server returns, a
delay ends. `Expire` is fair per key because each turn of `waitingLoop` pops every
entry that is due. Strong fairness of `Retry`: a sender blocked on a Go channel waits in
a first-come-first-served queue, so it cannot be overtaken for ever by others that fill the
slot. Strong fairness of `ResyncPod`: the timer fires every 5 seconds, and the guard
`Len(podPending) < PodPendingBound`, which is the model's bound and not the program's, must not
disable it at each tick. (`ResyncPod`, `RelistPods`, `ResyncTool` and `RelistTools` have such a guard; `Informer` itself has none.) Strong fairness of `WatchHandler`: it and `ProcessLoop` take the FIFO's lock, a `sync.RWMutex`, which lets
in whoever waits for it; without that, resyncs that are not passed on could keep it out for ever.
In `Lifecycle` the goroutines of signals, informers and workers are weakly fair, and so is `Main`:
the main goroutine is scheduled, a constructor returns, `WaitForCacheSync` ticks. No fairness is given to users, faults, crashes, broken
watches or the stop signal. The restart after a panic is in the same step as the panic: Kubernetes restarts
the container. `ResyncTool` needs no fairness: its update is ignored by `UpdateFunc`.
`PbtController` alone waits only for its own informer before workers start; in
`PodBuggerTool` they wait for both, as `Run` does.

### Panics across the two halves

`status` checks `ToolsGetInstalled` for the tool side by itself, with a crash at any moment. A panic of the
pod side is, for the tool side, such a crash: `PodSide` leaves every variable of `PbtController` alone, and
`Panics` and `Killed` are `PbtRestart` there. So the pods' half needs no workers of tools in its runs
(`PbtWorkers = {}`; the handlers of tools and their pool are there), and they do not have any.

## 4. The proofs

TLC shows a property for two keys and two workers; the theorems hold for every value of
the constants, and so without a bound on edits, faults, relists, crashes or signals. They assume what the modules' `ASSUME`s state: a channel of at least one
slot; at least one worker of the queue in `QueueWorkers` (`Run` starts two); a `NoItem` (`NoObject`, `NoTool`,
`NoPod`) that is no item, object or entry; `WellFormed` labels are labels, and
`LabelsOf` and `Fold` are functions on tools and on strings.

`WorkqueueProofs`. For each method of a queue a lemma (`AddGood`, `GetGood`, `DoneGood`, ...) says that it
keeps a queue well typed and consistent, and what it does to the other fields; below them two lemmas
say what `Append` and `Tail` do to the set of keys in a sequence. `AddTyped`, `MethodsTyped` and so on are
about types alone, for holders of a queue who know nothing of its consistency.

`QueueWorkersProofs`. No worker can see from `OneWorkerPerKey` alone why it stays true: it depends on the
key handed out not being in `processing`, on `processing` being what the workers hold,
and on the queue not holding a key twice. The inductive invariant is therefore

    Inv == TypeOK /\ QueueConsistent /\ ProcessingIsHeld /\ OneWorkerPerKey

`InvNext` has one step per action and cites the lemmas. From `Invariance` follow

- `TypesHold` and `ProcessingIsAlwaysHeld`: `TypeOK` and `ProcessingIsHeld` always;
- `QueueAlwaysConsistent`: `QueueConsistent` always;
- `NoTwoWorkersOnAKey`: `OneWorkerPerKey` always;
- `SafelyImplementsKeyedWork`: every behaviour of the queue and its workers, seen
  through `wanted <- dirty`, `busy <- processing`, `closed <- shuttingDown`, is one of `KeyedWork`
  (its safety part): the lemma `PromiseStep` maps each action to a step of the abstract
  specification or to a stutter.

Two more need what `Inv` does not say:

- `FailedKeysComeBack`: `FailuresHaveARetry` always. The property counts a key in `processing` as coming back,
  which `Done` would end; `RetryInv` adds that a worker about to call `Done` for a key the limiter remembers has already
  put it on its way (`Retry` comes before `Finish`), or `Settle` has forgotten it.
- `ShutDownDrains`: `NothingLeftBehind` always. `GoneInv`: once every worker has left, the queue is shut
  and empty, because `Leave` is possible only then and `Add` does nothing from then on. Here the assumption that there is a
  worker is used: with none, all have left from the start.

`InformerProofs`. `Chain` is inductive together with the types. Its four parts (the first
notification of a key starts at what was told; each starts where the one before it ended; the
last one ends at the store; a key with none is told what the store has) are each
lost and regained at the two ends of the sequence, which `ChainExtended` (a notification is appended) and
`ChainShortened` (one is handled) prove once for all operations. Then

- `ChainNeverBreaks`: types and `Chain` always, for a server to which anything may be written,
  with any number of relists and restarts;
- `ServerIsReached`: what is unseen of an object that exists ends in the server's state, and with
  nothing unseen the store is up to date. `RelistedEnds` says what the last state of a key is after a list,
  and `OverlookedBefore` that no step but a list makes an object overlooked;
- `NotesAlwaysMakeSense`: a deletion is told only of an object the handlers know by then. It needs `Alternates`: the states of
  a key on their way to the store are never "no object" twice in a row, which in turn needs
  `UnseenLeadsToServer` when the server deletes.

`TombstonesDelete` (what is `lost` is a deletion) says that handlers meet a tombstone only as a deletion; the proofs of
the controller use it, because a tombstone is told by its flag and not by its old object.

`HeldShrinks` and `HeldWrite` say that the informer invents nothing: the objects it holds anywhere under a
key come from writes under that key.

`ToolInformerProofs` proves that the informer as it is built is one of these: `ToolImplementsInformer` states the
refinement `ImplementsInformer`, for any finite sets of namespaces and names and any bounds. The argument has four layers.

1. Memory and FIFO (`Base`, theorem `ToolFifoConsistent`). Pointers go to cells that hold a tool; every version of a tool is
   in memory once, in its own cell (`EachOnce` speaks of all versions at the server, on the wire and in memory);
   a key is in the FIFO's queue exactly while it has deltas. Objects stay where they are (`Kept`), and so
   `SharedStayReadOnly`: `SharedAreReadOnly`. Each action is first reduced to what it does to FIFO, memory and
   indexer (`WatchIs`, `RelistIs`, `ResyncIs`, `PopIs`, `Written`, ...), and `Steps` collects them.
2. Lines (`InLine`, `GoneWasThere`). The line of a key is what `HandleDeltas` has in hand of it and its deltas in the FIFO.
   A `Sync` delta is the first of its line and holds the indexer's object. No deletion follows a deletion in FIFO and wire
   together, and each that the watch brings holds the object that was there before: hence `DedupDeltas` merges only what a list finds
   deleted with a deletion that is queued, which `Relisted` does, too, and the early return of `Delete` for a key that is neither stored nor queued is never taken.
3. Moves. One lemma for each action says which step of `Informer` it is (`WatchMoves`, `RelistMoves`, `ResyncMoves`, `PopMoves`,
   `HandleMoves`, `DeliverMoves`, `RestartMoves`, `WrittenMoves`, `AsideMoves`) and that the lines stay in order. The mapped variables are
   sequences computed from sequences, so `ToolInformerLemmas` says how the states of a key change when a delta is appended, an event moves from the
   wire to the FIFO, or the oldest delta goes (`StAppended`, `StMoved`, `StTail`).
4. `IInv` joins `Base`, the lines, `ListingIn` and the invariants of `Informer` itself, taken from `InformerProofs` through the mapping.
   The two support each other: that no deletion follows another is `Alternates`, an invariant of `Informer`,
   which holds of the mapped variables because every step so far was a step of `Informer`.

`EventsOf` picks the events of one key by a recursive function over the wire. Its value for every wire is an induction, which `SetInduction`
does with a set of numbers in the place of a property: it follows from the well-foundedness of the numbers.

From the refinement come `ToolChainUnbroken`, `ToolServerReached` and `ToolNotesMakeSense`: `Chain`, `UnseenLeadsToServer` and `NotesMakeSense`
always, whenever lists come. `OnlyQueuedIsOverlooked` states `OverlookedOnlyWhenQueued`: `OverlookedMoves` takes all steps but `ListAgain` from
`OverlookedBefore`, and for `ListAgain` looks at what the mapped step leaves behind. `ToolSyncedMeansListed` uses `ListingIn`: a key of the first list that the store lacks is in hand, or among the first
`initialPopulationCount` of the queue. `ToldGoesForward` states `ToldMovesForward`. Its invariants are `Forward`, by which the
store and then the states on their way to it have rising revisions, none above the server's, and `NotesForward`,
the same of the two objects of a notification; with `Chain` they make the handlers' view go forward.

TLC checked `InLine`, `GoneWasThere`, `ListingIn` and `Alternates` on the instance of `informer` before they were proved.
The assumptions are that namespaces and names are finitely many, that `NoTool` is not a tool, and that the bounds are numbers, with room for at least the
one tool that is there at first.

`PbtControllerProofs` instantiates the two modules of lemmas (`I`, `W`) for the controller's informer and
queue; `Moves` shows that every step of the controller is, for the informer, a step of its own or one write.

- `PbtTypesHold`: `PbtTypeOK` always. The handlers read objects out of notifications, so the
  invariant `PbtInv` has the informer's invariants in it (`Chain` and `NotesMakeSense` say which
  kind of notification holds which objects), and `HandlerOK`: between its halves `UpdateFunc` still has its
  notification in front of it (`NoteStays`).
- `OnlyUsersChange`: `OnlyUsersChangeTools`. The server compares resource versions only, so the invariant
  `KnownOK` is about all objects under a key in server, informer and workers' copies: two with the
  same resource version have the same label and image, and none has a version not yet given out.
- `PoolIsRight`: `PoolSound` and `PoolComplete` always, if `LabelsAreOwn`: no two tools share a label and
  `Fold` is injective on labels. Both premises are needed: `pool_shared` shows the first one violated, and the second
  is what the filter of line 118 relies on. `PoolInv` adds that entries stand under well-formed
  labels only and that, between the halves of `UpdateFunc`, the tool has none; `KnownOK` gives that the
  labels the handlers are told are labels its users gave the tool. `PoolHasEveryTool` states `PoolComplete` by itself.

The lemmas about single steps are not about `PbtNext` but about `PbtStep`, which adds what the pod side does to the tool
side: it may panic, or the process be killed with it, at any moment and as often as it likes (`Dying`). So they
hold in the composed process as well.

`PodBuggerToolProofs` is about that process. `PbtHalf` shows that each of its steps is a `PbtStep` or leaves the tool side
alone; `ToolTypesHoldInTheWhole`, `OnlyUsersChangeInTheWhole` and `PoolIsRightInTheWhole` are the three theorems above for the whole.
The second informer and the second queue take their lemmas from other instances of the same modules (`P`, `V`). Then

- `PodTypesHold`: `PodTypeOK` always, from `PodInv`, the counterpart of `PbtInv`.
- `WhatIsInjectedWasOffered`: `InjectedWasOffered` always. `PodMoves` sorts the steps into what the informer does, what
  others do to a pod, and the one write of a worker (`WorkerPuts`). Between a user's edit and the write of a
  worker lie six copies of a tool (server, informer, notifications, pool, the worker's entry, the container). `OfferedInv`
  follows it along them: what the tool side knows of a tool, and every entry of the pool, is an offer some user made
  (`ToolsWereOffered`); what the informer of pods holds of a pod shows labels it has worn (`LabelsWereWorn`);
  and the labels a worker still goes through, and the entry it found by one of them, agree with both
  (`WorkersFollow`). TLC checked this invariant on the instance of `injected` before it was proved.

`LifecycleProofs`. The four theorems say, for any number of workers, signals and items, that the types hold
(`TypesAreKept`: no more than two signals in the channel), and `InformersAreShared` (`OneInformerOfAKind`),
`WorkersSeeFullCaches` (`WorkersReadFullCaches`) and `ExitTellsHowFar` (`ExitStatusIsTrue`) always. The inductive
invariant says what holds at each statement of `main`: `WiringOK`, how many of NewController's requests are
answered, and that every informer made is registered under its kind; `StartedOK`, which factories are
started; `ServingOK`, that workers exist only after the caches have synced, and which statements
come with workers; `SignalsOK`, that the goroutine waits for a second signal only after the
first has closed `stopCh`. A cache that has synced stays so (`InformersInv`), which is why what Run found at
its last check still holds when a worker reads.

Only model-checked: liveness (`FailedIsRetried`, `ShutDownEndsWorkers`, the liveness half of
`ImplementsKeyedWork`, `ToldCatchesUp`, `ToolsGetInstalled`, `ComesToRest`,
`EventuallyInjected`, `ServedPodsRest`, `WorkersReleased`, `ServesUnlessStopped`, `SignalEndsProcess`), which is out of the prover's reach. Every invariant,
every action property and every safety half of a refinement that a passing run checks is a theorem.

## 5. What is not modelled

- What the generated code offers and the program does not call: `Get` and `UpdateStatus` of the
  typed client, lister functions that list, `ForResource` and `WaitForCacheSync` of the factory, the
  deep copies of lists and parts, the fake clientset. The registration of types in a scheme is a table
  filled before `main` runs.
- The handlers of deployments are commented out or not called; their informer is there in `Lifecycle`, since `Run` waits for it.
- Events and logging: they leave no state the program reads. (The recorder is given the
  pool's pointer, nothing more.)
- The YAML manifests; they were read to know that label and image are any strings and that the
  resource has no status subresource, so `Update` writes the whole object.
- Clock time: delays, the 3 second tick, the 5 second resync are steps that may happen at any moment.
- Namespaces: a key stands for a namespace and a name; the pool ignores namespaces, and so does the model.
- A label with more than one "=": the pool is keyed by the whole string, and `labelKey` and
  `labelValue` are never read.
- In the composed module `PodBuggerTool` a kill at any moment stands for the orderly end of the process.
- Pages of a list, several listeners of one informer (each kind has one here).

## 6. Plan

What a next step could be:

1. A run for the comment at `shared_informer.go:54-66`: a cache becomes consistent with the
   server, which is false of the code for a tool that a list overlooked.
2. The work queues of the two halves as instances of `KeyedWork`: the theorems about `QueueWorkers` are about a queue with
   handlers and workers of its own; those of the controller are proved about through `WorkqueueProofs` only.

The runs to keep small: everything with pods and two tools; one tool and one pod with two
events already reach 450,000 states when a kill is allowed as well.

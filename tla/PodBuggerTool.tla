--------------------------- MODULE PodBuggerTool ---------------------------
(***************************************************************************)
(* The whole controller: PbtController and, sharing its pool mapPbtool and *)
(* its process, the half that looks after pods: the pod informer with its  *)
(* handlers (enqueuePod, checkLabelPod), workqueuePods, and the workers    *)
(* that run handlePod and updatePod to put an ephemeral container into the *)
(* pods whose labels are in the pool.                                      *)
(*                                                                         *)
(* The three goroutine families touch mapPbtool without a lock.            *)
(***************************************************************************)
EXTENDS PbtController

CONSTANTS
    Pods,               \* keys "namespace/name" of pods
    PodLabelSets,       \* the sets of labels a pod may carry
    Nameable,           \* images that make "ephemeral-"+image a DNS label
    PodWorkers,         \* the goroutines of runWorkerPods
    NoPod,              \* no pod, no key, no entry, no scan
    MaxPolls,           \* readiness checks in PollImmediate(3s, 120s)
    PodEvents,          \* what may happen to pods, see PodChanges
    MaxPodEvents,       \* bound: such events
    MaxPodFaults,       \* bound: API calls about pods that fail
    MaxPodRelists,      \* bound: broken watches of pods
    PodPendingBound     \* bound: as PendingBound, for pods

VARIABLES
    (* the informer of pods *)
    podServer, podUnseen, podStore, podPending, podTold, podListing,
    (* the controller *)
    podScan,        \* labels checkLabelPod has yet to visit, or NoPod
    workqueuePods,
    podAt,          \* podAt[w]: where worker w is
    podKey,         \* podKey[w]: the key it works on
    podLeft,        \* podLeft[w]: labels of its snapshot not visited yet
    podPolls,       \* podPolls[w]: readiness checks made
    podEntry,       \* podEntry[w]: the pool entry updatePod found
    podRead,        \* podRead[w]: the rv GetEphemeralContainers returned
    (* the environment *)
    podVersion,     \* podVersion[p]: how often an object was written under p
    podSpent,       \* what has been used of the bounds
    (* history *)
    offered,        \* <<label, image>> of every tool the users have had
    worn            \* worn[p]: the labels pods with key p have had

Ephs == [by : {"ephemeral-", "user-"}, image : Images]
PodObjects == [labels : SUBSET Labels, ready : BOOLEAN, ephs : SUBSET Ephs, rv : Nat]
NewPods == [labels : PodLabelSets, ready : BOOLEAN, ephs : {{}}, rv : {0}]

ASSUME PodAssumption ==
    /\ PodLabelSets \subseteq SUBSET Labels
    /\ Nameable \subseteq Images
    /\ MaxPolls \in Nat \ {0}
    /\ NoPod \notin Pods /\ NoPod \notin PodObjects /\ NoPod \notin Entries

PodInformer == INSTANCE Informer WITH
    Keys <- Pods, Objects <- PodObjects, NoObject <- NoPod,
    server <- podServer, unseen <- podUnseen, store <- podStore,
    pending <- podPending, told <- podTold, listing <- podListing

PodQueue == INSTANCE Workqueue WITH Items <- Pods

podInformerVars == <<podServer, podUnseen, podStore, podPending, podTold, podListing>>
podWorkerVars == <<podAt, podKey, podLeft, podPolls, podEntry, podRead>>
podVars == <<podInformerVars, podScan, workqueuePods, podWorkerVars,
             podVersion, podSpent, worn>>
vars == <<pbtVars, podVars, offered>>

PodPhases == {"idle", "lookup", "poll", "fetch", "match", "getEc", "putEc",
              "returned", "finishing"}

Offers == {<<pbtServer[t].label, pbtServer[t].image>> :
               t \in {u \in Tools : pbtServer[u] # NoTool}}
WornNow(p) == IF podServer[p] = NoPod THEN {} ELSE podServer[p].labels

PodInit ==
    /\ podServer \in [Pods -> NewPods \cup {NoPod}]
    /\ PodInformer!Start
    /\ podScan = NoPod
    /\ workqueuePods = PodQueue!NewQueue
    /\ podAt = [w \in PodWorkers |-> "idle"]
    /\ podKey = [w \in PodWorkers |-> NoPod]
    /\ podLeft = [w \in PodWorkers |-> {}]
    /\ podPolls = [w \in PodWorkers |-> 0]
    /\ podEntry = [w \in PodWorkers |-> NoPod]
    /\ podRead = [w \in PodWorkers |-> 0]
    /\ podVersion = [p \in Pods |-> 0]
    /\ podSpent = [events |-> 0, faults |-> 0, relists |-> 0]
    /\ worn = [p \in Pods |-> WornNow(p)]

Init == PbtInit /\ PodInit /\ offered = Offers

(* What becomes of the pods' half when the process dies and restarts. *)
PodRestart ==
    /\ PodInformer!Restart
    /\ podScan' = NoPod
    /\ workqueuePods' = PodQueue!NewQueue
    /\ podAt' = [w \in PodWorkers |-> "idle"]
    /\ podKey' = [w \in PodWorkers |-> NoPod]
    /\ podLeft' = [w \in PodWorkers |-> {}]
    /\ podPolls' = [w \in PodWorkers |-> 0]
    /\ podEntry' = [w \in PodWorkers |-> NoPod]
    /\ podRead' = [w \in PodWorkers |-> 0]
    /\ UNCHANGED <<podVersion, podSpent, worn>>

PodSpend(what, limit) ==
    /\ podSpent[what] < limit
    /\ podSpent' = [podSpent EXCEPT ![what] = @ + 1]

-----------------------------------------------------------------------------
(* What happens to pods outside the controller *)

StorePod(p, o) ==
    /\ podVersion' = [podVersion EXCEPT ![p] = @ + 1]
    /\ PodInformer!ServerWrite(p, [o EXCEPT !.rv = podVersion[p] + 1])

(* The events and the states they lead pod p to. *)
PodChanges(p) ==
    IF podServer[p] = NoPod
    THEN [kind : {"created"}, pod : NewPods]
    ELSE LET o == podServer[p]
         IN    {[kind |-> "readiness", pod |-> [o EXCEPT !.ready = ~@]]}
          \cup {[kind |-> "relabelled", pod |-> [o EXCEPT !.labels = ls]] :
                    ls \in PodLabelSets \ {o.labels}}
          \cup {[kind |-> "debugged", pod |-> [o EXCEPT !.ephs = @ \cup {e}]] :
                    e \in [by : {"user-"}, image : Images] \ o.ephs}

PodChangesTo(p, change) ==
    /\ change.kind \in PodEvents
    /\ PodSpend("events", MaxPodEvents)
    /\ StorePod(p, change.pod)
    /\ worn' = [worn EXCEPT ![p] = @ \cup change.pod.labels]
    /\ UNCHANGED <<podScan, workqueuePods, podWorkerVars>>

PodIsDeleted(p) ==
    /\ "deleted" \in PodEvents
    /\ podServer[p] # NoPod
    /\ PodSpend("events", MaxPodEvents)
    /\ PodInformer!ServerWrite(p, NoPod)
    /\ UNCHANGED <<podScan, workqueuePods, podWorkerVars, podVersion, worn>>

PodEvent == \E p \in Pods :
    PodIsDeleted(p) \/ \E change \in PodChanges(p) : PodChangesTo(p, change)

-----------------------------------------------------------------------------
(* The event handlers of pods, on a goroutine of their own *)

PodNote == PodInformer!Note
PodNoteIs(kind) == PodInformer!NoteIs(kind)

(* Mutant of BeginScan: only AddFunc enqueues. *)
BeginScanOfAdded ==
    /\ podScan = NoPod
    /\ PodNoteIs("add") \/ PodNoteIs("update")
    /\ podScan' = IF PodNoteIs("add") THEN PodNote.new.labels ELSE {}
    /\ UNCHANGED <<podInformerVars, workqueuePods, podWorkerVars, podVersion, podSpent, worn>>

(* AddFunc and UpdateFunc: enqueuePod of the new pod; checkLabelPod visits *)
(* the labels in the order of a Go map, which is arbitrary.                *)
BeginScan ==
    /\ podScan = NoPod
    /\ PodNoteIs("add") \/ PodNoteIs("update")
    /\ podScan' = PodNote.new.labels
    /\ UNCHANGED <<podInformerVars, workqueuePods, podWorkerVars, podVersion, podSpent, worn>>

(* Mutant of MustAdd: it does not look at the pod's containers. *)
MustAddAnyway(pod, l) == mapPbtool[l] # NoTool

(* Is there a tool for label l, and not yet its image in the pod? *)
MustAdd(pod, l) ==
    /\ mapPbtool[l] # NoTool
    /\ \A e \in pod.ephs : Fold[e.image] # Fold[mapPbtool[l].image]

ScanLabel(l) ==
    /\ podScan # NoPod
    /\ l \in podScan
    /\ IF MustAdd(PodNote.new, l)
       THEN /\ workqueuePods' = PodQueue!Add(workqueuePods, PodNote.key)
            /\ podScan' = NoPod
            /\ PodInformer!Deliver
       ELSE /\ podScan' = podScan \ {l}
            /\ UNCHANGED <<workqueuePods, podInformerVars>>
    /\ UNCHANGED <<podWorkerVars, podVersion, podSpent, worn>>

EndScan ==
    /\ podScan = {}
    /\ podScan' = NoPod
    /\ PodInformer!Deliver
    /\ UNCHANGED <<workqueuePods, podWorkerVars, podVersion, podSpent, worn>>

(* DeleteFunc only asserts the type of its argument ... *)
ForgetPod ==
    /\ PodNoteIs("delete")
    /\ PodInformer!Deliver
    /\ UNCHANGED <<podScan, workqueuePods, podWorkerVars, podVersion, podSpent, worn>>

PodHandlers == BeginScan \/ (\E l \in Labels : ScanLabel(l)) \/ EndScan \/ ForgetPod

(* ... which fails for DeletedFinalStateUnknown. *)
PodTombstonePanics == PodNoteIs("tombstone")

-----------------------------------------------------------------------------
(* The workers: processNextWorkItemPod, handlePod, updatePod *)

Synced == PbtInformer!HasSynced /\ PodInformer!HasSynced

PodGoto(w, from, to) ==
    /\ podAt[w] = from
    /\ podAt' = [podAt EXCEPT ![w] = to]

TakePod(w) ==
    /\ Synced
    /\ PodQueue!CanGet(workqueuePods)
    /\ PodGoto(w, "idle", "lookup")
    /\ podKey' = [podKey EXCEPT ![w] = Head(workqueuePods.queue)]
    /\ workqueuePods' = PodQueue!Get(workqueuePods)
    /\ UNCHANGED <<podInformerVars, podScan, podLeft, podPolls, podEntry, podRead,
                   podVersion, podSpent, worn>>

(* c.podsLister...Get(name): the snapshot whose labels updatePod will use. *)
LookUpPod(w) ==
    LET pod == podStore[podKey[w]]
    IN /\ PodGoto(w, "lookup", IF pod = NoPod THEN "returned" ELSE "poll")
       /\ podLeft' = [podLeft EXCEPT ![w] = IF pod = NoPod THEN {} ELSE pod.labels]
       /\ UNCHANGED <<podInformerVars, podScan, workqueuePods, podKey, podPolls, podEntry,
                      podRead, podVersion, podSpent, worn>>

(* Steps of a worker that only read, or fail to: *)
OnlyMoves ==
    UNCHANGED <<podInformerVars, podScan, workqueuePods, podKey, podLeft, podEntry, podRead,
                podVersion, worn>>

(* A call about the worker's pod fails: the pod is gone, or something else *)
(* is wrong.  handlePod and updatePod log it and return nil.               *)
CallFails(w) ==
    \/ podServer[podKey[w]] = NoPod /\ UNCHANGED podSpent
    \/ PodSpend("faults", MaxPodFaults)

GivesUp(w) ==
    /\ \E at \in {"poll", "fetch", "getEc"} : PodGoto(w, at, "returned")
    /\ CallFails(w)
    /\ OnlyMoves /\ UNCHANGED podPolls

(* Of the conditions of a pod the model keeps whether it is ready. *)
IsPodReady(pod) == pod.ready

(* Mutant of Polls: without the timeout. *)
PollsForEver(w) ==
    /\ podAt[w] = "poll"
    /\ podServer[podKey[w]] # NoPod
    /\ PodGoto(w, "poll", IF IsPodReady(podServer[podKey[w]]) THEN "fetch" ELSE "poll")
    /\ OnlyMoves /\ UNCHANGED <<podPolls, podSpent>>

(* The condition of PollImmediate: at once, then at every tick, and a last *)
(* time when the timeout has passed.                                       *)
Polls(w) ==
    /\ podAt[w] = "poll"
    /\ podServer[podKey[w]] # NoPod
    /\ podPolls' = [podPolls EXCEPT ![w] = @ + 1]
    /\ IF IsPodReady(podServer[podKey[w]]) THEN PodGoto(w, "poll", "fetch")
       ELSE IF podPolls[w] + 1 = MaxPolls THEN PodGoto(w, "poll", "returned")
       ELSE PodGoto(w, "poll", "poll")
    /\ OnlyMoves /\ UNCHANGED podSpent

(* updatePod gets the pod anew, and uses nothing of it but its name. *)
FetchPod(w) ==
    /\ PodGoto(w, "fetch", "match")
    /\ podServer[podKey[w]] # NoPod
    /\ OnlyMoves /\ UNCHANGED <<podPolls, podSpent>>

(* Mutant of MatchLabel: the loop stops at its first label. *)
MatchFirstLabel(w, l) ==
    /\ PodGoto(w, "match", "getEc")
    /\ l \in podLeft[w]
    /\ podEntry' = [podEntry EXCEPT ![w] = mapPbtool[l]]
    /\ UNCHANGED <<podInformerVars, podScan, workqueuePods, podKey, podLeft, podPolls, podRead,
                   podVersion, podSpent, worn>>

(* updatePod's loop over the labels of the snapshot, in the order of a Go  *)
(* map; it stops at the first one in the pool.                             *)
MatchLabel(w, l) ==
    /\ podAt[w] = "match"
    /\ l \in podLeft[w]
    /\ IF mapPbtool[l] # NoTool
       THEN /\ PodGoto(w, "match", "getEc")
            /\ podEntry' = [podEntry EXCEPT ![w] = mapPbtool[l]]
            /\ UNCHANGED podLeft
       ELSE /\ podLeft' = [podLeft EXCEPT ![w] = @ \ {l}]
            /\ UNCHANGED <<podAt, podEntry>>
    /\ UNCHANGED <<podInformerVars, podScan, workqueuePods, podKey, podPolls, podRead,
                   podVersion, podSpent, worn>>

(* No label was: mapPodBuggerTool.podbuggertool is nil when it is read.    *)
NilPanics(w) == podAt[w] = "match" /\ podLeft[w] = {}

(* GetEphemeralContainers *)
ReadEphs(w) ==
    /\ PodGoto(w, "getEc", "putEc")
    /\ podServer[podKey[w]] # NoPod
    /\ podRead' = [podRead EXCEPT ![w] = podServer[podKey[w]].rv]
    /\ UNCHANGED <<podInformerVars, podScan, workqueuePods, podKey, podLeft, podPolls,
                   podEntry, podVersion, podSpent, worn>>

Injected(w) == [by |-> "ephemeral-", image |-> podEntry[w].image]

(* ec.EphemeralContainers = containers: the list that was read is replaced. *)
NewList(w) == {Injected(w)}

(* The API server takes the new list if nobody wrote the pod since it was  *)
(* read, no existing ephemeral container is missing from the list, and the *)
(* container's name is a DNS label.                                        *)
PutAccepted(w) ==
    LET pod == podServer[podKey[w]]
    IN /\ pod # NoPod
       /\ pod.rv = podRead[w]
       /\ pod.ephs \subseteq NewList(w)
       /\ podEntry[w].image \in Nameable

ApplyPut(w) ==
    LET p == podKey[w]
        o == [podServer[p] EXCEPT !.ephs = NewList(w)]
    IN IF o = podServer[p] THEN UNCHANGED <<podInformerVars, podVersion>> ELSE StorePod(p, o)

(* UpdateEphemeralContainers; whatever the answer, updatePod returns nil.  *)
PutEphs(w) ==
    /\ PodGoto(w, "putEc", "returned")
    /\ IF PutAccepted(w) THEN ApplyPut(w) ELSE UNCHANGED <<podInformerVars, podVersion>>
    /\ UNCHANGED <<podScan, workqueuePods, podKey, podLeft, podPolls, podEntry, podRead,
                   podSpent, worn>>

PutFails(w) ==
    /\ PodGoto(w, "putEc", "returned")
    /\ PodSpend("faults", MaxPodFaults)
    /\ OnlyMoves /\ UNCHANGED podPolls

(* handlePod returned nil: c.workqueuePods.Forget(obj) *)
SettlePod(w) ==
    /\ PodGoto(w, "returned", "finishing")
    /\ workqueuePods' = PodQueue!Forget(workqueuePods, podKey[w])
    /\ UNCHANGED <<podInformerVars, podScan, podKey, podLeft, podPolls, podEntry, podRead,
                   podVersion, podSpent, worn>>

(* defer c.workqueuePods.Done(obj) *)
FinishPod(w) ==
    /\ PodGoto(w, "finishing", "idle")
    /\ workqueuePods' = PodQueue!Done(workqueuePods, podKey[w])
    /\ podKey' = [podKey EXCEPT ![w] = NoPod]
    /\ podLeft' = [podLeft EXCEPT ![w] = {}]
    /\ podPolls' = [podPolls EXCEPT ![w] = 0]
    /\ podEntry' = [podEntry EXCEPT ![w] = NoPod]
    /\ podRead' = [podRead EXCEPT ![w] = 0]
    /\ UNCHANGED <<podInformerVars, podScan, podVersion, podSpent, worn>>

PodWorker(w) ==
    \/ TakePod(w) \/ LookUpPod(w) \/ GivesUp(w) \/ Polls(w) \/ FetchPod(w)
    \/ (\E l \in Labels : MatchLabel(w, l)) \/ ReadEphs(w) \/ PutEphs(w) \/ PutFails(w)
    \/ SettlePod(w) \/ FinishPod(w)

-----------------------------------------------------------------------------
(* The informer's own steps. *)
PodControllerVars == <<podScan, workqueuePods, podWorkerVars, podVersion, worn>>

ObservePod(p) == PodInformer!Observe(p) /\ UNCHANGED <<PodControllerVars, podSpent>>
ResyncPod(p) ==
    /\ Len(podPending) < PodPendingBound
    /\ PodInformer!Resync(p)
    /\ UNCHANGED <<PodControllerVars, podSpent>>

RelistPods ==
    /\ PodSpend("relists", MaxPodRelists) /\ Len(podPending) < PodPendingBound
    /\ PodInformer!Relist
    /\ UNCHANGED PodControllerVars

-----------------------------------------------------------------------------
(* The pool is a plain Go map; the handlers of Podbuggertools write it on  *)
(* one goroutine while those of pods and the pod workers read it on others.*)

PoolWriting ==
    \/ NoteIs("add") /\ CacheTargetLabel(mapPbtool, Note.key, Note.new) # mapPbtool
    \/ /\ NoteIs("update") /\ pbtHandler = "idle" /\ SpecChanged(Note.old, Note.new)
       /\ RemoveTargetLabel(mapPbtool, Note.old) # mapPbtool
    \/ /\ pbtHandler = "caching"
       /\ CacheTargetLabel(mapPbtool, Note.key, Note.new) # mapPbtool
    \/ NoteIs("delete") /\ RemoveTargetLabel(mapPbtool, Note.old) # mapPbtool

PoolReading ==
    \/ podScan # NoPod /\ podScan # {}
    \/ \E w \in PodWorkers : podAt[w] = "match" /\ podLeft[w] # {}

-----------------------------------------------------------------------------
(* One process *)

(* A panic in a handler or in a worker's goroutine kills the process:      *)
(* utilruntime.HandleCrash panics again.                                   *)
Panicking ==
    \/ NoteIs("tombstone")
    \/ PodTombstonePanics
    \/ \E w \in PodWorkers : NilPanics(w)

Panics == Panicking /\ PbtRestart /\ PodRestart /\ UNCHANGED <<spent, offered>>

(* The Go runtime stops a process in which it sees a map read and written  *)
(* at once; or the process is killed from outside.                         *)
Killed ==
    /\ Spend("crashes", MaxCrashes)
    /\ (PoolWriting /\ PoolReading) \/ "killed" \in PodEvents
    /\ PbtRestart /\ PodRestart /\ UNCHANGED offered

(* Run waits for the caches of both informers before it starts any worker. *)
ToolWorkersWait == Synced \/ \A w \in PbtWorkers : pbtAt'[w] = pbtAt[w]

PbtSide ==
    /\ PbtUser \/ RelistTools \/ PbtInside
    /\ ToolWorkersWait
    /\ UNCHANGED podVars
    /\ offered' = offered \cup Offers'

PodSide ==
    /\ \/ PodEvent \/ PodHandlers \/ RelistPods
       \/ \E w \in PodWorkers : PodWorker(w)
       \/ \E p \in Pods : ObservePod(p) \/ ResyncPod(p)
    /\ UNCHANGED <<pbtVars, offered>>

Next == PbtSide \/ PodSide \/ Panics \/ Killed

(* Goroutines are scheduled, calls return, and the resync timer of pods    *)
(* fires every 5 seconds (main.go).                                        *)
OnPbtSide(A) == UNCHANGED <<podVars, offered>> /\ A /\ ToolWorkersWait
OnPodSide(A) == UNCHANGED <<pbtVars, offered>> /\ A

Fairness ==
    /\ WF_vars(Panics)
    /\ WF_vars(OnPbtSide(PbtHandlers))
    /\ \A w \in PbtWorkers :
           WF_vars(OnPbtSide(PbtWorker(w))) /\ SF_vars(OnPbtSide(RetryTool(w)))
    /\ WF_vars(OnPbtSide(ReceiveDelayedTool))
    /\ \A t \in Tools : WF_vars(OnPbtSide(ExpireTool(t))) /\ WF_vars(OnPbtSide(ObserveTool(t)))
    /\ WF_vars(OnPodSide(PodHandlers))
    /\ \A w \in PodWorkers : WF_vars(OnPodSide(PodWorker(w)))
    /\ \A p \in Pods : WF_vars(OnPodSide(ObservePod(p))) /\ SF_vars(OnPodSide(ResyncPod(p)))

Spec == Init /\ [][Next]_vars /\ Fairness

-----------------------------------------------------------------------------
(* The types of the pods' half; a worker injects only what it found.       *)
PodTypeOK ==
    /\ PodInformer!InformerTypeOK
    /\ podScan \in (SUBSET Labels) \cup {NoPod}
    /\ workqueuePods \in PodQueue!Queues
    /\ podAt \in [PodWorkers -> PodPhases]
    /\ podKey \in [PodWorkers -> Pods \cup {NoPod}]
    /\ podLeft \in [PodWorkers -> SUBSET Labels]
    /\ podPolls \in [PodWorkers -> 0..MaxPolls]
    /\ podEntry \in [PodWorkers -> Entries \cup {NoPod}]
    /\ podRead \in [PodWorkers -> Nat]
    /\ \A w \in PodWorkers : podAt[w] \in {"getEc", "putEc"} => podEntry[w] # NoPod

(* Whatever was stale when updatePod acted on it, a container of the       *)
(* controller in a pod has the image of a tool that was at some time       *)
(* deployed for a label that some pod of this name carried.                *)
InjectedWasOffered ==
    \A p \in Pods :
        podServer[p] # NoPod =>
            \A e \in podServer[p].ephs :
                e.by = "ephemeral-" => \E l \in worn[p] : <<l, e.image>> \in offered

(* A pod that is ready and carries the label of a tool eventually has a    *)
(* container of the controller, whatever was missed, failed or forgotten   *)
(* in a restart on the way, because the resync brings the pod back.        *)
Wanting(p) ==
    /\ podServer[p] # NoPod
    /\ IsPodReady(podServer[p])
    /\ \A e \in podServer[p].ephs : e.by # "ephemeral-"
    /\ \E t \in Tools : /\ pbtServer[t] # NoTool
                        /\ pbtServer[t].label \in WellFormed \cap podServer[p].labels

EventuallyInjected == \A p \in Pods : []<>~Wanting(p)

(* When tools and pods are left alone, a pod that has the containers of    *)
(* its tools is left alone too: neither the update that brought them, as   *)
(* the pod informer tells of it, nor a resync queues the pod again.        *)
Served(p) ==
    /\ podServer[p] # NoPod
    /\ \A t \in Tools :
          pbtServer[t] # NoTool /\ pbtServer[t].label \in podServer[p].labels =>
              \E e \in podServer[p].ephs : Fold[e.image] = Fold[pbtServer[t].image]

ServedPodsRest ==
    \A p \in Pods :
        <>[](Served(p) => p \notin workqueuePods.dirty \cup workqueuePods.processing)

(* No worker is held for ever by a pod that does not become ready, goes    *)
(* away or is refused: the polling of handlePod ends.                      *)
WorkersReleased == \A w \in PodWorkers : []<>(podAt[w] = "idle")

(* controller.go: "Get the PodBuggerTool associated with the label         *)
(* (key=value) in this Pod": a worker that gets there finds one.           *)
UpdatePodFindsATool == \A w \in PodWorkers : ~NilPanics(w)

(* shared_informer.go, AddEventHandler: there is no coordination between   *)
(* different handlers; so what they share is not written by one while      *)
(* another reads it.                                                       *)
PoolNotRaced == ~(PoolWriting /\ PoolReading)
=============================================================================

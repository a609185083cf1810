--------------------------- MODULE PbtController ---------------------------
(***************************************************************************)
(* The half of the controller that looks after Podbuggertool resources     *)
(* (src/controller.go): the informer of Podbuggertools with its handlers,  *)
(* the pool mapPbtool of labels to look for, the workqueue, and the        *)
(* workers that run syncHandler.  The environment is the API server, the   *)
(* users who create, edit and delete tools, broken watches, failing calls  *)
(* and the death and restart of the process.                               *)
(***************************************************************************)
EXTENDS Integers, Sequences, Functions

CONSTANTS
    Tools,             \* keys "namespace/name" of Podbuggertools
    Labels,            \* values of Spec.Label
    Images,            \* values of Spec.Image
    WellFormed,        \* the labels that contain "="
    LabelsOf,          \* LabelsOf[t]: the labels users may give tool t
    Fold,              \* Fold[s]: s in the eyes of strings.EqualFold
    PbtWorkers,        \* the goroutines of runWorkerPodBuggerTool
    NoTool,            \* no object, no key, no entry
    ChannelCapacity,   \* see Workqueue
    PendingBound,      \* bound: no resync or relist beyond so many notifications
    MaxEdits,          \* bound: writes by users
    MaxFaults,         \* bound: API calls that fail although they could succeed
    MaxRelists,        \* bound: broken watches
    MaxCrashes         \* bound: deaths of the process

VARIABLES
    (* the informer of Podbuggertools *)
    pbtServer, pbtUnseen, pbtStore, pbtPending, pbtTold, pbtListing,
    (* the controller *)
    mapPbtool,     \* the pool: for each label its entry, or NoTool
    pbtHandler,    \* "caching" between the two halves of UpdateFunc
    workqueue,
    pbtAt,         \* pbtAt[w]: where worker w is
    pbtKey,        \* pbtKey[w]: the key it works on
    pbtCopy,       \* pbtCopy[w]: the object its lookup returned
    (* the environment *)
    version,       \* version[t]: how often an object was written under key t
    spent          \* what has been used of the bounds

ToolObjects == [label : Labels, image : Images, installed : BOOLEAN, rv : Nat]
NewTools == [label : Labels, image : Images, installed : {FALSE}, rv : {0}]
Entries == [name : Tools, image : Images]

ASSUME PbtAssumption ==
    /\ WellFormed \subseteq Labels
    /\ LabelsOf \in [Tools -> SUBSET Labels]
    /\ Labels \cup Images \subseteq DOMAIN Fold
    /\ NoTool \notin Tools /\ NoTool \notin ToolObjects /\ NoTool \notin Entries
    /\ ChannelCapacity \in Nat \ {0}

PbtInformer == INSTANCE Informer WITH
    Keys <- Tools, Objects <- ToolObjects, NoObject <- NoTool,
    server <- pbtServer, unseen <- pbtUnseen, store <- pbtStore,
    pending <- pbtPending, told <- pbtTold, listing <- pbtListing

Queue == INSTANCE Workqueue WITH Items <- Tools

pbtInformerVars == <<pbtServer, pbtUnseen, pbtStore, pbtPending, pbtTold, pbtListing>>
pbtWorkerVars == <<pbtAt, pbtKey, pbtCopy>>
pbtVars == <<pbtInformerVars, mapPbtool, pbtHandler, workqueue, pbtWorkerVars,
             version, spent>>

PbtPhases == {"idle", "lookup", "update", "failed", "succeeded", "finishing"}
EmptyPool == [l \in Labels |-> NoTool]

(* The memory of a process that has just started (NewController).          *)
PbtInit ==
    /\ pbtServer \in [Tools -> NewTools \cup {NoTool}]
    /\ \A t \in Tools : pbtServer[t] # NoTool => pbtServer[t].label \in LabelsOf[t]
    /\ PbtInformer!Start
    /\ mapPbtool = EmptyPool
    /\ pbtHandler = "idle"
    /\ workqueue = Queue!NewQueue
    /\ pbtAt = [w \in PbtWorkers |-> "idle"]
    /\ pbtKey = [w \in PbtWorkers |-> NoTool]
    /\ pbtCopy = [w \in PbtWorkers |-> NoTool]
    /\ version = [t \in Tools |-> 0]
    /\ spent = [edits |-> 0, faults |-> 0, relists |-> 0, crashes |-> 0]

(* The process dies (or a panic kills it: HandleCrash panics again) and a  *)
(* new one starts.                                                         *)
PbtRestart ==
    /\ PbtInformer!Restart
    /\ mapPbtool' = EmptyPool
    /\ pbtHandler' = "idle"
    /\ workqueue' = Queue!NewQueue
    /\ pbtAt' = [w \in PbtWorkers |-> "idle"]
    /\ pbtKey' = [w \in PbtWorkers |-> NoTool]
    /\ pbtCopy' = [w \in PbtWorkers |-> NoTool]
    /\ UNCHANGED version

Spend(what, limit) ==
    /\ spent[what] < limit
    /\ spent' = [spent EXCEPT ![what] = @ + 1]

-----------------------------------------------------------------------------
(* Users and the API server *)

(* The API server stores an object with a resourceVersion never used for   *)
(* this key before.                                                        *)
Store(t, o) ==
    /\ version' = [version EXCEPT ![t] = @ + 1]
    /\ PbtInformer!ServerWrite(t, [o EXCEPT !.rv = version[t] + 1])

UserCreates(t) ==
    /\ pbtServer[t] = NoTool
    /\ Spend("edits", MaxEdits)
    /\ \E o \in NewTools : o.label \in LabelsOf[t] /\ Store(t, o)
    /\ UNCHANGED <<mapPbtool, pbtHandler, workqueue, pbtWorkerVars>>

UserEdits(t) ==
    /\ pbtServer[t] # NoTool
    /\ Spend("edits", MaxEdits)
    /\ \E l \in LabelsOf[t], i \in Images :
           /\ <<l, i>> # <<pbtServer[t].label, pbtServer[t].image>>
           /\ Store(t, [pbtServer[t] EXCEPT !.label = l, !.image = i])
    /\ UNCHANGED <<mapPbtool, pbtHandler, workqueue, pbtWorkerVars>>

UserDeletes(t) ==
    /\ pbtServer[t] # NoTool
    /\ Spend("edits", MaxEdits)
    /\ PbtInformer!ServerWrite(t, NoTool)
    /\ UNCHANGED <<mapPbtool, pbtHandler, workqueue, pbtWorkerVars, version>>

-----------------------------------------------------------------------------
(* The event handlers of Podbuggertools; the informer calls them one at a  *)
(* time, on a goroutine of its own.                                        *)

RemoveTargetLabel(pool, pdt) ==
    IF pdt.label \in WellFormed THEN [pool EXCEPT ![pdt.label] = NoTool] ELSE pool

CacheTargetLabel(pool, name, pdt) ==
    IF pdt.label \in WellFormed /\ pool[pdt.label] = NoTool
    THEN [pool EXCEPT ![pdt.label] = [name |-> name, image |-> pdt.image]]
    ELSE pool

(* Mutants of SpecChanged: the labels are not compared; nothing is. *)
ImageChanged(old, new) == Fold[old.image] # Fold[new.image]
AnyUpdate(old, new) == TRUE

SpecChanged(old, new) ==
    Fold[old.label] # Fold[new.label] \/ Fold[old.image] # Fold[new.image]

Note == PbtInformer!Note
NoteIs(kind) == PbtInformer!NoteIs(kind)

(* enqueuePodbuggertool of the note's new object, the end of a handler. *)
EnqueuePodbuggertool ==
    /\ mapPbtool' = CacheTargetLabel(mapPbtool, Note.key, Note.new)
    /\ workqueue' = Queue!Add(workqueue, Note.key)
    /\ PbtInformer!Deliver

AddTool ==
    /\ NoteIs("add")
    /\ EnqueuePodbuggertool
    /\ UNCHANGED <<pbtHandler, pbtWorkerVars, version, spent>>

(* UpdateFunc of an update that EqualFold does not tell from the old one. *)
IgnoreUpdate ==
    /\ NoteIs("update")
    /\ ~SpecChanged(Note.old, Note.new)
    /\ PbtInformer!Deliver
    /\ UNCHANGED <<mapPbtool, pbtHandler, workqueue, pbtWorkerVars, version, spent>>

(* Mutant of UpdateRemoves: the new label is taken out, not the old one. *)
UpdateRemovesNew ==
    /\ NoteIs("update")
    /\ pbtHandler = "idle"
    /\ SpecChanged(Note.old, Note.new)
    /\ mapPbtool' = RemoveTargetLabel(mapPbtool, Note.new)
    /\ pbtHandler' = "caching"
    /\ UNCHANGED <<pbtInformerVars, workqueue, pbtWorkerVars, version, spent>>

(* UpdateFunc otherwise: the old label leaves the pool ... *)
UpdateRemoves ==
    /\ NoteIs("update")
    /\ pbtHandler = "idle"
    /\ SpecChanged(Note.old, Note.new)
    /\ mapPbtool' = RemoveTargetLabel(mapPbtool, Note.old)
    /\ pbtHandler' = "caching"
    /\ UNCHANGED <<pbtInformerVars, workqueue, pbtWorkerVars, version, spent>>

(* Mutant of UpdateCaches: the new tool is put in under its old label. *)
UpdateCachesOldLabel ==
    /\ pbtHandler = "caching"
    /\ mapPbtool' =
           CacheTargetLabel(mapPbtool, Note.key, [Note.new EXCEPT !.label = Note.old.label])
    /\ workqueue' = Queue!Add(workqueue, Note.key)
    /\ PbtInformer!Deliver
    /\ pbtHandler' = "idle"
    /\ UNCHANGED <<pbtWorkerVars, version, spent>>

(* ... then the new one is put in. *)
UpdateCaches ==
    /\ pbtHandler = "caching"
    /\ EnqueuePodbuggertool
    /\ pbtHandler' = "idle"
    /\ UNCHANGED <<pbtWorkerVars, version, spent>>

DeleteTool ==
    /\ NoteIs("delete")
    /\ mapPbtool' = RemoveTargetLabel(mapPbtool, Note.old)
    /\ PbtInformer!Deliver
    /\ UNCHANGED <<pbtHandler, workqueue, pbtWorkerVars, version, spent>>

(* DeleteFunc asserts that its argument is a *Podbuggertool; given a       *)
(* DeletedFinalStateUnknown it panics.                                     *)
TombstonePanics ==
    /\ NoteIs("tombstone")
    /\ PbtRestart
    /\ UNCHANGED spent

PbtHandlers == AddTool \/ IgnoreUpdate \/ UpdateRemoves \/ UpdateCaches \/ DeleteTool

-----------------------------------------------------------------------------
(* The workers: processNextWorkItemPodbuggertool, syncHandler *)

Goto(w, from, to) ==
    /\ pbtAt[w] = from
    /\ pbtAt' = [pbtAt EXCEPT ![w] = to]

(* Run starts the workers after WaitForCacheSync. *)
TakeTool(w) ==
    /\ PbtInformer!HasSynced
    /\ Queue!CanGet(workqueue)
    /\ Goto(w, "idle", "lookup")
    /\ pbtKey' = [pbtKey EXCEPT ![w] = Head(workqueue.queue)]
    /\ workqueue' = Queue!Get(workqueue)
    /\ UNCHANGED <<pbtInformerVars, mapPbtool, pbtHandler, pbtCopy, version, spent>>

(* Mutant of LookUpTool: no return when the lister has no such tool. *)
LookUpToolBlindly(w) ==
    /\ Goto(w, "lookup", "update")
    /\ pbtCopy' = [pbtCopy EXCEPT ![w] = pbtStore[pbtKey[w]]]
    /\ UNCHANGED <<pbtInformerVars, mapPbtool, pbtHandler, workqueue, pbtKey, version, spent>>

(* c.pbtLister...Get(name) *)
LookUpTool(w) ==
    /\ Goto(w, "lookup", IF pbtStore[pbtKey[w]] = NoTool THEN "succeeded" ELSE "update")
    /\ pbtCopy' = [pbtCopy EXCEPT ![w] = pbtStore[pbtKey[w]]]
    /\ UNCHANGED <<pbtInformerVars, mapPbtool, pbtHandler, workqueue, pbtKey, version, spent>>

(* The API server takes an Update of the whole object only if it carries   *)
(* the stored resourceVersion.                                             *)
UpdateAccepted(w) ==
    LET t == pbtKey[w]
    IN pbtServer[t] # NoTool /\ pbtServer[t].rv = pbtCopy[w].rv

(* It stores the copy with Installed = 1; an object that is equal to the   *)
(* stored one is not written again.                                        *)
ApplyUpdate(w) ==
    LET t == pbtKey[w]
        o == [pbtCopy[w] EXCEPT !.installed = TRUE]
    IN IF o = pbtServer[t] THEN UNCHANGED <<pbtInformerVars, version>> ELSE Store(t, o)

(* Mutant of UpdateSucceeds: the copy is written without its rv. *)
UpdateWithoutRv(w) ==
    /\ Goto(w, "update", "succeeded")
    /\ pbtServer[pbtKey[w]] # NoTool
    /\ ApplyUpdate(w)
    /\ UNCHANGED <<mapPbtool, pbtHandler, workqueue, pbtKey, pbtCopy, spent>>

(* updatePodbuggertoolStatus *)
UpdateSucceeds(w) ==
    /\ Goto(w, "update", "succeeded")
    /\ UpdateAccepted(w)
    /\ ApplyUpdate(w)
    /\ UNCHANGED <<mapPbtool, pbtHandler, workqueue, pbtKey, pbtCopy, spent>>

(* Not found, or a conflict. *)
UpdateRefused(w) ==
    /\ Goto(w, "update", "failed")
    /\ ~UpdateAccepted(w)
    /\ UNCHANGED <<pbtInformerVars, mapPbtool, pbtHandler, workqueue, pbtKey, pbtCopy,
                   version, spent>>

(* The call fails, before or after the server stored the object. *)
UpdateFaults(w) ==
    /\ Goto(w, "update", "failed")
    /\ Spend("faults", MaxFaults)
    /\ \/ UpdateAccepted(w) /\ ApplyUpdate(w)
       \/ UNCHANGED <<pbtInformerVars, version>>
    /\ UNCHANGED <<mapPbtool, pbtHandler, workqueue, pbtKey, pbtCopy>>

(* Mutant of RetryTool: an error is treated like a success. *)
RetryToolForgets(w) ==
    /\ Goto(w, "failed", "finishing")
    /\ workqueue' = Queue!Forget(workqueue, pbtKey[w])
    /\ UNCHANGED <<pbtInformerVars, mapPbtool, pbtHandler, pbtKey, pbtCopy, version, spent>>

(* err != nil: c.workqueue.AddRateLimited(key) *)
RetryTool(w) ==
    /\ Queue!CanAddRateLimited(workqueue)
    /\ Goto(w, "failed", "finishing")
    /\ workqueue' = Queue!AddRateLimited(workqueue, pbtKey[w])
    /\ UNCHANGED <<pbtInformerVars, mapPbtool, pbtHandler, pbtKey, pbtCopy, version, spent>>

(* err == nil: c.workqueue.Forget(obj) *)
SettleTool(w) ==
    /\ Goto(w, "succeeded", "finishing")
    /\ workqueue' = Queue!Forget(workqueue, pbtKey[w])
    /\ UNCHANGED <<pbtInformerVars, mapPbtool, pbtHandler, pbtKey, pbtCopy, version, spent>>

(* defer c.workqueue.Done(obj) *)
FinishTool(w) ==
    /\ Goto(w, "finishing", "idle")
    /\ workqueue' = Queue!Done(workqueue, pbtKey[w])
    /\ pbtKey' = [pbtKey EXCEPT ![w] = NoTool]
    /\ pbtCopy' = [pbtCopy EXCEPT ![w] = NoTool]
    /\ UNCHANGED <<pbtInformerVars, mapPbtool, pbtHandler, version, spent>>

PbtWorker(w) ==
    \/ TakeTool(w) \/ LookUpTool(w)
    \/ UpdateSucceeds(w) \/ UpdateRefused(w) \/ UpdateFaults(w)
    \/ RetryTool(w) \/ SettleTool(w) \/ FinishTool(w)

(* The waitingLoop goroutine of workqueue. *)
ReceiveDelayedTool ==
    /\ Queue!CanReceive(workqueue)
    /\ workqueue' \in Queue!Received(workqueue)
    /\ UNCHANGED <<pbtInformerVars, mapPbtool, pbtHandler, pbtWorkerVars, version, spent>>

ExpireTool(t) ==
    /\ Queue!CanFire(workqueue, t)
    /\ workqueue' = Queue!Fire(workqueue, t)
    /\ UNCHANGED <<pbtInformerVars, mapPbtool, pbtHandler, pbtWorkerVars, version, spent>>

-----------------------------------------------------------------------------
(* The informer's own steps. *)
PbtControllerVars == <<mapPbtool, pbtHandler, workqueue, pbtWorkerVars, version>>

ObserveTool(t) == PbtInformer!Observe(t) /\ UNCHANGED <<PbtControllerVars, spent>>
ResyncTool(t) ==
    /\ Len(pbtPending) < PendingBound
    /\ PbtInformer!Resync(t)
    /\ UNCHANGED <<PbtControllerVars, spent>>

RelistTools ==
    /\ Spend("relists", MaxRelists) /\ Len(pbtPending) < PendingBound
    /\ PbtInformer!Relist
    /\ UNCHANGED PbtControllerVars

Crash ==
    /\ Spend("crashes", MaxCrashes)
    /\ PbtRestart

PbtUser == \E t \in Tools : UserCreates(t) \/ UserEdits(t) \/ UserDeletes(t)

-----------------------------------------------------------------------------
(* This half of the controller on its own. *)

PbtInside ==
    \/ PbtHandlers
    \/ \E w \in PbtWorkers : PbtWorker(w)
    \/ ReceiveDelayedTool
    \/ \E t \in Tools : ExpireTool(t) \/ ObserveTool(t) \/ ResyncTool(t)

PbtDies == TombstonePanics \/ Crash

PbtNext == PbtUser \/ PbtInside \/ RelistTools \/ PbtDies

(* Goroutines are scheduled, calls return, delays end; see QueueWorkers.   *)
PbtFairness ==
    /\ WF_pbtVars(PbtHandlers \/ TombstonePanics)
    /\ \A w \in PbtWorkers : WF_pbtVars(PbtWorker(w)) /\ SF_pbtVars(RetryTool(w))
    /\ WF_pbtVars(ReceiveDelayedTool)
    /\ \A t \in Tools : WF_pbtVars(ExpireTool(t)) /\ WF_pbtVars(ObserveTool(t))

PbtSpec == PbtInit /\ [][PbtNext]_pbtVars /\ PbtFairness

-----------------------------------------------------------------------------
(* The types; syncHandler never updates through a nil object. *)
PbtTypeOK ==
    /\ PbtInformer!InformerTypeOK
    /\ mapPbtool \in [Labels -> Entries \cup {NoTool}]
    /\ pbtHandler \in {"idle", "caching"}
    /\ workqueue \in Queue!Queues
    /\ pbtAt \in [PbtWorkers -> PbtPhases]
    /\ pbtKey \in [PbtWorkers -> Tools \cup {NoTool}]
    /\ pbtCopy \in [PbtWorkers -> ToolObjects \cup {NoTool}]
    /\ \A w \in PbtWorkers : /\ pbtAt[w] # "idle" => pbtKey[w] # NoTool
                             /\ pbtAt[w] = "update" => pbtCopy[w] # NoTool
    /\ version \in [Tools -> Nat]
    /\ spent \in [edits : Nat, faults : Nat, relists : Nat, crashes : Nat]

(* checkLabelPod and updatePod look a label up in the pool to find "the    *)
(* PodBuggerTool deployed" for it: an entry stands for a tool the handlers *)
(* know to exist, with that label and (up to case) that image.             *)
PoolSound ==
    \A l \in Labels :
        mapPbtool[l] # NoTool =>
            LET known == pbtTold[mapPbtool[l].name]
            IN known # NoTool /\ known.label = l /\ Fold[known.image] = Fold[mapPbtool[l].image]

(* Conversely a tool the handlers know is looked for: its label has an     *)
(* entry, unless UpdateFunc is just replacing it.                          *)
PoolComplete ==
    \A t \in Tools :
        pbtTold[t] # NoTool /\ pbtTold[t].label \in WellFormed =>
            \/ mapPbtool[pbtTold[t].label] # NoTool
            \/ pbtHandler = "caching" /\ Note.key = t

(* syncHandler writes the whole object from a copy that may be stale:      *)
(* still, only users change the label or the image of a tool, and a tool   *)
(* that was deleted does not come back.                                    *)
OnlyUsersChangeTools ==
    [][\A t \in Tools :
          pbtServer'[t] # NoTool /\ spent'.edits = spent.edits =>
              /\ pbtServer[t] # NoTool
              /\ pbtServer'[t].label = pbtServer[t].label
              /\ pbtServer'[t].image = pbtServer[t].image]_pbtVars

(* Every tool that stays gets its Installed = 1, through conflicts,        *)
(* failing calls and restarts.                                             *)
ToolsGetInstalled ==
    \A t \in Tools :
        []<>(pbtServer[t] = NoTool \/ pbtServer[t].installed)

(* Once users leave the tools alone the workers come to rest: the status   *)
(* write of syncHandler does not set off another sync of the same tool.    *)
ComesToRest ==
    <>[](workqueue.dirty = {} /\ workqueue.processing = {} /\ Queue!Delayed(workqueue) = {})

=============================================================================

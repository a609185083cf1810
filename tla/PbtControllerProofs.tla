------------------------- MODULE PbtControllerProofs -------------------------
(***************************************************************************)
(* Theorems about the half of the controller that looks after              *)
(* Podbuggertools, for any tools, labels, images and workers, and without  *)
(* the bounds on edits, faults, broken watches and crashes.                *)
(***************************************************************************)
EXTENDS PbtController, TLAPS

I == INSTANCE InformerProofs WITH
    Keys <- Tools, Objects <- ToolObjects, NoObject <- NoTool,
    server <- pbtServer, unseen <- pbtUnseen, store <- pbtStore,
    pending <- pbtPending, told <- pbtTold, listing <- pbtListing

W == INSTANCE WorkqueueProofs WITH Items <- Tools

-----------------------------------------------------------------------------
(* The informer and the queue that the proofs above speak of are those of  *)
(* the controller.                                                         *)
LEMMA SameInformer ==
    /\ PbtInformer!InformerTypeOK <=> I!InformerTypeOK
    /\ PbtInformer!Start <=> I!Start
    /\ PbtInformer!Restart <=> I!Restart
    /\ PbtInformer!Relist <=> I!Relist
    /\ PbtInformer!Deliver <=> I!Deliver
    /\ Note = I!Note
    /\ \A t \in Tools : /\ PbtInformer!Observe(t) <=> I!Observe(t)
                        /\ PbtInformer!Resync(t) <=> I!Resync(t)
BY DEF PbtInformer!InformerTypeOK, I!InformerTypeOK, PbtInformer!Start, I!Start,
       PbtInformer!Restart, I!Restart, PbtInformer!Relist, I!Relist,
       PbtInformer!Deliver, I!Deliver, Note, PbtInformer!Note, I!Note,
       PbtInformer!Observe, I!Observe, PbtInformer!Resync, I!Resync,
       PbtInformer!State, I!State, PbtInformer!Notes, I!Notes,
       PbtInformer!Nothing, I!Nothing, PbtInformer!Existing, I!Existing,
       PbtInformer!Listed, I!Listed, PbtInformer!Relisted, I!Relisted,
       PbtInformer!MayHaveReached, I!MayHaveReached, PbtInformer!Deletion, I!Deletion

LEMMA SameServerWrite ==
    ASSUME NEW t \in Tools, NEW o
    PROVE  PbtInformer!ServerWrite(t, o) <=> I!ServerWrite(t, o)
BY DEF PbtInformer!ServerWrite, I!ServerWrite

(* The methods of the queue keep it well typed. *)
LEMMA QueueMethods ==
    ASSUME workqueue \in Queue!Queues
    PROVE  /\ \A t \in Tools :
                 /\ Queue!Add(workqueue, t) \in Queue!Queues
                 /\ Queue!AddRateLimited(workqueue, t) \in Queue!Queues
                 /\ Queue!Forget(workqueue, t) \in Queue!Queues
                 /\ Queue!Done(workqueue, t) \in Queue!Queues
                 /\ Queue!Fire(workqueue, t) \in Queue!Queues
           /\ Queue!CanGet(workqueue) =>
                 Head(workqueue.queue) \in Tools /\ Queue!Get(workqueue) \in Queue!Queues
           /\ Queue!CanReceive(workqueue) => Queue!Received(workqueue) \subseteq Queue!Queues
<1>1. \A q : /\ Queue!CanGet(q) <=> W!CanGet(q)
             /\ Queue!Get(q) = W!Get(q)
             /\ Queue!CanReceive(q) <=> W!CanReceive(q)
  BY DEF Queue!CanGet, W!CanGet, Queue!Get, W!Get, Queue!CanReceive, W!CanReceive
<1>2. \A q, t : Queue!Add(q, t) = W!Add(q, t)
  BY DEF Queue!Add, W!Add
<1>3. \A q, t : /\ Queue!AddRateLimited(q, t) = W!AddRateLimited(q, t)
                /\ Queue!Forget(q, t) = W!Forget(q, t)
                /\ Queue!Done(q, t) = W!Done(q, t)
                /\ Queue!Fire(q, t) = W!Fire(q, t)
  BY <1>2 DEF Queue!AddRateLimited, W!AddRateLimited, Queue!Forget, W!Forget,
              Queue!Done, W!Done, Queue!Fire, W!Fire
<1>4. \A q : Queue!Received(q) = W!Received(q)
  BY <1>2 DEF Queue!Received, W!Received, Queue!ReceiveAndWait, W!ReceiveAndWait,
              Queue!ReceiveAndAdd, W!ReceiveAndAdd
<1>5. Queue!Queues = W!Queues
  BY DEF Queue!Queues, W!Queues
<1>6. workqueue \in W!Queues
  BY <1>5
<1>7. \A t \in Tools : Queue!Add(workqueue, t) \in Queue!Queues
  <2>1. \A t \in Tools : W!Add(workqueue, t) \in W!Queues
    BY <1>6, W!AddTyped, PbtAssumption
  <2> QED BY <2>1, <1>2, <1>5
<1>8. \A t \in Tools :
          /\ Queue!AddRateLimited(workqueue, t) \in Queue!Queues
          /\ Queue!Forget(workqueue, t) \in Queue!Queues
          /\ Queue!Done(workqueue, t) \in Queue!Queues
          /\ Queue!Fire(workqueue, t) \in Queue!Queues
  <2>1. \A t \in Tools :
            /\ W!AddRateLimited(workqueue, t) \in W!Queues
            /\ W!Forget(workqueue, t) \in W!Queues
            /\ W!Done(workqueue, t) \in W!Queues
            /\ W!Fire(workqueue, t) \in W!Queues
    BY <1>6, W!MethodsTyped, PbtAssumption
  <2> QED BY <2>1, <1>3, <1>5
<1>9. Queue!CanGet(workqueue) =>
          Head(workqueue.queue) \in Tools /\ Queue!Get(workqueue) \in Queue!Queues
  <2>1. W!CanGet(workqueue) => Head(workqueue.queue) \in Tools /\ W!Get(workqueue) \in W!Queues
    BY <1>6, W!GetTyped, PbtAssumption
  <2> QED BY <2>1, <1>1, <1>5
<1>10. Queue!CanReceive(workqueue) => Queue!Received(workqueue) \subseteq Queue!Queues
  <2>1. W!CanReceive(workqueue) => W!Received(workqueue) \subseteq W!Queues
    BY <1>6, W!ReceivedTyped, PbtAssumption
  <2> QED BY <2>1, <1>1, <1>4, <1>5
<1> QED BY <1>7, <1>8, <1>9, <1>10

LEMMA QueueStartsTyped == Queue!NewQueue \in Queue!Queues
BY DEF Queue!NewQueue, Queue!Queues

-----------------------------------------------------------------------------
(* The invariant behind the types: those of the informer with its chain of *)
(* notifications, those of the controller, and that UpdateFunc, between    *)
(* its two halves, still has its notification before it.                   *)
ControllerTypeOK ==
    /\ mapPbtool \in [Labels -> Entries \cup {NoTool}]
    /\ pbtHandler \in {"idle", "caching"}
    /\ workqueue \in Queue!Queues
    /\ pbtAt \in [PbtWorkers -> PbtPhases]
    /\ pbtKey \in [PbtWorkers -> Tools \cup {NoTool}]
    /\ pbtCopy \in [PbtWorkers -> ToolObjects \cup {NoTool}]
    /\ \A w \in PbtWorkers : /\ pbtAt[w] # "idle" => pbtKey[w] # NoTool
                             /\ pbtAt[w] = "update" => pbtCopy[w] # NoTool
    /\ version \in [Tools -> Nat]
    /\ spent \in [edits : Nat, faults : Nat, relists : Nat, crashes : Nat]

InformerOK ==
    /\ I!InformerTypeOK /\ I!Chain
    /\ I!UnseenLeadsToServer /\ I!Alternates /\ I!NotesMakeSense /\ I!TombstonesDelete

HandlerOK ==
    pbtHandler = "caching" => NoteIs("update") /\ SpecChanged(Note.old, Note.new)

PbtInv == InformerOK /\ ControllerTypeOK /\ HandlerOK

(* What the kinds of notifications are, and what the oldest one holds: all *)
(* but a tombstone say what the handlers were told before.                 *)
LEMMA NoteKinds ==
    ASSUME InformerOK, pbtPending # <<>>
    PROVE  /\ Note.key \in Tools
           /\ Note.old \in ToolObjects \cup {NoTool} /\ Note.new \in ToolObjects \cup {NoTool}
           /\ NoteIs("add") \/ NoteIs("update") \/ NoteIs("delete") => Note.old = pbtTold[Note.key]
           /\ NoteIs("add") => Note.old = NoTool /\ Note.new # NoTool
           /\ NoteIs("update") => Note.old # NoTool /\ Note.new # NoTool
           /\ NoteIs("delete") => Note.old # NoTool /\ Note.new = NoTool
           /\ NoteIs("tombstone") => Note.new = NoTool
<1>1. /\ I!Note \in I!Notes
      /\ I!Note.new # NoTool => ~I!Note.tombstone
      /\ ~I!Note.tombstone => I!Note.old = pbtTold[I!Note.key]
      /\ I!Note.new = NoTool => pbtTold[I!Note.key] # NoTool
  BY I!NoteTells, PbtAssumption DEF InformerOK
<1>2. /\ Note.key \in Tools
      /\ Note.old \in ToolObjects \cup {NoTool} /\ Note.new \in ToolObjects \cup {NoTool}
      /\ Note.tombstone \in BOOLEAN
      /\ Note.new # NoTool => ~Note.tombstone
      /\ ~Note.tombstone => Note.old = pbtTold[Note.key]
      /\ Note.new = NoTool => pbtTold[Note.key] # NoTool
  BY <1>1, SameInformer DEF I!Notes, I!State
<1>3. \A kind : NoteIs(kind) <=>
          kind = IF Note.new = NoTool THEN (IF Note.tombstone THEN "tombstone" ELSE "delete")
                 ELSE IF Note.old = NoTool THEN "add" ELSE "update"
  BY DEF NoteIs, PbtInformer!NoteIs, Note
<1>4. CASE Note.new = NoTool
  BY <1>2, <1>3, <1>4
<1>5. CASE Note.new # NoTool
  BY <1>2, <1>3, <1>5
<1> QED BY <1>4, <1>5

-----------------------------------------------------------------------------
(* In the whole process the other half can panic too; that is the end of   *)
(* this one.  What is proved of PbtStep holds of both.                     *)
Dying == PbtDies \/ (PbtRestart /\ UNCHANGED spent)

PbtStep == PbtNext \/ Dying

(* What a step does to the informer: a step of its own, a write of a user, *)
(* or the write of a worker, whose label and image are those of its copy.  *)
Stored(t, o) ==
    /\ I!ServerWrite(t, o)
    /\ o \in ToolObjects /\ o.rv = version[t] + 1
    /\ version' = [version EXCEPT ![t] = @ + 1]

Quiet == I!InformerStep /\ UNCHANGED version

UserWrites(t, o) ==
    /\ spent'.edits # spent.edits
    /\ \/ Stored(t, o) /\ o.label \in LabelsOf[t]
       \/ I!ServerWrite(t, o) /\ o = NoTool /\ UNCHANGED version

WorkerWrites(w, o) ==
    /\ pbtAt[w] = "update" /\ UpdateAccepted(w)
    /\ Stored(pbtKey[w], o)
    /\ o.label = pbtCopy[w].label /\ o.image = pbtCopy[w].image

LEMMA StoreStores ==
    ASSUME version \in [Tools -> Nat], NEW t \in Tools, NEW o \in ToolObjects, Store(t, o)
    PROVE  LET stored == [o EXCEPT !.rv = version[t] + 1]
           IN Stored(t, stored) /\ stored.label = o.label /\ stored.image = o.image
<1> DEFINE stored == [o EXCEPT !.rv = version[t] + 1]
<1>1. /\ stored \in ToolObjects /\ stored.rv = version[t] + 1
      /\ stored.label = o.label /\ stored.image = o.image
  BY DEF ToolObjects
<1>2. PbtInformer!ServerWrite(t, stored) /\ version' = [version EXCEPT ![t] = @ + 1]
  BY DEF Store
<1> HIDE DEF stored
<1>3. Stored(t, stored)
  BY <1>1, <1>2, SameServerWrite DEF Stored
<1> QED BY <1>1, <1>3 DEF stored

LEMMA NewToolsAreTools == NewTools \subseteq ToolObjects
<1> SUFFICES ASSUME NEW o \in NewTools PROVE o \in ToolObjects
  OBVIOUS
<1>1. PICK l \in Labels, i \in Images :
          o = [label |-> l, image |-> i, installed |-> FALSE, rv |-> 0]
  BY DEF NewTools
<1> QED BY <1>1 DEF ToolObjects

LEMMA UserMoves ==
    ASSUME PbtInv, NEW t \in Tools, UserCreates(t) \/ UserEdits(t) \/ UserDeletes(t)
    PROVE  \E o \in I!State : UserWrites(t, o)
<1>1. /\ version \in [Tools -> Nat] /\ spent.edits \in Nat
      /\ pbtServer[t] \in ToolObjects \cup {NoTool} /\ LabelsOf[t] \subseteq Labels
  BY PbtAssumption DEF PbtInv, ControllerTypeOK, InformerOK, I!InformerTypeOK, I!State
<1>2. spent'.edits # spent.edits
  <2>1. spent' = [spent EXCEPT !.edits = @ + 1]
    BY DEF UserCreates, UserEdits, UserDeletes, Spend
  <2>2. spent \in [edits : Nat, faults : Nat, relists : Nat, crashes : Nat]
    BY DEF PbtInv, ControllerTypeOK
  <2>3. spent'.edits = spent.edits + 1
    BY <2>1, <2>2
  <2> QED BY <2>3, <1>1
<1>3. ASSUME NEW o \in ToolObjects, o.label \in LabelsOf[t], Store(t, o)
      PROVE  \E stored \in I!State : UserWrites(t, stored)
  <2> DEFINE stored == [o EXCEPT !.rv = version[t] + 1]
  <2>1. Stored(t, stored) /\ stored.label = o.label
    BY <1>1, <1>3, StoreStores
  <2> HIDE DEF stored
  <2>2. UserWrites(t, stored) /\ stored \in I!State
    BY <2>1, <1>2, <1>3 DEF UserWrites, Stored, I!State
  <2> QED BY <2>2
<1>4. CASE UserCreates(t)
  BY <1>3, <1>4, NewToolsAreTools DEF UserCreates
<1>5. CASE UserEdits(t)
  <2>1. PICK l \in LabelsOf[t], i \in Images :
            Store(t, [pbtServer[t] EXCEPT !.label = l, !.image = i])
    BY <1>5 DEF UserEdits
  <2>2. /\ [pbtServer[t] EXCEPT !.label = l, !.image = i] \in ToolObjects
        /\ [pbtServer[t] EXCEPT !.label = l, !.image = i].label \in LabelsOf[t]
    BY <1>1, <1>5 DEF UserEdits, ToolObjects
  <2> QED BY <1>3, <2>1, <2>2
<1>6. CASE UserDeletes(t)
  <2>1. I!ServerWrite(t, NoTool) /\ UNCHANGED version
    BY <1>6, SameServerWrite DEF UserDeletes
  <2> QED BY <1>2, <2>1 DEF UserWrites, I!State
<1> QED BY <1>4, <1>5, <1>6

LEMMA ApplyMoves ==
    ASSUME PbtInv, NEW w \in PbtWorkers, pbtAt[w] = "update", UpdateAccepted(w),
           ApplyUpdate(w)
    PROVE  Quiet \/ \E o \in I!State : WorkerWrites(w, o)
<1> DEFINE o == [pbtCopy[w] EXCEPT !.installed = TRUE]
<1>1. /\ pbtKey[w] \in Tools /\ pbtCopy[w] \in ToolObjects
      /\ version \in [Tools -> Nat]
  BY DEF PbtInv, ControllerTypeOK
<1>2. o \in ToolObjects /\ o.label = pbtCopy[w].label /\ o.image = pbtCopy[w].image
  BY <1>1 DEF ToolObjects
<1>3. (UNCHANGED <<pbtInformerVars, version>>) \/ Store(pbtKey[w], o)
  BY DEF ApplyUpdate
<1> HIDE DEF o
<1>4. CASE UNCHANGED <<pbtInformerVars, version>>
  BY <1>4 DEF Quiet, I!InformerStep, I!informerVars, pbtInformerVars
<1>5. CASE Store(pbtKey[w], o)
  <2> DEFINE stored == [o EXCEPT !.rv = version[pbtKey[w]] + 1]
  <2>1. Stored(pbtKey[w], stored) /\ stored.label = o.label /\ stored.image = o.image
    BY <1>1, <1>2, <1>5, StoreStores
  <2> HIDE DEF stored
  <2>2. WorkerWrites(w, stored) /\ stored \in I!State
    BY <2>1, <1>2 DEF WorkerWrites, Stored, I!State
  <2> QED BY <2>2
<1> QED BY <1>3, <1>4, <1>5

LEMMA Moves ==
    ASSUME PbtInv, [PbtStep]_pbtVars
    PROVE  \/ Quiet
           \/ \E t \in Tools, o \in I!State : UserWrites(t, o)
           \/ \E w \in PbtWorkers, o \in I!State : WorkerWrites(w, o)
<1>1. ASSUME UNCHANGED <<pbtInformerVars, version>> PROVE Quiet
  BY <1>1 DEF Quiet, I!InformerStep, I!informerVars, pbtInformerVars
<1>2. CASE PbtUser
  BY <1>2, UserMoves DEF PbtUser
<1>3. CASE PbtHandlers
  BY <1>1, <1>3, SameInformer
  DEF PbtHandlers, AddTool, IgnoreUpdate, UpdateRemoves, UpdateCaches, DeleteTool,
      EnqueuePodbuggertool, Quiet, I!InformerStep, pbtInformerVars
<1>4. ASSUME NEW w \in PbtWorkers, PbtWorker(w)
      PROVE  Quiet \/ \E o \in I!State : WorkerWrites(w, o)
  <2>1. CASE UpdateSucceeds(w)
    BY <1>4, <2>1, ApplyMoves DEF UpdateSucceeds, Goto
  <2>2. CASE UpdateFaults(w)
    BY <1>1, <1>4, <2>2, ApplyMoves DEF UpdateFaults, Goto
  <2>3. CASE TakeTool(w) \/ LookUpTool(w) \/ UpdateRefused(w)
    BY <1>1, <2>3 DEF TakeTool, LookUpTool, UpdateRefused, pbtInformerVars
  <2>4. CASE RetryTool(w) \/ SettleTool(w) \/ FinishTool(w)
    BY <1>1, <2>4 DEF RetryTool, SettleTool, FinishTool, pbtInformerVars
  <2> QED BY <1>4, <2>1, <2>2, <2>3, <2>4 DEF PbtWorker
<1>5. CASE ReceiveDelayedTool
  BY <1>1, <1>5 DEF ReceiveDelayedTool, pbtInformerVars
<1>6. ASSUME NEW t \in Tools, ExpireTool(t) \/ ObserveTool(t) \/ ResyncTool(t)
      PROVE  Quiet
  BY <1>1, <1>6, SameInformer
  DEF ExpireTool, ObserveTool, ResyncTool, PbtControllerVars, Quiet, I!InformerStep,
      pbtInformerVars
<1>7. CASE RelistTools \/ Dying
  BY <1>7, SameInformer
  DEF RelistTools, Dying, PbtDies, TombstonePanics, Crash, PbtRestart, PbtControllerVars,
      Quiet, I!InformerStep
<1>8. CASE UNCHANGED pbtVars
  BY <1>1, <1>8 DEF pbtVars
<1> QED
  BY <1>2, <1>3, <1>4, <1>5, <1>6, <1>7, <1>8 DEF PbtStep, PbtNext, PbtInside, Dying

-----------------------------------------------------------------------------
(* The invariant is inductive. *)
LEMMA InformerNextOK ==
    ASSUME PbtInv, [PbtStep]_pbtVars
    PROVE  InformerOK'
<1>1. [I!InformerNext]_(I!informerVars)
  BY Moves
  DEF Quiet, UserWrites, WorkerWrites, Stored, PbtInv, ControllerTypeOK, I!InformerNext,
      I!InformerStep
<1>2. /\ I!InformerInv /\ I!InformerTypeOK /\ I!UnseenLeadsToServer
      /\ I!Alternates /\ I!NotesMakeSense /\ I!TombstonesDelete /\ I!Chain
  BY DEF PbtInv, InformerOK, I!InformerInv
<1>3. I!InformerInv'
  BY <1>1, <1>2, I!InformerInvNext, PbtAssumption
<1>4. I!UnseenLeadsToServer' /\ I!Alternates' /\ I!NotesMakeSense'
  BY <1>1, <1>2, I!ReachedNext, I!AlternatesNext, I!NotesMakeSenseNext, PbtAssumption
<1>5. I!TombstonesDelete'
  BY <1>1, <1>2, I!TombstonesNext, PbtAssumption
<1> QED BY <1>3, <1>4, <1>5 DEF InformerOK, I!InformerInv

LEMMA PoolsTyped ==
    ASSUME mapPbtool \in [Labels -> Entries \cup {NoTool}],
           NEW t \in Tools, NEW o \in ToolObjects
    PROVE  /\ CacheTargetLabel(mapPbtool, t, o) \in [Labels -> Entries \cup {NoTool}]
           /\ RemoveTargetLabel(mapPbtool, o) \in [Labels -> Entries \cup {NoTool}]
<1>1. [name |-> t, image |-> o.image] \in Entries
  BY DEF Entries, ToolObjects
<1> QED BY <1>1 DEF CacheTargetLabel, RemoveTargetLabel

LEMMA HandlersTyped ==
    ASSUME PbtInv, PbtHandlers
    PROVE  ControllerTypeOK'
<1>1. /\ mapPbtool \in [Labels -> Entries \cup {NoTool}]
      /\ workqueue \in Queue!Queues
  BY DEF PbtInv, ControllerTypeOK
<1>2. pbtPending # <<>> /\ UNCHANGED <<pbtWorkerVars, version, spent>>
  BY DEF PbtHandlers, AddTool, IgnoreUpdate, UpdateRemoves, UpdateCaches, DeleteTool, NoteIs,
         PbtInformer!NoteIs, PbtInv, HandlerOK
<1>3. /\ Note.key \in Tools
      /\ NoteIs("add") \/ NoteIs("update") => Note.new \in ToolObjects
      /\ NoteIs("update") \/ NoteIs("delete") => Note.old \in ToolObjects
  BY <1>2, NoteKinds DEF PbtInv
<1>4. mapPbtool' \in [Labels -> Entries \cup {NoTool}]
  BY <1>1, <1>3, PoolsTyped
  DEF PbtHandlers, AddTool, IgnoreUpdate, UpdateRemoves, UpdateCaches, DeleteTool,
      EnqueuePodbuggertool, PbtInv, HandlerOK
<1>5. workqueue' \in Queue!Queues
  BY <1>1, <1>3, QueueMethods
  DEF PbtHandlers, AddTool, IgnoreUpdate, UpdateRemoves, UpdateCaches, DeleteTool,
      EnqueuePodbuggertool
<1>6. pbtHandler' \in {"idle", "caching"}
  BY DEF PbtHandlers, AddTool, IgnoreUpdate, UpdateRemoves, UpdateCaches, DeleteTool, PbtInv,
         ControllerTypeOK
<1> QED BY <1>2, <1>4, <1>5, <1>6 DEF PbtInv, ControllerTypeOK, pbtWorkerVars

LEMMA WorkersTyped ==
    ASSUME PbtInv, NEW w \in PbtWorkers, PbtWorker(w)
    PROVE  /\ pbtAt' \in [PbtWorkers -> PbtPhases]
           /\ pbtKey' \in [PbtWorkers -> Tools \cup {NoTool}]
           /\ pbtCopy' \in [PbtWorkers -> ToolObjects \cup {NoTool}]
           /\ \A v \in PbtWorkers : /\ pbtAt'[v] # "idle" => pbtKey'[v] # NoTool
                                    /\ pbtAt'[v] = "update" => pbtCopy'[v] # NoTool
           /\ workqueue' \in Queue!Queues
           /\ UNCHANGED <<mapPbtool, pbtHandler>>
<1>1. /\ pbtAt \in [PbtWorkers -> PbtPhases]
      /\ pbtKey \in [PbtWorkers -> Tools \cup {NoTool}]
      /\ pbtCopy \in [PbtWorkers -> ToolObjects \cup {NoTool}]
      /\ \A v \in PbtWorkers : /\ pbtAt[v] # "idle" => pbtKey[v] # NoTool
                               /\ pbtAt[v] = "update" => pbtCopy[v] # NoTool
      /\ workqueue \in Queue!Queues
      /\ pbtStore \in [Tools -> ToolObjects \cup {NoTool}]
  BY DEF PbtInv, ControllerTypeOK, InformerOK, I!InformerTypeOK, I!State
<1>2. CASE TakeTool(w)
  <2>1. Head(workqueue.queue) \in Tools /\ workqueue' \in Queue!Queues
    BY <1>1, <1>2, QueueMethods DEF TakeTool
  <2> QED
    BY <1>1, <1>2, <2>1, PbtAssumption DEF TakeTool, Goto, PbtPhases
<1>3. CASE LookUpTool(w)
  <2>1. pbtStore[pbtKey[w]] \in ToolObjects \cup {NoTool}
    BY <1>1, <1>3 DEF LookUpTool, Goto
  <2> QED BY <1>1, <1>3, <2>1 DEF LookUpTool, Goto, PbtPhases
<1>4. CASE UpdateSucceeds(w) \/ UpdateRefused(w) \/ UpdateFaults(w)
  BY <1>1, <1>4 DEF UpdateSucceeds, UpdateRefused, UpdateFaults, Goto, PbtPhases
<1>5. CASE RetryTool(w) \/ SettleTool(w) \/ FinishTool(w)
  <2>1. pbtKey[w] \in Tools
    BY <1>1, <1>5 DEF RetryTool, SettleTool, FinishTool, Goto
  <2>2. workqueue' \in Queue!Queues
    BY <1>1, <1>5, <2>1, QueueMethods DEF RetryTool, SettleTool, FinishTool
  <2> QED
    BY <1>1, <1>5, <2>2 DEF RetryTool, SettleTool, FinishTool, Goto, PbtPhases
<1> QED BY <1>2, <1>3, <1>4, <1>5 DEF PbtWorker

LEMMA VersionTyped ==
    ASSUME PbtInv, [PbtStep]_pbtVars
    PROVE  version' \in [Tools -> Nat]
<1>1. version \in [Tools -> Nat]
  BY DEF PbtInv, ControllerTypeOK
<1> QED BY <1>1, Moves DEF Quiet, UserWrites, WorkerWrites, Stored

LEMMA SpentTyped ==
    ASSUME PbtInv, [PbtStep]_pbtVars
    PROVE  spent' \in [edits : Nat, faults : Nat, relists : Nat, crashes : Nat]
<1>1. spent \in [edits : Nat, faults : Nat, relists : Nat, crashes : Nat]
  BY DEF PbtInv, ControllerTypeOK
<1>2. \/ UNCHANGED spent
      \/ \E what \in {"edits", "faults", "relists", "crashes"} :
             spent' = [spent EXCEPT ![what] = @ + 1]
  BY DEF PbtStep, PbtNext, PbtUser, UserCreates, UserEdits, UserDeletes, PbtInside,
         PbtHandlers, AddTool, IgnoreUpdate, UpdateRemoves, UpdateCaches, DeleteTool, PbtWorker, TakeTool,
         LookUpTool, UpdateSucceeds, UpdateRefused, UpdateFaults, RetryTool, SettleTool,
         FinishTool, ReceiveDelayedTool, ExpireTool, ObserveTool, ResyncTool, RelistTools,
         Dying, PbtDies, TombstonePanics, Crash, Spend, pbtVars
<1> QED BY <1>1, <1>2

LEMMA TypesNext ==
    ASSUME PbtInv, [PbtStep]_pbtVars
    PROVE  ControllerTypeOK'
<1>1. ControllerTypeOK /\ workqueue \in Queue!Queues
  BY DEF PbtInv, ControllerTypeOK
<1>2. /\ version' \in [Tools -> Nat]
      /\ spent' \in [edits : Nat, faults : Nat, relists : Nat, crashes : Nat]
  BY VersionTyped, SpentTyped
<1>3. CASE PbtHandlers
  BY <1>3, HandlersTyped
<1>4. ASSUME NEW w \in PbtWorkers, PbtWorker(w) PROVE ControllerTypeOK'
  <2>1. mapPbtool' \in [Labels -> Entries \cup {NoTool}] /\ pbtHandler' \in {"idle", "caching"}
    BY <1>1, <1>4, WorkersTyped DEF ControllerTypeOK
  <2> QED BY <2>1, <1>2, <1>4, WorkersTyped DEF ControllerTypeOK
<1>5. ASSUME UNCHANGED <<mapPbtool, pbtHandler, pbtWorkerVars>>, workqueue' \in Queue!Queues
      PROVE  ControllerTypeOK'
  BY <1>1, <1>2, <1>5 DEF ControllerTypeOK, pbtWorkerVars
<1>6. CASE ReceiveDelayedTool
  BY <1>1, <1>5, <1>6, QueueMethods DEF ReceiveDelayedTool
<1>7. ASSUME NEW t \in Tools, ExpireTool(t) \/ ObserveTool(t) \/ ResyncTool(t)
      PROVE  ControllerTypeOK'
  BY <1>1, <1>5, <1>7, QueueMethods DEF ExpireTool, ObserveTool, ResyncTool, PbtControllerVars
<1>8. CASE PbtUser
  BY <1>1, <1>5, <1>8 DEF PbtUser, UserCreates, UserEdits, UserDeletes
<1>9. CASE RelistTools
  BY <1>1, <1>5, <1>9 DEF RelistTools, PbtControllerVars
<1>10. CASE Dying
  <2>1. /\ mapPbtool' \in [Labels -> Entries \cup {NoTool}] /\ pbtHandler' = "idle"
        /\ workqueue' \in Queue!Queues
        /\ pbtAt' = [w \in PbtWorkers |-> "idle"]
        /\ pbtKey' = [w \in PbtWorkers |-> NoTool]
        /\ pbtCopy' = [w \in PbtWorkers |-> NoTool]
    BY <1>10, QueueStartsTyped DEF Dying, PbtDies, TombstonePanics, Crash, PbtRestart, EmptyPool
  <2> QED BY <2>1, <1>2 DEF ControllerTypeOK, PbtPhases
<1>11. CASE UNCHANGED pbtVars
  BY <1>1, <1>5, <1>11 DEF pbtVars
<1> QED
  BY <1>3, <1>4, <1>6, <1>7, <1>8, <1>9, <1>10, <1>11
  DEF PbtStep, PbtNext, PbtInside, Dying

(* While UpdateFunc is between its halves, nothing takes its notification  *)
(* away but the death of the process.                                      *)
LEMMA NoteStays ==
    ASSUME PbtInv, [PbtStep]_pbtVars, pbtHandler = "caching", pbtHandler' # "idle"
    PROVE  pbtPending' # <<>> /\ Note' = Note
<1>1. /\ pbtPending \in Seq(I!Notes) /\ pbtPending # <<>>
      /\ NoteIs("update") /\ SpecChanged(Note.old, Note.new)
  BY DEF PbtInv, InformerOK, I!InformerTypeOK, HandlerOK, NoteIs, PbtInformer!NoteIs
<1>2. ASSUME NEW note \in I!Notes, pbtPending' = Append(pbtPending, note)
      PROVE  pbtPending' # <<>> /\ Note' = Note
  <2>1. Head(pbtPending') = Head(pbtPending) /\ pbtPending' # <<>>
    BY <1>1, <1>2
  <2> QED BY <2>1 DEF Note, PbtInformer!Note
<1>3. ASSUME pbtPending' = pbtPending
      PROVE  pbtPending' # <<>> /\ Note' = Note
  BY <1>1, <1>3 DEF Note, PbtInformer!Note
<1>4. ~PbtHandlers
  <2>1. ~NoteIs("add") /\ ~NoteIs("delete")
    BY <1>1 DEF NoteIs, PbtInformer!NoteIs
  <2> QED
    BY <1>1, <2>1 DEF PbtHandlers, AddTool, IgnoreUpdate, UpdateRemoves, UpdateCaches, DeleteTool
<1>5. ~Dying
  BY DEF Dying, PbtDies, TombstonePanics, Crash, PbtRestart
<1>6. ASSUME NEW t \in Tools, ObserveTool(t)
      PROVE  pbtPending' # <<>> /\ Note' = Note
  <2>1. I!Observe(t)
    BY <1>6, SameInformer DEF ObserveTool
  <2>2. /\ pbtUnseen[t] \in Seq([obj : I!State, lost : BOOLEAN]) /\ pbtUnseen[t] # <<>>
        /\ pbtStore[t] \in I!State
    BY <2>1 DEF PbtInv, InformerOK, I!InformerTypeOK, I!Observe
  <2>3. Head(pbtUnseen[t]) \in [obj : I!State, lost : BOOLEAN]
    BY <2>2, I!SequenceEnds, PbtAssumption
  <2> DEFINE s == Head(pbtUnseen[t])
             note == [key |-> t, old |-> IF s.lost THEN NoTool ELSE pbtStore[t],
                      new |-> s.obj, tombstone |-> s.lost]
  <2>4. pbtPending' = Append(pbtPending, note)
    BY <2>1 DEF I!Observe
  <2> HIDE DEF s
  <2>5. note \in I!Notes
    BY <2>2, <2>3 DEF I!Notes, I!State, s
  <2> HIDE DEF note
  <2> QED BY <1>2, <2>4, <2>5
<1>7. ASSUME NEW t \in Tools, ResyncTool(t)
      PROVE  pbtPending' # <<>> /\ Note' = Note
  <2>1. I!Resync(t) /\ pbtStore[t] \in I!State
    BY <1>7, SameInformer DEF ResyncTool, PbtInv, InformerOK, I!InformerTypeOK
  <2> QED BY <1>2, <2>1 DEF I!Resync, I!Notes
<1>8. CASE PbtUser
  <2>1. pbtPending' = pbtPending
    BY <1>8, UserMoves DEF PbtUser, UserWrites, Stored, I!ServerWrite
  <2> QED BY <1>3, <2>1
<1>9. ASSUME NEW w \in PbtWorkers, PbtWorker(w) PROVE pbtPending' = pbtPending
  BY <1>9
  DEF PbtWorker, TakeTool, LookUpTool, UpdateSucceeds, UpdateRefused, UpdateFaults, RetryTool,
      SettleTool, FinishTool, ApplyUpdate, Store, PbtInformer!ServerWrite, pbtInformerVars
<1>10. CASE RelistTools
  BY <1>3, <1>10 DEF RelistTools, PbtInformer!Relist
<1>11. CASE UNCHANGED pbtVars
  BY <1>3, <1>11 DEF pbtVars, pbtInformerVars
<1>12. ASSUME NEW t \in Tools, ExpireTool(t) PROVE pbtPending' = pbtPending
  BY <1>12 DEF ExpireTool, pbtInformerVars
<1>13. CASE ReceiveDelayedTool
  BY <1>3, <1>13 DEF ReceiveDelayedTool, pbtInformerVars
<1> QED
  BY <1>3, <1>4, <1>5, <1>6, <1>7, <1>8, <1>9, <1>10, <1>11, <1>12, <1>13
  DEF PbtStep, PbtNext, PbtInside, Dying

LEMMA HandlerNext ==
    ASSUME PbtInv, [PbtStep]_pbtVars
    PROVE  HandlerOK'
<1>1. CASE pbtHandler' = "idle"
  BY <1>1 DEF HandlerOK
<1>2. CASE pbtHandler = "caching" /\ pbtHandler' # "idle"
  BY <1>2, NoteStays
  DEF PbtInv, HandlerOK, NoteIs, PbtInformer!NoteIs, Note, SpecChanged
<1>3. CASE pbtHandler = "idle" /\ pbtHandler' # "idle"
  <2>1. UpdateRemoves
    BY <1>3
    DEF PbtStep, PbtNext, PbtInside, PbtHandlers, AddTool, IgnoreUpdate, UpdateCaches,
        DeleteTool, PbtWorker, TakeTool, LookUpTool, UpdateSucceeds, UpdateRefused, UpdateFaults,
        RetryTool, SettleTool, FinishTool, ReceiveDelayedTool, ExpireTool, ObserveTool,
        ResyncTool, RelistTools, Dying, PbtDies, TombstonePanics, Crash, PbtRestart, PbtUser,
        UserCreates, UserEdits, UserDeletes, PbtControllerVars, pbtVars
  <2> QED
    BY <2>1
    DEF UpdateRemoves, HandlerOK, NoteIs, PbtInformer!NoteIs, Note, PbtInformer!Note,
        pbtInformerVars, SpecChanged
<1> QED BY <1>1, <1>2, <1>3 DEF PbtInv, ControllerTypeOK

LEMMA PbtInvNext == PbtInv /\ [PbtStep]_pbtVars => PbtInv'
BY InformerNextOK, TypesNext, HandlerNext DEF PbtInv

LEMMA PbtInvInit == PbtInit => PbtInv
<1> SUFFICES ASSUME PbtInit PROVE PbtInv
  OBVIOUS
<1>1. pbtServer \in [Tools -> I!State]
  BY NewToolsAreTools DEF PbtInit, I!State
<1>2. I!Start
  BY SameInformer DEF PbtInit
<1>3. I!InformerInv /\ I!UnseenLeadsToServer /\ I!Alternates /\ I!NotesMakeSense
  BY <1>1, <1>2, I!StartInv, I!StartReached, I!StartMakesSense, PbtAssumption
<1>4. I!TombstonesDelete
  BY <1>2, I!StartTombstones, PbtAssumption
<1>5. ControllerTypeOK
  BY QueueStartsTyped DEF PbtInit, ControllerTypeOK, EmptyPool, PbtPhases
<1> QED BY <1>3, <1>4, <1>5 DEF PbtInv, InformerOK, I!InformerInv, HandlerOK, PbtInit

LEMMA TypesFollow == PbtInv => PbtTypeOK
BY SameInformer DEF PbtInv, ControllerTypeOK, InformerOK, PbtTypeOK

LEMMA NextIsStep == [PbtNext]_pbtVars => [PbtStep]_pbtVars
BY DEF PbtStep

(* syncHandler never updates through a nil object, no worker works without *)
(* a key, and every variable stays in its type, however many writes,       *)
(* faults, relists and crashes there are.                                  *)
THEOREM PbtTypesHold == PbtSpec => []PbtTypeOK
BY TypesFollow, PbtInvInit, PbtInvNext, NextIsStep, PTL DEF PbtSpec

-----------------------------------------------------------------------------
(* Every object under key t that the informer holds anywhere, or a worker  *)
(* is about to write back.                                                 *)
Known(t) ==
    I!Held(t)
        \cup {pbtCopy[w] : w \in {v \in PbtWorkers : pbtAt[v] = "update" /\ pbtKey[v] = t}}

(* A copy is what its worker's lookup found in the store. *)
LEMMA CopiesComeFromStore ==
    ASSUME PbtInv, [PbtStep]_pbtVars, NEW w \in PbtWorkers, pbtAt'[w] = "update"
    PROVE  /\ pbtKey'[w] = pbtKey[w]
           /\ \/ pbtAt[w] = "update" /\ pbtCopy'[w] = pbtCopy[w]
              \/ pbtKey[w] \in Tools /\ pbtCopy'[w] = pbtStore[pbtKey[w]]
<1>1. /\ pbtAt \in [PbtWorkers -> PbtPhases]
      /\ pbtKey \in [PbtWorkers -> Tools \cup {NoTool}]
      /\ pbtCopy \in [PbtWorkers -> ToolObjects \cup {NoTool}]
      /\ \A v \in PbtWorkers : pbtAt[v] # "idle" => pbtKey[v] # NoTool
  BY DEF PbtInv, ControllerTypeOK
<1>2. ASSUME NEW v \in PbtWorkers, PbtWorker(v), v # w
      PROVE  UNCHANGED <<pbtAt[w], pbtKey[w], pbtCopy[w]>>
  BY <1>1, <1>2
  DEF PbtWorker, TakeTool, LookUpTool, UpdateSucceeds, UpdateRefused, UpdateFaults, RetryTool,
      SettleTool, FinishTool, Goto
<1>3. ASSUME PbtWorker(w)
      PROVE  pbtAt[w] = "lookup" /\ pbtKey' = pbtKey /\ pbtCopy'[w] = pbtStore[pbtKey[w]]
  BY <1>1, <1>3
  DEF PbtWorker, TakeTool, LookUpTool, UpdateSucceeds, UpdateRefused, UpdateFaults, RetryTool,
      SettleTool, FinishTool, Goto
<1>4. ~Dying
  BY DEF Dying, PbtDies, TombstonePanics, Crash, PbtRestart
<1>5. CASE UNCHANGED pbtWorkerVars
  BY <1>5 DEF pbtWorkerVars
<1>6. CASE ~UNCHANGED pbtWorkerVars
  <2>1. \E v \in PbtWorkers : PbtWorker(v)
    BY <1>4, <1>6
    DEF PbtStep, PbtNext, PbtInside, PbtHandlers, AddTool, IgnoreUpdate, UpdateRemoves,
        UpdateCaches, DeleteTool, ReceiveDelayedTool, ExpireTool, ObserveTool, ResyncTool,
        RelistTools, Dying, PbtUser, UserCreates, UserEdits, UserDeletes, PbtControllerVars, pbtVars
  <2> QED BY <1>1, <1>2, <1>3, <2>1
<1> QED BY <1>5, <1>6

LEMMA KnownGrows ==
    ASSUME PbtInv, [PbtStep]_pbtVars, NEW t \in Tools, NEW S,
           Known(t) \subseteq S, I!Held(t)' \subseteq S
    PROVE  Known(t)' \subseteq S
<1>1. ASSUME NEW w \in PbtWorkers, pbtAt'[w] = "update", pbtKey'[w] = t
      PROVE  pbtCopy'[w] \in S
  <2>1. /\ pbtKey[w] = t
        /\ \/ pbtAt[w] = "update" /\ pbtCopy'[w] = pbtCopy[w]
           \/ pbtCopy'[w] = pbtStore[t]
    BY <1>1, CopiesComeFromStore
  <2>2. pbtStore[t] \in Known(t)
    BY DEF Known, I!Held
  <2>3. pbtAt[w] = "update" => pbtCopy[w] \in Known(t)
    BY <2>1 DEF Known
  <2> QED BY <2>1, <2>2, <2>3
<1> QED BY <1>1 DEF Known

(* The objects known under a key differ in label or image only if they     *)
(* differ in resourceVersion, none is from the future, and each has a      *)
(* label its users may have given it.                                      *)
KnownOK ==
    \A t \in Tools : \A o \in Known(t) \ {NoTool} :
        /\ o.label \in LabelsOf[t]
        /\ o.rv \in Nat /\ o.rv <= version[t]
        /\ \A p \in Known(t) \ {NoTool} :
               p.rv = o.rv => p.label = o.label /\ p.image = o.image

LEMMA KnownInit == PbtInit => KnownOK
<1> SUFFICES ASSUME PbtInit, NEW t \in Tools PROVE
        \A o \in Known(t) \ {NoTool} :
            o = pbtServer[t] /\ o.label \in LabelsOf[t] /\ o.rv = 0 /\ version[t] = 0
  BY DEF KnownOK
<1>1. I!Start /\ pbtAt = [w \in PbtWorkers |-> "idle"]
  BY SameInformer DEF PbtInit
<1>2. Known(t) \subseteq {NoTool, pbtServer[t]}
  BY <1>1 DEF Known, I!Held, I!Start, I!Listed, I!Existing, I!Nothing
<1>3. pbtServer[t] # NoTool => pbtServer[t].label \in LabelsOf[t] /\ pbtServer[t].rv = 0
  BY DEF PbtInit, NewTools
<1> QED BY <1>2, <1>3 DEF PbtInit

LEMMA KnownNext ==
    ASSUME PbtInv, KnownOK, [PbtStep]_pbtVars
    PROVE  KnownOK'
<1>1. I!InformerTypeOK /\ version \in [Tools -> Nat]
  BY DEF PbtInv, InformerOK, ControllerTypeOK
<1>2. CASE Quiet
  <2>1. \A t \in Tools : Known(t)' \subseteq Known(t)
    <3> SUFFICES ASSUME NEW t \in Tools PROVE Known(t)' \subseteq Known(t)
      OBVIOUS
    <3>1. I!Held(t)' \subseteq I!Held(t)
      BY <1>1, <1>2, I!HeldShrinks, PbtAssumption DEF Quiet
    <3>2. I!Held(t)' \subseteq Known(t)
      BY <3>1 DEF Known
    <3> QED BY <3>2, KnownGrows
  <2> QED BY <1>2, <2>1 DEF KnownOK, Quiet
<1>3. ASSUME NEW j \in Tools, NEW o, I!ServerWrite(j, o), NEW t \in Tools
      PROVE  Known(t)' \subseteq IF j = t THEN Known(t) \cup {o} ELSE Known(t)
  <2>1. I!Held(t)' \subseteq IF j = t THEN I!Held(t) \cup {o} ELSE I!Held(t)
    BY <1>1, <1>3, I!HeldWrite, PbtAssumption
  <2>2. I!Held(t)' \subseteq IF j = t THEN Known(t) \cup {o} ELSE Known(t)
    BY <2>1 DEF Known
  <2> QED BY <2>2, KnownGrows
<1>4. ASSUME NEW j \in Tools, NEW o, Stored(j, o), o.label \in LabelsOf[j]
      PROVE  KnownOK'
  <2> SUFFICES ASSUME NEW t \in Tools, NEW p \in Known(t)' \ {NoTool},
                      NEW q \in Known(t)' \ {NoTool}
               PROVE  /\ p.label \in LabelsOf[t]
                      /\ p.rv \in Nat /\ p.rv <= version'[t]
                      /\ q.rv = p.rv => q.label = p.label /\ q.image = p.image
    BY DEF KnownOK
  <2>1. CASE j # t
    <3>1. p \in Known(t) /\ q \in Known(t) /\ version'[t] = version[t]
      BY <1>1, <1>3, <1>4, <2>1 DEF Stored
    <3> QED BY <3>1 DEF KnownOK
  <2>2. CASE j = t
    <3>1. /\ p \in Known(t) \/ p = o
          /\ q \in Known(t) \/ q = o
          /\ version'[t] = version[t] + 1 /\ o.rv = version[t] + 1 /\ version[t] \in Nat
      BY <1>1, <1>3, <1>4, <2>2 DEF Stored
    <3>2. \A r \in {p, q} : r \in Known(t) =>
              /\ r.label \in LabelsOf[t] /\ r.rv \in Nat /\ r.rv <= version[t]
              /\ \A u \in {p, q} : u \in Known(t) /\ u.rv = r.rv =>
                     u.label = r.label /\ u.image = r.image
      BY DEF KnownOK
    <3> QED BY <1>4, <2>2, <3>1, <3>2
  <2> QED BY <2>1, <2>2
<1>5. ASSUME NEW t \in Tools, NEW o, UserWrites(t, o) PROVE KnownOK'
  <2>1. CASE Stored(t, o) /\ o.label \in LabelsOf[t]
    BY <1>4, <2>1
  <2>2. CASE I!ServerWrite(t, o) /\ o = NoTool /\ UNCHANGED version
    BY <1>3, <2>2 DEF KnownOK
  <2> QED BY <1>5, <2>1, <2>2 DEF UserWrites
<1>6. ASSUME NEW w \in PbtWorkers, NEW o, WorkerWrites(w, o) PROVE KnownOK'
  <2>1. /\ pbtKey[w] \in Tools /\ pbtCopy[w] # NoTool
        /\ pbtCopy[w] \in Known(pbtKey[w])
    BY <1>6 DEF WorkerWrites, PbtInv, ControllerTypeOK, Known
  <2>2. o.label \in LabelsOf[pbtKey[w]]
    BY <1>6, <2>1 DEF WorkerWrites, KnownOK
  <2> QED BY <1>4, <1>6, <2>1, <2>2 DEF WorkerWrites
<1> QED BY <1>2, <1>5, <1>6, Moves

LEMMA OnlyUsersStep ==
    ASSUME PbtInv, KnownOK, [PbtStep]_pbtVars, NEW t \in Tools,
           pbtServer'[t] # NoTool, spent'.edits = spent.edits
    PROVE  /\ pbtServer[t] # NoTool
           /\ pbtServer'[t].label = pbtServer[t].label
           /\ pbtServer'[t].image = pbtServer[t].image
<1>1. pbtServer \in [Tools -> I!State]
  BY DEF PbtInv, InformerOK, I!InformerTypeOK
<1>2. CASE Quiet
  BY <1>2
  DEF Quiet, I!InformerStep, I!Restart, I!Relist, I!Deliver, I!Observe, I!Resync,
      I!informerVars
<1>3. ASSUME NEW w \in PbtWorkers, NEW o \in I!State, WorkerWrites(w, o)
      PROVE  /\ pbtServer[t] # NoTool
             /\ pbtServer'[t].label = pbtServer[t].label
             /\ pbtServer'[t].image = pbtServer[t].image
  <2>1. CASE t # pbtKey[w]
    BY <1>1, <1>3, <2>1 DEF WorkerWrites, Stored, I!ServerWrite
  <2>2. CASE t = pbtKey[w]
    <3>1. /\ pbtServer'[t] = o /\ pbtServer[t] # NoTool
          /\ pbtServer[t].rv = pbtCopy[w].rv
          /\ o.label = pbtCopy[w].label /\ o.image = pbtCopy[w].image
      BY <1>1, <1>3, <2>2 DEF WorkerWrites, UpdateAccepted, Stored, I!ServerWrite
    <3>2. pbtCopy[w] \in Known(t) \ {NoTool} /\ pbtServer[t] \in Known(t) \ {NoTool}
      BY <1>3, <2>2, <3>1
      DEF WorkerWrites, PbtInv, ControllerTypeOK, Known, I!Held
    <3> QED BY <3>1, <3>2 DEF KnownOK
  <2> QED BY <2>1, <2>2
<1>4. ~\E s \in Tools, o \in I!State : UserWrites(s, o)
  BY DEF UserWrites
<1> QED BY <1>2, <1>3, <1>4, Moves

(* The server takes a write of a worker only for a copy with the label and *)
(* the image it holds, however old the copy is: what was written under the *)
(* same resourceVersion is the same, and a deleted tool stays deleted.     *)
THEOREM OnlyUsersChange == PbtSpec => OnlyUsersChangeTools
<1>1. PbtInv /\ KnownOK /\ [PbtStep]_pbtVars =>
          [\A t \in Tools :
              pbtServer'[t] # NoTool /\ spent'.edits = spent.edits =>
                  /\ pbtServer[t] # NoTool
                  /\ pbtServer'[t].label = pbtServer[t].label
                  /\ pbtServer'[t].image = pbtServer[t].image]_pbtVars
  BY OnlyUsersStep
<1>2. PbtInv /\ KnownOK /\ [PbtStep]_pbtVars => KnownOK'
  BY KnownNext
<1> QED
  BY <1>1, <1>2, PbtInvInit, PbtInvNext, KnownInit, NextIsStep, PTL
  DEF PbtSpec, OnlyUsersChangeTools

-----------------------------------------------------------------------------
(* No two tools share a label, and no two labels differ in case only.      *)
LabelsAreOwn ==
    /\ \A s, t \in Tools : s # t => LabelsOf[s] \cap LabelsOf[t] = {}
    /\ \A k, l \in Labels : Fold[k] = Fold[l] => k = l

(* Entries stand under well-formed labels only, and between the halves of  *)
(* UpdateFunc the tool being updated has none.                             *)
PoolInv ==
    /\ PoolSound /\ PoolComplete
    /\ \A l \in Labels : mapPbtool[l] # NoTool => l \in WellFormed
    /\ pbtHandler = "caching" =>
           \A l \in Labels : mapPbtool[l] # NoTool => mapPbtool[l].name # Note.key

LEMMA ToldHasOwnLabel ==
    ASSUME PbtInv, KnownOK, NEW t \in Tools, pbtTold[t] # NoTool
    PROVE  pbtTold[t] \in ToolObjects /\ pbtTold[t].label \in LabelsOf[t]
<1>1. pbtTold[t] \in Known(t)
  BY DEF Known, I!Held
<1> QED
  BY <1>1 DEF KnownOK, PbtInv, InformerOK, I!InformerTypeOK, I!State

(* What a handler that returns leaves behind. *)
LEMMA DeliverTells ==
    ASSUME PbtInv, PbtInformer!Deliver
    PROVE  /\ pbtPending # <<>> /\ Note.key \in Tools
           /\ pbtTold'[Note.key] = Note.new
           /\ \A t \in Tools : t # Note.key => pbtTold'[t] = pbtTold[t]
<1>1. pbtPending # <<>> /\ pbtTold' = [pbtTold EXCEPT ![Note.key] = Note.new]
  BY DEF PbtInformer!Deliver, Note
<1>2. Note.key \in Tools /\ pbtTold \in [Tools -> I!State]
  BY <1>1, NoteKinds DEF PbtInv, InformerOK, I!InformerTypeOK
<1> QED BY <1>1, <1>2

(* enqueuePodbuggertool, for a tool without entry. *)
LEMMA EnqueuePools ==
    ASSUME PbtInv, PoolInv, EnqueuePodbuggertool, pbtHandler' = "idle",
           Note.new \in ToolObjects,
           \A l \in Labels : mapPbtool[l] # NoTool => mapPbtool[l].name # Note.key
    PROVE  PoolInv'
<1>1. /\ Note.key \in Tools
      /\ pbtTold'[Note.key] = Note.new
      /\ \A t \in Tools : t # Note.key => pbtTold'[t] = pbtTold[t]
  BY DeliverTells DEF EnqueuePodbuggertool
<1>2. /\ mapPbtool \in [Labels -> Entries \cup {NoTool}]
      /\ mapPbtool' = CacheTargetLabel(mapPbtool, Note.key, Note.new)
      /\ Note.new.label \in Labels
  BY DEF PbtInv, ControllerTypeOK, EnqueuePodbuggertool, ToolObjects
<1> DEFINE entry == [name |-> Note.key, image |-> Note.new.image]
<1>3. entry # NoTool /\ entry.name = Note.key /\ entry.image = Note.new.image
  <2>1. entry \in Entries
    BY <1>1 DEF Entries, ToolObjects
  <2> QED BY <2>1, PbtAssumption
<1>4. /\ \A l \in Labels :
             \/ mapPbtool'[l] = mapPbtool[l]
             \/ l = Note.new.label /\ l \in WellFormed /\ mapPbtool'[l] = entry
      /\ Note.new.label \in WellFormed => mapPbtool'[Note.new.label] # NoTool
  BY <1>2, <1>3 DEF CacheTargetLabel
<1> HIDE DEF entry
<1>5. PoolSound'
  <2> SUFFICES ASSUME NEW l \in Labels, mapPbtool'[l] # NoTool
               PROVE  LET known == pbtTold'[mapPbtool'[l].name]
                      IN /\ known # NoTool /\ known.label = l
                         /\ Fold[known.image] = Fold[mapPbtool'[l].image]
    BY DEF PoolSound
  <2>1. CASE mapPbtool'[l] = mapPbtool[l]
    <3>1. mapPbtool[l] \in Entries /\ mapPbtool[l].name # Note.key
      BY <1>2, <2>1
    <3>2. mapPbtool[l].name \in Tools
      BY <3>1 DEF Entries
    <3> QED BY <1>1, <2>1, <3>1, <3>2 DEF PoolInv, PoolSound
  <2>2. CASE l = Note.new.label /\ mapPbtool'[l] = entry
    BY <1>1, <1>3, <2>2, PbtAssumption
  <2> QED BY <1>4, <2>1, <2>2
<1>6. PoolComplete'
  <2> SUFFICES ASSUME NEW t \in Tools, pbtTold'[t] # NoTool, pbtTold'[t].label \in WellFormed
               PROVE  mapPbtool'[pbtTold'[t].label] # NoTool
    BY DEF PoolComplete
  <2>1. CASE t = Note.key
    BY <1>1, <1>4, <2>1
  <2>2. CASE t # Note.key
    BY <1>1, <1>3, <1>4, <2>2, PbtAssumption DEF PoolInv, PoolComplete
  <2> QED BY <2>1, <2>2
<1> QED BY <1>4, <1>5, <1>6 DEF PoolInv

(* removeTargetLabel of the label the tool had: only its own entry goes.   *)
LEMMA RemovePools ==
    ASSUME PbtInv, PoolInv, NoteIs("update") \/ NoteIs("delete"),
           mapPbtool' = RemoveTargetLabel(mapPbtool, Note.old)
    PROVE  /\ \A l \in Labels :
                 \/ mapPbtool'[l] = mapPbtool[l]
                 \/ l = Note.old.label /\ mapPbtool'[l] = NoTool
           /\ \A l \in Labels : mapPbtool'[l] # NoTool => mapPbtool'[l].name # Note.key
<1>1. /\ mapPbtool \in [Labels -> Entries \cup {NoTool}]
      /\ Note.old = pbtTold[Note.key] /\ Note.old \in ToolObjects
  BY NoteKinds DEF PbtInv, ControllerTypeOK, NoteIs, PbtInformer!NoteIs
<1>2. /\ \A l \in Labels :
             \/ mapPbtool'[l] = mapPbtool[l]
             \/ l = Note.old.label /\ mapPbtool'[l] = NoTool
      /\ Note.old.label \in WellFormed => mapPbtool'[Note.old.label] = NoTool
  BY <1>1 DEF RemoveTargetLabel, ToolObjects
<1>3. ASSUME NEW l \in Labels, mapPbtool'[l] # NoTool, mapPbtool'[l].name = Note.key
      PROVE  FALSE
  <2>1. mapPbtool[l] = mapPbtool'[l] /\ l \in WellFormed /\ pbtTold[Note.key].label = l
    BY <1>2, <1>3 DEF PoolInv, PoolSound
  <2> QED BY <1>1, <1>2, <1>3, <2>1
<1> QED BY <1>2, <1>3

(* A tool that is not told of anything keeps its entry when the label of   *)
(* another one is removed, because it has its label for itself.            *)
LEMMA OthersKeepEntries ==
    ASSUME PbtInv, KnownOK, PoolInv, LabelsAreOwn, NoteIs("update") \/ NoteIs("delete"),
           mapPbtool' = RemoveTargetLabel(mapPbtool, Note.old),
           NEW t \in Tools, t # Note.key, pbtTold[t] # NoTool, pbtTold[t].label \in WellFormed
    PROVE  mapPbtool'[pbtTold[t].label] # NoTool
<1>1. Note.key \in Tools /\ Note.old = pbtTold[Note.key] /\ Note.old # NoTool
  BY NoteKinds DEF PbtInv, NoteIs, PbtInformer!NoteIs
<1>2. /\ pbtTold[t].label \in LabelsOf[t] /\ Note.old.label \in LabelsOf[Note.key]
      /\ pbtTold[t].label \in Labels
  BY <1>1, ToldHasOwnLabel DEF ToolObjects
<1>3. pbtTold[t].label # Note.old.label
  BY <1>1, <1>2 DEF LabelsAreOwn
<1>4. mapPbtool[pbtTold[t].label] # NoTool
  BY DEF PoolInv, PoolComplete
<1> QED BY <1>2, <1>3, <1>4, RemovePools

LEMMA PoolHandlers ==
    ASSUME PbtInv, KnownOK, PoolInv, LabelsAreOwn, PbtHandlers, HandlerOK'
    PROVE  PoolInv'
<1>1. /\ mapPbtool \in [Labels -> Entries \cup {NoTool}]
      /\ pbtPending # <<>> /\ pbtHandler \in {"idle", "caching"}
  BY DEF PbtHandlers, AddTool, IgnoreUpdate, UpdateRemoves, UpdateCaches, DeleteTool, NoteIs,
         PbtInformer!NoteIs, PbtInv, HandlerOK, ControllerTypeOK
<1>2. /\ Note.key \in Tools
      /\ NoteIs("add") \/ NoteIs("update") \/ NoteIs("delete")
      /\ Note.old = pbtTold[Note.key]
      /\ NoteIs("add") => Note.old = NoTool /\ Note.new \in ToolObjects
      /\ NoteIs("update") => Note.old \in ToolObjects /\ Note.new \in ToolObjects
      /\ NoteIs("delete") => Note.old \in ToolObjects /\ Note.new = NoTool
      /\ NoTool \notin ToolObjects
  <2>1. NoteIs("add") \/ NoteIs("update") \/ NoteIs("delete")
    BY DEF PbtHandlers, AddTool, IgnoreUpdate, UpdateRemoves, UpdateCaches, DeleteTool, PbtInv,
           HandlerOK
  <2> QED BY <1>1, <2>1, NoteKinds, PbtAssumption DEF PbtInv
<1>3. pbtHandler = "caching" => NoteIs("update") /\ SpecChanged(Note.old, Note.new)
  BY DEF PbtInv, HandlerOK
<1>4. ~(NoteIs("add") /\ NoteIs("update")) /\ ~(NoteIs("delete") /\ NoteIs("update"))
  BY DEF NoteIs, PbtInformer!NoteIs
<1>5. CASE AddTool
  <2>1. pbtHandler' = "idle"
    BY <1>1, <1>3, <1>4, <1>5 DEF AddTool
  <2>2. \A l \in Labels : mapPbtool[l] # NoTool => mapPbtool[l].name # Note.key
    BY <1>2, <1>5 DEF AddTool, PoolInv, PoolSound
  <2> QED BY <1>2, <1>5, <2>1, <2>2, EnqueuePools DEF AddTool
<1>6. CASE UpdateCaches
  BY <1>2, <1>3, <1>6, EnqueuePools DEF UpdateCaches, PoolInv
<1>7. CASE IgnoreUpdate
  <2>1. /\ pbtHandler' = "idle" /\ pbtHandler = "idle" /\ mapPbtool' = mapPbtool
        /\ pbtTold'[Note.key] = Note.new
        /\ \A t \in Tools : t # Note.key => pbtTold'[t] = pbtTold[t]
    BY <1>1, <1>3, <1>7, DeliverTells DEF IgnoreUpdate
  <2>2. Note.new.label = pbtTold[Note.key].label /\ Fold[Note.new.image] = Fold[pbtTold[Note.key].image]
    BY <1>2, <1>7 DEF IgnoreUpdate, SpecChanged, LabelsAreOwn, ToolObjects
  <2>3. \A t \in Tools :
            /\ pbtTold'[t] # NoTool <=> pbtTold[t] # NoTool
            /\ pbtTold'[t].label = pbtTold[t].label
            /\ Fold[pbtTold'[t].image] = Fold[pbtTold[t].image]
    BY <1>2, <1>7, <2>1, <2>2 DEF IgnoreUpdate
  <2>4. \A l \in Labels : mapPbtool[l] # NoTool => mapPbtool[l].name \in Tools
    BY <1>1 DEF Entries
  <2>5. PoolSound'
    BY <2>1, <2>3, <2>4 DEF PoolInv, PoolSound
  <2>6. PoolComplete'
    BY <2>1, <2>3 DEF PoolInv, PoolComplete
  <2> QED BY <2>1, <2>5, <2>6 DEF PoolInv
<1>8. CASE UpdateRemoves
  <2>1. /\ pbtHandler' = "caching" /\ pbtTold' = pbtTold /\ Note' = Note
        /\ mapPbtool' = RemoveTargetLabel(mapPbtool, Note.old) /\ Note.old # NoTool
        /\ pbtHandler = "idle"
    BY <1>2, <1>8 DEF UpdateRemoves, pbtInformerVars, Note, PbtInformer!Note
  <2>2. /\ \A l \in Labels : mapPbtool'[l] = mapPbtool[l] \/ mapPbtool'[l] = NoTool
        /\ \A l \in Labels : mapPbtool'[l] # NoTool => mapPbtool'[l].name # Note.key
    BY <1>8, <2>1, RemovePools DEF UpdateRemoves
  <2>3. PoolSound'
    BY <2>1, <2>2 DEF PoolInv, PoolSound
  <2>4. PoolComplete'
    BY <1>8, <2>1, OthersKeepEntries DEF PoolComplete, UpdateRemoves
  <2> QED BY <2>1, <2>2, <2>3, <2>4 DEF PoolInv
<1>9. CASE DeleteTool
  <2>1. /\ pbtHandler' = "idle" /\ pbtHandler = "idle"
        /\ mapPbtool' = RemoveTargetLabel(mapPbtool, Note.old) /\ Note.old # NoTool
        /\ pbtTold'[Note.key] = NoTool
        /\ \A t \in Tools : t # Note.key => pbtTold'[t] = pbtTold[t]
    BY <1>1, <1>2, <1>3, <1>4, <1>9, DeliverTells DEF DeleteTool
  <2>2. /\ \A l \in Labels : mapPbtool'[l] = mapPbtool[l] \/ mapPbtool'[l] = NoTool
        /\ \A l \in Labels : mapPbtool'[l] # NoTool => mapPbtool'[l].name # Note.key
    BY <1>9, <2>1, RemovePools DEF DeleteTool
  <2>3. \A l \in Labels : mapPbtool[l] # NoTool => mapPbtool[l].name \in Tools
    BY <1>1 DEF Entries
  <2>4. PoolSound'
    BY <2>1, <2>2, <2>3 DEF PoolInv, PoolSound
  <2>5. PoolComplete'
    BY <1>9, <2>1, OthersKeepEntries DEF PoolComplete, DeleteTool
  <2> QED BY <2>1, <2>2, <2>4, <2>5 DEF PoolInv
<1> QED BY <1>5, <1>6, <1>7, <1>8, <1>9 DEF PbtHandlers

LEMMA PoolNext ==
    ASSUME PbtInv, KnownOK, PoolInv, LabelsAreOwn, [PbtStep]_pbtVars
    PROVE  PoolInv'
<1>1. CASE PbtHandlers
  BY <1>1, HandlerNext, PoolHandlers
<1>2. CASE Dying
  <2>1. mapPbtool' = EmptyPool /\ pbtHandler' = "idle" /\ pbtTold' = [t \in Tools |-> NoTool]
    BY <1>2
    DEF Dying, PbtDies, TombstonePanics, Crash, PbtRestart, PbtInformer!Restart,
        PbtInformer!Nothing
  <2> QED BY <2>1 DEF PoolInv, PoolSound, PoolComplete, EmptyPool
<1>3. CASE ~PbtHandlers /\ ~Dying
  <2>1. UNCHANGED <<mapPbtool, pbtHandler>>
    BY <1>3
    DEF PbtStep, PbtNext, PbtInside, PbtWorker, TakeTool, LookUpTool, UpdateSucceeds,
        UpdateRefused, UpdateFaults, RetryTool, SettleTool, FinishTool, ReceiveDelayedTool,
        ExpireTool, ObserveTool, ResyncTool, RelistTools, Dying, PbtUser, UserCreates, UserEdits, UserDeletes,
        PbtControllerVars, pbtVars
  <2>2. UNCHANGED pbtTold
    BY <1>3
    DEF PbtStep, PbtNext, PbtInside, PbtWorker, TakeTool, LookUpTool, UpdateSucceeds,
        UpdateRefused, UpdateFaults, RetryTool, SettleTool, FinishTool, ReceiveDelayedTool,
        ExpireTool, ObserveTool, ResyncTool, RelistTools, Dying, PbtUser, UserCreates, UserEdits, UserDeletes,
        PbtInformer!Observe, PbtInformer!Resync, PbtInformer!Relist, PbtInformer!ServerWrite,
        ApplyUpdate, Store, pbtInformerVars, pbtVars
  <2>3. pbtHandler = "caching" => Note' = Note
    BY <2>1, NoteStays
  <2> QED BY <2>1, <2>2, <2>3 DEF PoolInv, PoolSound, PoolComplete
<1> QED BY <1>1, <1>2, <1>3

LEMMA PoolInit == PbtInit => PoolInv
BY DEF PbtInit, PbtInformer!Start, PbtInformer!Nothing, EmptyPool, PoolInv, PoolSound,
       PoolComplete

(* When every tool has labels of its own, the pool is what checkLabelPod   *)
(* and updatePod take it for: an entry stands for a tool the handlers know *)
(* with that label and image, and every such tool has one, whatever the    *)
(* order of notifications, missed deletions and crashes.                   *)
THEOREM PoolIsRight == LabelsAreOwn => (PbtSpec => [](PoolSound /\ PoolComplete))
<1> SUFFICES ASSUME LabelsAreOwn PROVE PbtSpec => [](PoolSound /\ PoolComplete)
  OBVIOUS
<1>1. PbtInv /\ KnownOK /\ PoolInv /\ [PbtStep]_pbtVars => PoolInv'
  BY PoolNext
<1>2. PbtInv /\ KnownOK /\ [PbtStep]_pbtVars => KnownOK'
  BY KnownNext
<1>3. PoolInv => PoolSound /\ PoolComplete
  BY DEF PoolInv
<1> QED
  BY <1>1, <1>2, <1>3, PoolInit, PbtInvInit, PbtInvNext, KnownInit, NextIsStep, PTL
  DEF PbtSpec

(* The second half of it by itself: no tool the handlers were told of is   *)
(* missing from the pool, but while UpdateFunc replaces its entry.         *)
THEOREM PoolHasEveryTool == LabelsAreOwn => (PbtSpec => []PoolComplete)
<1> SUFFICES ASSUME LabelsAreOwn PROVE PbtSpec => []PoolComplete
  OBVIOUS
<1>1. PbtSpec => [](PoolSound /\ PoolComplete)
  BY PoolIsRight
<1> QED BY <1>1, PTL
=============================================================================

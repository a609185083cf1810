------------------------ MODULE PodBuggerToolProofs ------------------------
(***************************************************************************)
(* Theorems about the whole controller, for any tools, pods, labels,       *)
(* images and workers, and without the bounds on what users, the API       *)
(* server, the watches and the process do: what was proved of the half     *)
(* that looks after Podbuggertools still holds beside the other half, and  *)
(* what the pods' half may put into a pod.                                 *)
(***************************************************************************)
EXTENDS PodBuggerTool, PbtControllerProofs

P == INSTANCE InformerProofs WITH
    Keys <- Pods, Objects <- PodObjects, NoObject <- NoPod,
    server <- podServer, unseen <- podUnseen, store <- podStore,
    pending <- podPending, told <- podTold, listing <- podListing

V == INSTANCE WorkqueueProofs WITH Items <- Pods

-----------------------------------------------------------------------------
(* Every step of the whole is, for the Podbuggertools' half, a step of     *)
(* PbtStep; so what PbtControllerProofs shows of it can be used here.      *)
LEMMA PbtHalf == [Next]_vars => [PbtStep]_pbtVars
<1> SUFFICES ASSUME [Next]_vars PROVE [PbtStep]_pbtVars
  OBVIOUS
<1>1. CASE PbtSide
  BY <1>1 DEF PbtSide, PbtStep, PbtNext
<1>2. CASE PodSide
  BY <1>2 DEF PodSide
<1>3. CASE Panics
  BY <1>3 DEF Panics, PbtStep, Dying
<1>4. CASE Killed
  BY <1>4 DEF Killed, PbtStep, Dying, PbtDies, Crash
<1>5. CASE UNCHANGED vars
  BY <1>5 DEF vars
<1> QED BY <1>1, <1>2, <1>3, <1>4, <1>5 DEF Next

LEMMA ToolsInit == Init => PbtInv /\ KnownOK /\ PoolInv
BY PbtInvInit, KnownInit, PoolInit DEF Init

LEMMA ToolsNext == PbtInv /\ [Next]_vars => PbtInv'
BY PbtHalf, PbtInvNext

LEMMA KnownToolsNext == PbtInv /\ KnownOK /\ [Next]_vars => KnownOK'
BY PbtHalf, KnownNext

(* The types of the Podbuggertools' half, also when the pods' half panics. *)
THEOREM ToolTypesHoldInTheWhole == Spec => []PbtTypeOK
BY ToolsInit, ToolsNext, TypesFollow, PTL DEF Spec

(* Nothing the pods' half does lets the controller change a tool.          *)
THEOREM OnlyUsersChangeInTheWhole == Spec => OnlyUsersChangeTools
<1>1. PbtInv /\ KnownOK /\ [Next]_vars =>
          [\A t \in Tools :
              pbtServer'[t] # NoTool /\ spent'.edits = spent.edits =>
                  /\ pbtServer[t] # NoTool
                  /\ pbtServer'[t].label = pbtServer[t].label
                  /\ pbtServer'[t].image = pbtServer[t].image]_pbtVars
  BY PbtHalf, OnlyUsersStep
<1> QED
  BY <1>1, ToolsInit, ToolsNext, KnownToolsNext, PTL DEF Spec, OnlyUsersChangeTools

(* The pool that the goroutines of the pods read without a lock is, at     *)
(* each of their reads, the one the handlers of Podbuggertools promise.    *)
THEOREM PoolIsRightInTheWhole == LabelsAreOwn => (Spec => [](PoolSound /\ PoolComplete))
<1> SUFFICES ASSUME LabelsAreOwn PROVE Spec => [](PoolSound /\ PoolComplete)
  OBVIOUS
<1>1. PbtInv /\ KnownOK /\ PoolInv /\ [Next]_vars => PoolInv'
  BY PbtHalf, PoolNext
<1>2. PoolInv => PoolSound /\ PoolComplete
  BY DEF PoolInv
<1> QED BY <1>1, <1>2, ToolsInit, ToolsNext, KnownToolsNext, PTL DEF Spec

-----------------------------------------------------------------------------
(* The informer and the queue of the pods. *)
LEMMA SamePodInformer ==
    /\ PodInformer!InformerTypeOK <=> P!InformerTypeOK
    /\ PodInformer!Start <=> P!Start
    /\ PodInformer!Restart <=> P!Restart
    /\ PodInformer!Relist <=> P!Relist
    /\ PodInformer!Deliver <=> P!Deliver
    /\ PodNote = P!Note
    /\ \A p \in Pods : /\ PodInformer!Observe(p) <=> P!Observe(p)
                       /\ PodInformer!Resync(p) <=> P!Resync(p)
BY DEF PodInformer!InformerTypeOK, P!InformerTypeOK, PodInformer!Start, P!Start,
       PodInformer!Restart, P!Restart, PodInformer!Relist, P!Relist,
       PodInformer!Deliver, P!Deliver, PodNote, PodInformer!Note, P!Note,
       PodInformer!Observe, P!Observe, PodInformer!Resync, P!Resync,
       PodInformer!State, P!State, PodInformer!Notes, P!Notes,
       PodInformer!Nothing, P!Nothing, PodInformer!Existing, P!Existing,
       PodInformer!Listed, P!Listed, PodInformer!Relisted, P!Relisted,
       PodInformer!MayHaveReached, P!MayHaveReached, PodInformer!Deletion, P!Deletion

LEMMA SamePodWrite ==
    ASSUME NEW p \in Pods, NEW o
    PROVE  PodInformer!ServerWrite(p, o) <=> P!ServerWrite(p, o)
BY DEF PodInformer!ServerWrite, P!ServerWrite

(* The methods of workqueuePods keep it well typed. *)
LEMMA PodQueueMethods ==
    ASSUME workqueuePods \in PodQueue!Queues
    PROVE  /\ \A p \in Pods :
                 /\ PodQueue!Add(workqueuePods, p) \in PodQueue!Queues
                 /\ PodQueue!Forget(workqueuePods, p) \in PodQueue!Queues
                 /\ PodQueue!Done(workqueuePods, p) \in PodQueue!Queues
           /\ PodQueue!CanGet(workqueuePods) =>
                 /\ Head(workqueuePods.queue) \in Pods
                 /\ PodQueue!Get(workqueuePods) \in PodQueue!Queues
<1>1. PodQueue!Queues = V!Queues
  BY DEF PodQueue!Queues, V!Queues
<1>2. \A p \in Pods : V!Add(workqueuePods, p) \in V!Queues
  BY <1>1, V!AddTyped, PbtAssumption
<1>3. \A p \in Pods : V!Forget(workqueuePods, p) \in V!Queues /\ V!Done(workqueuePods, p) \in V!Queues
  BY <1>1, V!MethodsTyped, PbtAssumption
<1>4. V!CanGet(workqueuePods) =>
          Head(workqueuePods.queue) \in Pods /\ V!Get(workqueuePods) \in V!Queues
  BY <1>1, V!GetTyped, PbtAssumption
<1>5. \A p : /\ PodQueue!Add(workqueuePods, p) = V!Add(workqueuePods, p)
             /\ PodQueue!Forget(workqueuePods, p) = V!Forget(workqueuePods, p)
             /\ PodQueue!Done(workqueuePods, p) = V!Done(workqueuePods, p)
  BY DEF PodQueue!Add, V!Add, PodQueue!Forget, V!Forget, PodQueue!Done, V!Done
<1>6. /\ PodQueue!CanGet(workqueuePods) <=> V!CanGet(workqueuePods)
      /\ PodQueue!Get(workqueuePods) = V!Get(workqueuePods)
  BY DEF PodQueue!CanGet, V!CanGet, PodQueue!Get, V!Get
<1> QED BY <1>1, <1>2, <1>3, <1>4, <1>5, <1>6

LEMMA PodQueueStartsTyped == PodQueue!NewQueue \in PodQueue!Queues
BY DEF PodQueue!NewQueue, PodQueue!Queues

-----------------------------------------------------------------------------
(* The invariant behind the types of the pods' half: a worker past its     *)
(* lookup has checks left when it polls, and has a key and an entry when   *)
(* it uses them.                                                           *)
PodControllerTypeOK ==
    /\ podScan \in (SUBSET Labels) \cup {NoPod}
    /\ workqueuePods \in PodQueue!Queues
    /\ podAt \in [PodWorkers -> PodPhases]
    /\ podKey \in [PodWorkers -> Pods \cup {NoPod}]
    /\ podLeft \in [PodWorkers -> SUBSET Labels]
    /\ podPolls \in [PodWorkers -> 0..MaxPolls]
    /\ podEntry \in [PodWorkers -> Entries \cup {NoPod}]
    /\ podRead \in [PodWorkers -> Nat]
    /\ \A w \in PodWorkers :
           /\ podAt[w] # "idle" => podKey[w] # NoPod
           /\ podAt[w] \in {"idle", "lookup"} => podPolls[w] = 0
           /\ podAt[w] = "poll" => podPolls[w] < MaxPolls
           /\ podAt[w] \in {"getEc", "putEc"} => podEntry[w] # NoPod

PodHistoryTypeOK ==
    /\ podVersion \in [Pods -> Nat]
    /\ worn \in [Pods -> SUBSET Labels]

PodInformerOK ==
    /\ P!InformerInv /\ P!UnseenLeadsToServer
    /\ P!Alternates /\ P!NotesMakeSense /\ P!TombstonesDelete

PodInv == PodInformerOK /\ PodControllerTypeOK /\ PodHistoryTypeOK

(* What a step does to the informer of pods: a step of its own, something  *)
(* that happens to a pod, or the one write of the controller.              *)
PodStored(p, o) ==
    /\ P!ServerWrite(p, o) /\ o \in PodObjects
    /\ podVersion' = [podVersion EXCEPT ![p] = @ + 1]

PodQuiet == P!InformerStep /\ UNCHANGED <<podVersion, worn>>

PodGoes(p) == P!ServerWrite(p, NoPod) /\ UNCHANGED <<podVersion, worn>>

(* Others do not put the controller's containers into a pod. *)
PodChangedTo(p, o) ==
    /\ PodStored(p, o)
    /\ worn' = [worn EXCEPT ![p] = @ \cup o.labels]
    /\ \A e \in o.ephs :
           e.by = "ephemeral-" => podServer[p] # NoPod /\ e \in podServer[p].ephs

WorkerPuts(w, o) ==
    /\ podAt[w] = "putEc" /\ podServer[podKey[w]] # NoPod
    /\ PodStored(podKey[w], o) /\ UNCHANGED worn
    /\ o.labels = podServer[podKey[w]].labels /\ o.ephs = {Injected(w)}

LEMMA StorePodStores ==
    ASSUME PodInv, NEW p \in Pods, NEW o \in PodObjects, StorePod(p, o)
    PROVE  \E stored \in PodObjects :
               PodStored(p, stored) /\ stored.labels = o.labels /\ stored.ephs = o.ephs
<1> DEFINE stored == [o EXCEPT !.rv = podVersion[p] + 1]
<1>1. podVersion[p] \in Nat
  BY DEF PodInv, PodHistoryTypeOK
<1>2. stored \in PodObjects /\ stored.labels = o.labels /\ stored.ephs = o.ephs
  BY <1>1 DEF PodObjects
<1>3. PodInformer!ServerWrite(p, stored) /\ podVersion' = [podVersion EXCEPT ![p] = @ + 1]
  BY DEF StorePod
<1> HIDE DEF stored
<1>4. PodStored(p, stored)
  BY <1>2, <1>3, SamePodWrite DEF PodStored
<1> QED BY <1>2, <1>4

LEMMA NewPodsArePods ==
    NewPods \subseteq PodObjects /\ \A o \in NewPods : o.ephs = {}
<1> SUFFICES ASSUME NEW o \in NewPods PROVE o \in PodObjects /\ o.ephs = {}
  OBVIOUS
<1>1. PICK ls \in PodLabelSets, b \in BOOLEAN :
          o = [labels |-> ls, ready |-> b, ephs |-> {}, rv |-> 0]
  BY DEF NewPods
<1>2. ls \in SUBSET Labels
  BY PodAssumption
<1> QED BY <1>1, <1>2 DEF PodObjects

(* The outcomes of PodChanges are pods, and bring no container "by         *)
(* ephemeral-" that was not there.                                         *)
LEMMA ChangesArePods ==
    ASSUME PodInv, NEW p \in Pods, NEW change \in PodChanges(p)
    PROVE  /\ change.pod \in PodObjects
           /\ \A e \in change.pod.ephs :
                  e.by = "ephemeral-" => podServer[p] # NoPod /\ e \in podServer[p].ephs
<1>1. podServer[p] \in PodObjects \cup {NoPod}
  BY DEF PodInv, PodInformerOK, P!InformerInv, P!InformerTypeOK, P!State
<1>2. CASE podServer[p] = NoPod
  <2>1. change \in [kind : {"created"}, pod : NewPods]
    BY <1>2 DEF PodChanges
  <2>2. change.pod \in NewPods
    BY <2>1
  <2> QED BY <2>2, NewPodsArePods
<1>3. CASE podServer[p] # NoPod
  <2> DEFINE o == podServer[p]
             flipped == [o EXCEPT !.ready = ~@]
             relabelled(ls) == [o EXCEPT !.labels = ls]
             debugged(e) == [o EXCEPT !.ephs = @ \cup {e}]
  <2>1. /\ o \in PodObjects /\ o.labels \in SUBSET Labels /\ o.ephs \in SUBSET Ephs
        /\ o.ready \in BOOLEAN
    BY <1>1, <1>3 DEF PodObjects
  <2>2. flipped \in PodObjects /\ flipped.ephs = o.ephs
    BY <2>1 DEF PodObjects
  <2>3. ASSUME NEW ls \in PodLabelSets
        PROVE  relabelled(ls) \in PodObjects /\ relabelled(ls).ephs = o.ephs
    <3>1. ls \in SUBSET Labels
      BY PodAssumption
    <3> QED BY <2>1, <3>1 DEF PodObjects
  <2>4. ASSUME NEW e \in [by : {"user-"}, image : Images]
        PROVE  /\ debugged(e) \in PodObjects
               /\ debugged(e).ephs = o.ephs \cup {e} /\ e.by # "ephemeral-"
    <3>1. e \in Ephs /\ e.by = "user-"
      BY DEF Ephs
    <3>2. o.ephs \cup {e} \in SUBSET Ephs
      BY <2>1, <3>1
    <3>3. debugged(e) \in PodObjects /\ debugged(e).ephs = o.ephs \cup {e}
      BY <2>1, <3>2 DEF PodObjects
    <3>4. e.by # "ephemeral-"
      BY <3>1
    <3> QED BY <3>3, <3>4
  <2>5. \/ change = [kind |-> "readiness", pod |-> flipped]
        \/ \E ls \in PodLabelSets : change = [kind |-> "relabelled", pod |-> relabelled(ls)]
        \/ \E e \in [by : {"user-"}, image : Images] :
               change = [kind |-> "debugged", pod |-> debugged(e)]
    BY <1>3 DEF PodChanges
  <2> HIDE DEF flipped, relabelled, debugged
  <2>6. CASE change = [kind |-> "readiness", pod |-> flipped]
    <3>1. change.pod = flipped
      BY <2>6
    <3> QED BY <1>3, <2>2, <3>1
  <2>7. ASSUME NEW ls \in PodLabelSets, change = [kind |-> "relabelled", pod |-> relabelled(ls)]
        PROVE  change.pod \in PodObjects /\ change.pod.ephs = o.ephs
    <3>1. change.pod = relabelled(ls)
      BY <2>7
    <3> QED BY <2>3, <3>1
  <2>8. ASSUME NEW e \in [by : {"user-"}, image : Images],
               change = [kind |-> "debugged", pod |-> debugged(e)]
        PROVE  /\ change.pod \in PodObjects
               /\ change.pod.ephs = o.ephs \cup {e} /\ e.by # "ephemeral-"
    <3>1. change.pod = debugged(e)
      BY <2>8
    <3> QED BY <2>4, <3>1
  <2> QED BY <1>3, <2>5, <2>6, <2>7, <2>8
<1> QED BY <1>2, <1>3

LEMMA EventMoves ==
    ASSUME PodInv, PodEvent
    PROVE  \E p \in Pods : PodGoes(p) \/ \E o \in PodObjects : PodChangedTo(p, o)
<1>1. PICK p \in Pods : PodIsDeleted(p) \/ \E change \in PodChanges(p) : PodChangesTo(p, change)
  BY DEF PodEvent
<1>2. CASE PodIsDeleted(p)
  <2>1. PodGoes(p)
    BY <1>2, SamePodWrite DEF PodIsDeleted, PodGoes
  <2> QED BY <2>1
<1>3. ASSUME NEW change \in PodChanges(p), PodChangesTo(p, change)
      PROVE  \E o \in PodObjects : PodChangedTo(p, o)
  <2>1. change.pod \in PodObjects
    BY ChangesArePods
  <2>2. StorePod(p, change.pod) /\ worn' = [worn EXCEPT ![p] = @ \cup change.pod.labels]
    BY <1>3 DEF PodChangesTo
  <2>3. PICK stored \in PodObjects :
            /\ PodStored(p, stored)
            /\ stored.labels = change.pod.labels /\ stored.ephs = change.pod.ephs
    BY <2>1, <2>2, StorePodStores
  <2>4. PodChangedTo(p, stored)
    BY <2>2, <2>3, ChangesArePods DEF PodChangedTo
  <2> QED BY <2>4
<1> QED BY <1>1, <1>2, <1>3

LEMMA PutMoves ==
    ASSUME PodInv, NEW w \in PodWorkers, PutEphs(w)
    PROVE  PodQuiet \/ \E o \in PodObjects : WorkerPuts(w, o)
<1>1. /\ podAt[w] = "putEc" /\ podKey[w] \in Pods
      /\ podEntry[w] \in Entries
      /\ UNCHANGED worn
      /\ podServer \in [Pods -> P!State]
  BY DEF PutEphs, PodGoto, PodInv, PodControllerTypeOK, PodInformerOK, P!InformerInv, P!InformerTypeOK
<1> DEFINE o == [podServer[podKey[w]] EXCEPT !.ephs = NewList(w)]
<1>2. \/ UNCHANGED <<podInformerVars, podVersion>>
      \/ podServer[podKey[w]] # NoPod /\ StorePod(podKey[w], o)
  BY DEF PutEphs, PutAccepted, ApplyPut
<1>3. CASE UNCHANGED <<podInformerVars, podVersion>>
  BY <1>1, <1>3 DEF PodQuiet, P!InformerStep, P!informerVars, podInformerVars
<1>4. CASE podServer[podKey[w]] # NoPod /\ StorePod(podKey[w], o)
  <2>1. podServer[podKey[w]] \in PodObjects
    BY <1>1, <1>4 DEF P!State
  <2>2. Injected(w) \in Ephs
    BY <1>1 DEF Injected, Ephs, Entries
  <2>3. o \in PodObjects /\ o.labels = podServer[podKey[w]].labels /\ o.ephs = {Injected(w)}
    BY <2>1, <2>2 DEF PodObjects, NewList
  <2> HIDE DEF o
  <2>4. PICK stored \in PodObjects :
            PodStored(podKey[w], stored) /\ stored.labels = o.labels /\ stored.ephs = o.ephs
    BY <1>1, <1>4, <2>3, StorePodStores
  <2>5. WorkerPuts(w, stored)
    BY <1>1, <1>4, <2>3, <2>4 DEF WorkerPuts
  <2> QED BY <2>5
<1> QED BY <1>2, <1>3, <1>4

LEMMA PodMoves ==
    ASSUME PodInv, [Next]_vars
    PROVE  \/ PodQuiet
           \/ \E p \in Pods : PodGoes(p) \/ \E o \in PodObjects : PodChangedTo(p, o)
           \/ \E w \in PodWorkers, o \in PodObjects : WorkerPuts(w, o)
<1>1. ASSUME UNCHANGED <<podInformerVars, podVersion, worn>> PROVE PodQuiet
  BY <1>1 DEF PodQuiet, P!InformerStep, P!informerVars, podInformerVars
<1>2. CASE PbtSide \/ UNCHANGED vars
  BY <1>1, <1>2 DEF PbtSide, podVars, vars
<1>3. CASE Panics \/ Killed
  BY <1>3, SamePodInformer DEF Panics, Killed, PodRestart, PodQuiet, P!InformerStep
<1>4. CASE PodEvent
  BY <1>4, EventMoves
<1>5. CASE PodHandlers
  BY <1>1, <1>5, SamePodInformer
  DEF PodHandlers, BeginScan, ScanLabel, EndScan, ForgetPod, PodQuiet, P!InformerStep
<1>6. CASE RelistPods
  BY <1>6, SamePodInformer DEF RelistPods, PodControllerVars, PodQuiet, P!InformerStep
<1>7. ASSUME NEW p \in Pods, ObservePod(p) \/ ResyncPod(p) PROVE PodQuiet
  BY <1>7, SamePodInformer
  DEF ObservePod, ResyncPod, PodControllerVars, PodQuiet, P!InformerStep
<1>8. ASSUME NEW w \in PodWorkers, PodWorker(w)
      PROVE  PodQuiet \/ \E o \in PodObjects : WorkerPuts(w, o)
  <2>1. CASE PutEphs(w)
    BY <2>1, PutMoves
  <2>2. CASE ~PutEphs(w)
    BY <1>1, <1>8, <2>2
    DEF PodWorker, TakePod, LookUpPod, GivesUp, Polls, FetchPod, MatchLabel, ReadEphs,
        PutFails, SettlePod, FinishPod, OnlyMoves
  <2> QED BY <2>1, <2>2
<1> QED BY <1>2, <1>3, <1>4, <1>5, <1>6, <1>7, <1>8 DEF Next, PodSide

-----------------------------------------------------------------------------
(* The types are kept. *)
LEMMA PodInformerNext ==
    ASSUME PodInv, [Next]_vars
    PROVE  PodInformerOK'
<1>1. [P!InformerNext]_(P!informerVars)
  BY PodMoves
  DEF PodQuiet, PodGoes, PodChangedTo, WorkerPuts, PodStored, P!InformerNext,
      P!InformerStep, P!State, PodInv, PodControllerTypeOK
<1>2. P!InformerInv'
  BY <1>1, P!InformerInvNext, PodAssumption DEF PodInv, PodInformerOK
<1>3. P!UnseenLeadsToServer' /\ P!Alternates' /\ P!NotesMakeSense' /\ P!TombstonesDelete'
  BY <1>1, P!ReachedNext, P!AlternatesNext, P!NotesMakeSenseNext, P!TombstonesNext, PodAssumption
  DEF PodInv, PodInformerOK, P!InformerInv
<1> QED BY <1>2, <1>3 DEF PodInformerOK

LEMMA PodHistoryTyped ==
    ASSUME PodInv, [Next]_vars
    PROVE  PodHistoryTypeOK'
<1>1. podVersion \in [Pods -> Nat] /\ worn \in [Pods -> SUBSET Labels]
  BY DEF PodInv, PodHistoryTypeOK
<1>2. \A o \in PodObjects : o.labels \in SUBSET Labels
  BY DEF PodObjects
<1>3. CASE PodQuiet
  BY <1>1, <1>3 DEF PodQuiet, PodHistoryTypeOK
<1>4. ASSUME NEW p \in Pods, PodGoes(p) PROVE PodHistoryTypeOK'
  BY <1>1, <1>4 DEF PodGoes, PodHistoryTypeOK
<1>5. ASSUME NEW p \in Pods, NEW o \in PodObjects, PodChangedTo(p, o)
      PROVE  PodHistoryTypeOK'
  BY <1>1, <1>2, <1>5 DEF PodChangedTo, PodStored, PodHistoryTypeOK
<1>6. ASSUME NEW w \in PodWorkers, NEW o \in PodObjects, WorkerPuts(w, o)
      PROVE  PodHistoryTypeOK'
  <2>1. podVersion' = [podVersion EXCEPT ![podKey[w]] = @ + 1] /\ UNCHANGED worn
    BY <1>6 DEF WorkerPuts, PodStored
  <2>2. podKey[w] \in Pods
    BY <1>6 DEF WorkerPuts, PodInv, PodControllerTypeOK
  <2>3. podVersion[podKey[w]] + 1 \in Nat
    BY <1>1, <2>2
  <2> QED BY <1>1, <2>1, <2>2, <2>3 DEF PodHistoryTypeOK
<1> QED BY <1>3, <1>4, <1>5, <1>6, PodMoves

(* The oldest notification is of a pod; added and updated pods exist.      *)
LEMMA PodNotes ==
    ASSUME PodInv, podPending # <<>>
    PROVE  /\ PodNote.key \in Pods
           /\ PodNoteIs("add") \/ PodNoteIs("update") => PodNote.new \in PodObjects
<1>1. P!Note \in P!Notes
  BY P!NoteTells, PodAssumption DEF PodInv, PodInformerOK, P!InformerInv
<1>2. PodNote.key \in Pods /\ PodNote.new \in PodObjects \cup {NoPod}
  BY <1>1, SamePodInformer DEF P!Notes, P!State
<1>3. PodNoteIs("add") \/ PodNoteIs("update") => PodNote.new # NoPod
  BY DEF PodNoteIs, PodInformer!NoteIs, PodNote
<1> QED BY <1>2, <1>3

LEMMA PodHandlersTyped ==
    ASSUME PodInv, PodHandlers
    PROVE  /\ podScan' \in (SUBSET Labels) \cup {NoPod}
           /\ workqueuePods' \in PodQueue!Queues
           /\ UNCHANGED podWorkerVars
<1>1. podScan \in (SUBSET Labels) \cup {NoPod} /\ workqueuePods \in PodQueue!Queues
  BY DEF PodInv, PodControllerTypeOK
<1>2. podPending # <<>> => PodNote.key \in Pods
  BY PodNotes
<1>3. CASE BeginScan
  <2>1. PodNote.new \in PodObjects
    BY <1>3, PodNotes DEF BeginScan, PodNoteIs, PodInformer!NoteIs
  <2>2. PodNote.new.labels \in SUBSET Labels
    BY <2>1 DEF PodObjects
  <2> QED BY <1>1, <1>3, <2>2 DEF BeginScan
<1>4. ASSUME NEW l \in Labels, ScanLabel(l)
      PROVE  /\ podScan' \in (SUBSET Labels) \cup {NoPod}
             /\ workqueuePods' \in PodQueue!Queues
             /\ UNCHANGED podWorkerVars
  <2>1. CASE MustAdd(PodNote.new, l)
    <3>1. podPending # <<>>
      BY <1>4, <2>1 DEF ScanLabel, PodInformer!Deliver
    <3> QED BY <1>1, <1>2, <1>4, <2>1, <3>1, PodQueueMethods DEF ScanLabel
  <2>2. CASE ~MustAdd(PodNote.new, l)
    BY <1>1, <1>4, <2>2 DEF ScanLabel
  <2> QED BY <2>1, <2>2
<1>5. CASE EndScan \/ ForgetPod
  BY <1>1, <1>5 DEF EndScan, ForgetPod
<1> QED BY <1>3, <1>4, <1>5 DEF PodHandlers

(* What a worker keeps to itself, and what it has when it needs it. *)
PodWorkerTypeOK(w) ==
    /\ podAt[w] \in PodPhases
    /\ podKey[w] \in Pods \cup {NoPod}
    /\ podLeft[w] \in SUBSET Labels
    /\ podPolls[w] \in 0..MaxPolls
    /\ podEntry[w] \in Entries \cup {NoPod}
    /\ podRead[w] \in Nat
    /\ podAt[w] # "idle" => podKey[w] # NoPod
    /\ podAt[w] \in {"idle", "lookup"} => podPolls[w] = 0
    /\ podAt[w] = "poll" => podPolls[w] < MaxPolls
    /\ podAt[w] \in {"getEc", "putEc"} => podEntry[w] # NoPod

(* A step of worker w changes only what is its own. *)
LEMMA OwnStep ==
    ASSUME PodInv, NEW w \in PodWorkers, PodWorker(w)
    PROVE  /\ podAt' = [podAt EXCEPT ![w] = podAt'[w]]
           /\ podKey' = [podKey EXCEPT ![w] = podKey'[w]]
           /\ podLeft' = [podLeft EXCEPT ![w] = podLeft'[w]]
           /\ podPolls' = [podPolls EXCEPT ![w] = podPolls'[w]]
           /\ podEntry' = [podEntry EXCEPT ![w] = podEntry'[w]]
           /\ podRead' = [podRead EXCEPT ![w] = podRead'[w]]
<1>1. /\ podAt \in [PodWorkers -> PodPhases]
      /\ podKey \in [PodWorkers -> Pods \cup {NoPod}]
      /\ podLeft \in [PodWorkers -> SUBSET Labels]
      /\ podPolls \in [PodWorkers -> 0..MaxPolls]
      /\ podEntry \in [PodWorkers -> Entries \cup {NoPod}]
      /\ podRead \in [PodWorkers -> Nat]
  BY DEF PodInv, PodControllerTypeOK
<1>2. CASE TakePod(w) \/ LookUpPod(w) \/ GivesUp(w) \/ Polls(w) \/ FetchPod(w)
  BY <1>1, <1>2 DEF TakePod, LookUpPod, GivesUp, Polls, FetchPod, OnlyMoves, PodGoto
<1>3. ASSUME NEW l \in Labels, MatchLabel(w, l)
      PROVE  /\ podAt' = [podAt EXCEPT ![w] = podAt'[w]]
             /\ podLeft' = [podLeft EXCEPT ![w] = podLeft'[w]]
             /\ podEntry' = [podEntry EXCEPT ![w] = podEntry'[w]]
             /\ UNCHANGED <<podKey, podPolls, podRead>>
  BY <1>1, <1>3 DEF MatchLabel, PodGoto
<1>4. CASE ReadEphs(w) \/ PutEphs(w) \/ PutFails(w) \/ SettlePod(w) \/ FinishPod(w)
  BY <1>1, <1>4 DEF ReadEphs, PutEphs, PutFails, SettlePod, FinishPod, OnlyMoves, PodGoto
<1> QED BY <1>1, <1>2, <1>3, <1>4 DEF PodWorker

LEMMA PodWorkerTyped ==
    ASSUME PodInv, PbtInv, NEW w \in PodWorkers, PodWorker(w)
    PROVE  /\ PodWorkerTypeOK(w)'
           /\ workqueuePods' \in PodQueue!Queues
           /\ UNCHANGED podScan
<1>1. /\ podAt \in [PodWorkers -> PodPhases]
      /\ podKey \in [PodWorkers -> Pods \cup {NoPod}]
      /\ podLeft \in [PodWorkers -> SUBSET Labels]
      /\ podPolls \in [PodWorkers -> 0..MaxPolls]
      /\ podEntry \in [PodWorkers -> Entries \cup {NoPod}]
      /\ podRead \in [PodWorkers -> Nat]
      /\ workqueuePods \in PodQueue!Queues
      /\ PodWorkerTypeOK(w)
      /\ MaxPolls \in Nat \ {0}
  BY PodAssumption DEF PodInv, PodControllerTypeOK, PodWorkerTypeOK
<1>2. /\ podStore \in [Pods -> PodObjects \cup {NoPod}]
      /\ podServer \in [Pods -> PodObjects \cup {NoPod}]
      /\ mapPbtool \in [Labels -> Entries \cup {NoTool}]
      /\ NoPod \notin Entries /\ NoPod \notin Pods
  BY PodAssumption
  DEF PodInv, PodInformerOK, P!InformerInv, P!InformerTypeOK, P!State, PbtInv, ControllerTypeOK
<1>3. CASE TakePod(w)
  <2>1. Head(workqueuePods.queue) \in Pods /\ workqueuePods' \in PodQueue!Queues
    BY <1>1, <1>3, PodQueueMethods DEF TakePod
  <2> QED BY <1>1, <1>2, <1>3, <2>1 DEF TakePod, PodGoto, PodWorkerTypeOK, PodPhases
<1>4. CASE LookUpPod(w)
  <2>1. podStore[podKey[w]] # NoPod => podStore[podKey[w]].labels \in SUBSET Labels
    <3>1. podKey[w] \in Pods
      BY <1>1, <1>4 DEF LookUpPod, PodGoto, PodWorkerTypeOK
    <3> QED BY <1>2, <3>1 DEF PodObjects
  <2> QED BY <1>1, <1>4, <2>1 DEF LookUpPod, PodGoto, PodWorkerTypeOK, PodPhases
<1>5. CASE Polls(w)
  BY <1>1, <1>5 DEF Polls, PodGoto, OnlyMoves, PodWorkerTypeOK, PodPhases
<1>6. CASE GivesUp(w) \/ FetchPod(w) \/ PutFails(w)
  BY <1>1, <1>6 DEF GivesUp, FetchPod, PutFails, PodGoto, OnlyMoves, PodWorkerTypeOK, PodPhases
<1>7. ASSUME NEW l \in Labels, MatchLabel(w, l)
      PROVE  PodWorkerTypeOK(w)' /\ UNCHANGED <<workqueuePods, podScan>>
  <2>1. mapPbtool[l] # NoTool => mapPbtool[l] \in Entries /\ mapPbtool[l] # NoPod
    BY <1>2
  <2> QED BY <1>1, <1>7, <2>1 DEF MatchLabel, PodGoto, PodWorkerTypeOK, PodPhases
<1>8. CASE ReadEphs(w)
  <2>1. podServer[podKey[w]].rv \in Nat
    <3>1. podKey[w] \in Pods
      BY <1>1, <1>8 DEF ReadEphs, PodGoto, PodWorkerTypeOK
    <3> QED BY <1>2, <1>8, <3>1 DEF ReadEphs, PodObjects
  <2> QED BY <1>1, <1>8, <2>1 DEF ReadEphs, PodGoto, PodWorkerTypeOK, PodPhases
<1>9. CASE PutEphs(w)
  BY <1>1, <1>9 DEF PutEphs, PodGoto, PodWorkerTypeOK, PodPhases
<1>10. CASE SettlePod(w) \/ FinishPod(w)
  <2>1. podKey[w] \in Pods
    BY <1>1, <1>10 DEF SettlePod, FinishPod, PodGoto, PodWorkerTypeOK
  <2>2. workqueuePods' \in PodQueue!Queues
    BY <1>1, <1>10, <2>1, PodQueueMethods DEF SettlePod, FinishPod
  <2> QED
    BY <1>1, <1>10, <2>2 DEF SettlePod, FinishPod, PodGoto, PodWorkerTypeOK, PodPhases
<1> QED BY <1>1, <1>3, <1>4, <1>5, <1>6, <1>7, <1>8, <1>9, <1>10 DEF PodWorker

LEMMA PodTypesNext ==
    ASSUME PodInv, PbtInv, [Next]_vars
    PROVE  PodControllerTypeOK'
<1>1. PodControllerTypeOK
  BY DEF PodInv
<1>2. ASSUME UNCHANGED podWorkerVars, workqueuePods' \in PodQueue!Queues,
             podScan' \in (SUBSET Labels) \cup {NoPod}
      PROVE  PodControllerTypeOK'
  BY <1>1, <1>2 DEF podWorkerVars, PodControllerTypeOK
<1>3. ASSUME UNCHANGED <<podWorkerVars, workqueuePods, podScan>>
      PROVE  PodControllerTypeOK'
  BY <1>1, <1>2, <1>3 DEF PodControllerTypeOK
<1>4. CASE PbtSide \/ UNCHANGED vars
  BY <1>3, <1>4 DEF PbtSide, podVars, vars
<1>5. CASE Panics \/ Killed
  <2>1. PodRestart /\ MaxPolls \in Nat
    BY <1>5, PodAssumption DEF Panics, Killed
  <2> QED
    BY <2>1, PodQueueStartsTyped DEF PodRestart, PodControllerTypeOK, PodPhases
<1>6. CASE PodEvent \/ RelistPods
  BY <1>3, <1>6
  DEF PodEvent, PodIsDeleted, PodChangesTo, RelistPods, PodControllerVars
<1>7. ASSUME NEW p \in Pods, ObservePod(p) \/ ResyncPod(p)
      PROVE  PodControllerTypeOK'
  BY <1>3, <1>7 DEF ObservePod, ResyncPod, PodControllerVars
<1>8. CASE PodHandlers
  BY <1>2, <1>8, PodHandlersTyped
<1>9. ASSUME NEW w \in PodWorkers, PodWorker(w)
      PROVE  PodControllerTypeOK'
  <2>1. PodWorkerTypeOK(w)' /\ workqueuePods' \in PodQueue!Queues /\ UNCHANGED podScan
    BY <1>9, PodWorkerTyped
  <2>2. /\ podAt' \in [PodWorkers -> PodPhases]
        /\ podKey' \in [PodWorkers -> Pods \cup {NoPod}]
        /\ podLeft' \in [PodWorkers -> SUBSET Labels]
        /\ podPolls' \in [PodWorkers -> 0..MaxPolls]
        /\ podEntry' \in [PodWorkers -> Entries \cup {NoPod}]
        /\ podRead' \in [PodWorkers -> Nat]
    BY <1>1, <1>9, <2>1, OwnStep DEF PodControllerTypeOK, PodWorkerTypeOK
  <2>3. ASSUME NEW v \in PodWorkers
        PROVE  /\ podAt'[v] # "idle" => podKey'[v] # NoPod
               /\ podAt'[v] \in {"idle", "lookup"} => podPolls'[v] = 0
               /\ podAt'[v] = "poll" => podPolls'[v] < MaxPolls
               /\ podAt'[v] \in {"getEc", "putEc"} => podEntry'[v] # NoPod
    <3>1. CASE v = w
      BY <2>1, <3>1 DEF PodWorkerTypeOK
    <3>2. CASE v # w
      <4>1. /\ podAt'[v] = podAt[v] /\ podKey'[v] = podKey[v]
            /\ podPolls'[v] = podPolls[v] /\ podEntry'[v] = podEntry[v]
        BY <1>1, <1>9, <3>2, OwnStep DEF PodControllerTypeOK
      <4> QED BY <1>1, <4>1 DEF PodControllerTypeOK
    <3> QED BY <3>1, <3>2
  <2> QED BY <1>1, <2>1, <2>2, <2>3 DEF PodControllerTypeOK
<1> QED BY <1>4, <1>5, <1>6, <1>7, <1>8, <1>9 DEF Next, PodSide

LEMMA PodInvNext == PbtInv /\ PodInv /\ [Next]_vars => PodInv'
BY PodInformerNext, PodHistoryTyped, PodTypesNext DEF PodInv

LEMMA PodsStart == Init => podServer \in [Pods -> PodObjects \cup {NoPod}]
BY NewPodsArePods DEF Init, PodInit

LEMMA PodInvInit == Init => PodInv
<1> SUFFICES ASSUME Init PROVE PodInv
  OBVIOUS
<1>1. podServer \in [Pods -> P!State] /\ P!Start
  BY PodsStart, SamePodInformer DEF Init, PodInit, P!State
<1>2. PodInformerOK
  BY <1>1, P!StartInv, P!StartReached, P!StartMakesSense, P!StartTombstones, PodAssumption
  DEF PodInformerOK
<1>3. PodControllerTypeOK
  BY PodQueueStartsTyped, PodAssumption
  DEF Init, PodInit, PodControllerTypeOK, PodPhases
<1>4. PodHistoryTypeOK
  <2>1. \A p \in Pods : WornNow(p) \in SUBSET Labels
    BY PodsStart DEF WornNow, PodObjects
  <2> QED BY <2>1 DEF Init, PodInit, PodHistoryTypeOK
<1> QED BY <1>2, <1>3, <1>4 DEF PodInv

(* No worker injects an entry it did not find, none polls more often than  *)
(* its timeout allows, and every variable stays in its type, however long  *)
(* the controller runs and however often it dies.                          *)
THEOREM PodTypesHold == Spec => []PodTypeOK
<1>1. PodInv => PodTypeOK
  BY SamePodInformer DEF PodInv, PodInformerOK, P!InformerInv, PodControllerTypeOK, PodTypeOK
<1> QED BY <1>1, ToolsInit, ToolsNext, PodInvInit, PodInvNext, PTL DEF Spec

-----------------------------------------------------------------------------
(* Why what is injected was once offered: whatever is stale anywhere in    *)
(* the controller was once true of the tools or of the pod.                *)
ToolsWereOffered ==
    /\ Offers \subseteq offered
    /\ \A t \in Tools : \A o \in Known(t) \ {NoTool} : <<o.label, o.image>> \in offered
    /\ \A l \in Labels : mapPbtool[l] # NoTool => <<l, mapPbtool[l].image>> \in offered

LabelsWereWorn ==
    \A p \in Pods : \A o \in P!Held(p) \ {NoPod} : o.labels \subseteq worn[p]

(* The labels a worker goes through, and the entry it found by one.        *)
WorkersFollow ==
    \A w \in PodWorkers :
        /\ podAt[w] = "idle" => podLeft[w] = {} /\ podEntry[w] = NoPod
        /\ podAt[w] # "idle" => podLeft[w] \subseteq worn[podKey[w]]
        /\ podEntry[w] # NoPod =>
               \E l \in worn[podKey[w]] : <<l, podEntry[w].image>> \in offered

OfferedInv == ToolsWereOffered /\ LabelsWereWorn /\ WorkersFollow /\ InjectedWasOffered

(* A step adds to what the tools' half knows of a tool only what the       *)
(* server then stores.                                                     *)
LEMMA KnownFromServer ==
    ASSUME PbtInv, [PbtStep]_pbtVars, NEW t \in Tools
    PROVE  Known(t)' \subseteq Known(t) \cup {pbtServer'[t]}
<1>1. I!InformerTypeOK /\ pbtServer \in [Tools -> I!State]
  BY DEF PbtInv, InformerOK, I!InformerTypeOK
<1>2. CASE Quiet
  <2>1. I!Held(t)' \subseteq I!Held(t)
    BY <1>1, <1>2, I!HeldShrinks, PbtAssumption DEF Quiet
  <2>2. I!Held(t)' \subseteq Known(t)
    BY <2>1 DEF Known
  <2>3. Known(t)' \subseteq Known(t)
    BY <2>2, KnownGrows
  <2> QED BY <2>3
<1>3. ASSUME NEW j \in Tools, NEW o, I!ServerWrite(j, o)
      PROVE  Known(t)' \subseteq Known(t) \cup {pbtServer'[t]}
  <2>1. j = t => o = pbtServer'[t]
    BY <1>1, <1>3 DEF I!ServerWrite
  <2>2. I!Held(t)' \subseteq IF j = t THEN I!Held(t) \cup {o} ELSE I!Held(t)
    BY <1>1, <1>3, I!HeldWrite, PbtAssumption
  <2> DEFINE S == Known(t) \cup {pbtServer'[t]}
  <2>3. I!Held(t)' \subseteq S /\ Known(t) \subseteq S
    BY <2>1, <2>2 DEF Known
  <2> HIDE DEF S
  <2>4. Known(t)' \subseteq S
    BY <2>3, KnownGrows
  <2> QED BY <2>4 DEF S
<1>4. ASSUME NEW w \in PbtWorkers, NEW o, WorkerWrites(w, o)
      PROVE  pbtKey[w] \in Tools /\ I!ServerWrite(pbtKey[w], o)
  BY <1>4 DEF WorkerWrites, Stored, PbtInv, ControllerTypeOK
<1> QED BY <1>2, <1>3, <1>4, Moves DEF UserWrites, Stored

(* A step adds to the pool only entries made of the note being handled.    *)
LEMMA PoolFromNotes ==
    ASSUME PbtInv, [PbtStep]_pbtVars, NEW l \in Labels, mapPbtool'[l] # NoTool
    PROVE  \/ mapPbtool'[l] = mapPbtool[l]
           \/ /\ Note.key \in Tools /\ Note.new \in Known(Note.key) \ {NoTool}
              /\ l = Note.new.label /\ mapPbtool'[l].image = Note.new.image
<1>1. mapPbtool \in [Labels -> Entries \cup {NoTool}]
  BY DEF PbtInv, ControllerTypeOK
<1>2. ASSUME NEW pdt, mapPbtool' = RemoveTargetLabel(mapPbtool, pdt)
      PROVE  mapPbtool'[l] = mapPbtool[l]
  BY <1>1, <1>2 DEF RemoveTargetLabel
<1>3. ASSUME EnqueuePodbuggertool, NoteIs("add") \/ NoteIs("update")
      PROVE  \/ mapPbtool'[l] = mapPbtool[l]
             \/ /\ Note.key \in Tools /\ Note.new \in Known(Note.key) \ {NoTool}
                /\ l = Note.new.label /\ mapPbtool'[l].image = Note.new.image
  <2>1. pbtPending # <<>> /\ Note.key \in Tools /\ Note.new # NoTool
    <3>1. pbtPending # <<>>
      BY <1>3 DEF NoteIs, PbtInformer!NoteIs
    <3>2. Note.key \in Tools /\ (NoteIs("add") \/ NoteIs("update") => Note.new # NoTool)
      BY <3>1, NoteKinds DEF PbtInv
    <3> QED BY <1>3, <3>1, <3>2
  <2>2. Note.new \in Known(Note.key)
    <3>1. /\ pbtPending \in Seq(I!Notes) /\ Note = pbtPending[1]
      BY <2>1 DEF PbtInv, InformerOK, I!InformerTypeOK, Note, PbtInformer!Note
    <3>2. 1 \in 1..Len(pbtPending)
      BY <2>1, <3>1
    <3> QED BY <3>1, <3>2 DEF Known, I!Held
  <2>3. mapPbtool' = CacheTargetLabel(mapPbtool, Note.key, Note.new)
    BY <1>3 DEF EnqueuePodbuggertool
  <2> QED BY <1>1, <2>1, <2>2, <2>3 DEF CacheTargetLabel
<1>4. CASE AddTool
  BY <1>3, <1>4 DEF AddTool
<1>5. CASE UpdateCaches
  BY <1>3, <1>5 DEF UpdateCaches, PbtInv, HandlerOK
<1>6. CASE UpdateRemoves \/ DeleteTool
  BY <1>2, <1>6 DEF UpdateRemoves, DeleteTool
<1>7. CASE Dying
  BY <1>7 DEF Dying, PbtDies, TombstonePanics, Crash, PbtRestart, EmptyPool
<1>8. CASE ~AddTool /\ ~UpdateCaches /\ ~UpdateRemoves /\ ~DeleteTool /\ ~Dying
  BY <1>8
  DEF PbtStep, PbtNext, PbtInside, PbtHandlers, IgnoreUpdate, PbtWorker, TakeTool, LookUpTool,
      UpdateSucceeds, UpdateRefused, UpdateFaults, RetryTool, SettleTool, FinishTool,
      ReceiveDelayedTool, ExpireTool, ObserveTool, ResyncTool, RelistTools, Dying, PbtUser,
      UserCreates, UserEdits, UserDeletes, PbtControllerVars, pbtVars
<1> QED BY <1>4, <1>5, <1>6, <1>7, <1>8

LEMMA OffersGrow ==
    ASSUME ToolsWereOffered, [Next]_vars
    PROVE  offered \subseteq offered' /\ Offers' \subseteq offered'
<1>1. CASE PbtSide
  BY <1>1 DEF PbtSide
<1>2. CASE ~PbtSide
  <2>1. UNCHANGED <<pbtServer, offered>>
    BY <1>2
    DEF Next, PodSide, Panics, Killed, PbtRestart, PbtInformer!Restart, pbtVars,
        pbtInformerVars, vars
  <2>2. Offers' = Offers
    BY <2>1 DEF Offers
  <2> QED BY <2>1, <2>2 DEF ToolsWereOffered
<1> QED BY <1>1, <1>2

LEMMA ToolsOfferedNext ==
    ASSUME PbtInv, ToolsWereOffered, [Next]_vars
    PROVE  ToolsWereOffered'
<1>1. offered \subseteq offered' /\ Offers' \subseteq offered' /\ [PbtStep]_pbtVars
  BY OffersGrow, PbtHalf
<1>2. ASSUME NEW t \in Tools, NEW o \in Known(t)' \ {NoTool}
      PROVE  <<o.label, o.image>> \in offered'
  <2>1. CASE o \in Known(t)
    BY <1>1, <1>2, <2>1 DEF ToolsWereOffered
  <2>2. CASE o = pbtServer'[t]
    <3>1. <<o.label, o.image>> \in Offers'
      BY <1>2, <2>2 DEF Offers
    <3> QED BY <1>1, <3>1
  <2> QED BY <1>1, <2>1, <2>2, KnownFromServer
<1>3. ASSUME NEW l \in Labels, mapPbtool'[l] # NoTool
      PROVE  <<l, mapPbtool'[l].image>> \in offered'
  BY <1>1, <1>3, PoolFromNotes DEF ToolsWereOffered
<1> QED BY <1>1, <1>2, <1>3 DEF ToolsWereOffered

LEMMA WornGrows ==
    ASSUME PodInv, [Next]_vars, NEW p \in Pods
    PROVE  worn[p] \subseteq worn'[p]
<1>1. worn \in [Pods -> SUBSET Labels]
  BY DEF PodInv, PodHistoryTypeOK
<1> QED BY <1>1, PodMoves DEF PodQuiet, PodGoes, PodChangedTo, WorkerPuts

LEMMA LabelsWornNext ==
    ASSUME PodInv, LabelsWereWorn, [Next]_vars
    PROVE  LabelsWereWorn'
<1>1. /\ P!InformerTypeOK /\ worn \in [Pods -> SUBSET Labels]
      /\ podServer \in [Pods -> PodObjects \cup {NoPod}]
  BY DEF PodInv, PodInformerOK, P!InformerInv, P!InformerTypeOK, P!State, PodHistoryTypeOK
<1>2. CASE PodQuiet
  <2>1. \A p \in Pods : P!Held(p)' \subseteq P!Held(p)
    BY <1>1, <1>2, P!HeldShrinks, PodAssumption DEF PodQuiet
  <2> QED BY <1>2, <2>1 DEF PodQuiet, LabelsWereWorn
<1>3. ASSUME NEW q \in Pods, NEW o, P!ServerWrite(q, o), o # NoPod => o.labels \subseteq worn'[q]
      PROVE  LabelsWereWorn'
  <2> SUFFICES ASSUME NEW p \in Pods, NEW h \in P!Held(p)' \ {NoPod}
               PROVE  h.labels \subseteq worn'[p]
    BY DEF LabelsWereWorn
  <2>1. P!Held(p)' \subseteq IF q = p THEN P!Held(p) \cup {o} ELSE P!Held(p)
    BY <1>1, <1>3, P!HeldWrite, PodAssumption
  <2>2. h \in P!Held(p) \ {NoPod} => h.labels \subseteq worn[p]
    BY DEF LabelsWereWorn
  <2> QED BY <1>3, <2>1, <2>2, WornGrows
<1>4. ASSUME NEW q \in Pods, PodGoes(q) PROVE LabelsWereWorn'
  BY <1>3, <1>4 DEF PodGoes
<1>5. ASSUME NEW q \in Pods, NEW o \in PodObjects, PodChangedTo(q, o) PROVE LabelsWereWorn'
  <2>1. o.labels \subseteq worn'[q]
    BY <1>1, <1>5 DEF PodChangedTo
  <2> QED BY <1>3, <1>5, <2>1 DEF PodChangedTo, PodStored
<1>6. ASSUME NEW w \in PodWorkers, NEW o \in PodObjects, WorkerPuts(w, o)
      PROVE  LabelsWereWorn'
  <2>1. podKey[w] \in Pods
    BY <1>6 DEF WorkerPuts, PodInv, PodControllerTypeOK
  <2>2. podServer[podKey[w]] \in P!Held(podKey[w]) \ {NoPod}
    BY <1>6 DEF P!Held, WorkerPuts
  <2>3. o.labels \subseteq worn'[podKey[w]]
    BY <1>6, <2>1, <2>2, WornGrows DEF WorkerPuts, LabelsWereWorn
  <2> QED BY <1>3, <1>6, <2>1, <2>3 DEF WorkerPuts, PodStored
<1> QED BY <1>2, <1>4, <1>5, <1>6, PodMoves

(* What one worker is to follow. *)
Follows(w) ==
    /\ podAt[w] = "idle" => podLeft[w] = {} /\ podEntry[w] = NoPod
    /\ podAt[w] # "idle" => podLeft[w] \subseteq worn[podKey[w]]
    /\ podEntry[w] # NoPod =>
           \E l \in worn[podKey[w]] : <<l, podEntry[w].image>> \in offered

LEMMA StillFollows ==
    ASSUME PodInv, ToolsWereOffered, [Next]_vars, NEW w \in PodWorkers, Follows(w),
           UNCHANGED <<podAt[w], podKey[w], podLeft[w], podEntry[w]>>
    PROVE  Follows(w)'
<1>1. offered \subseteq offered'
  BY OffersGrow
<1>2. podAt[w] # "idle" => worn[podKey[w]] \subseteq worn'[podKey[w]]
  BY WornGrows DEF PodInv, PodControllerTypeOK
<1>3. podEntry[w] # NoPod => podAt[w] # "idle"
  BY DEF Follows
<1> QED BY <1>1, <1>2, <1>3 DEF Follows

LEMMA FollowsOwnStep ==
    ASSUME PodInv, ToolsWereOffered, LabelsWereWorn, NEW w \in PodWorkers, Follows(w),
           PodWorker(w), UNCHANGED offered
    PROVE  Follows(w)'
<1>1. /\ podAt \in [PodWorkers -> PodPhases]
      /\ podKey \in [PodWorkers -> Pods \cup {NoPod}]
      /\ podLeft \in [PodWorkers -> SUBSET Labels]
      /\ podEntry \in [PodWorkers -> Entries \cup {NoPod}]
      /\ podAt[w] # "idle" => podKey[w] \in Pods
  BY DEF PodInv, PodControllerTypeOK
<1>2. UNCHANGED worn
  BY DEF PodWorker, TakePod, LookUpPod, GivesUp, Polls, FetchPod, MatchLabel, ReadEphs, PutEphs,
         PutFails, SettlePod, FinishPod, OnlyMoves
<1>3. CASE TakePod(w)
  BY <1>1, <1>3 DEF TakePod, PodGoto, Follows
<1>4. CASE LookUpPod(w)
  <2>1. /\ podAt[w] = "lookup" /\ podKey' = podKey /\ podEntry' = podEntry
        /\ podAt'[w] # "idle"
        /\ podLeft'[w] = IF podStore[podKey[w]] = NoPod THEN {} ELSE podStore[podKey[w]].labels
    BY <1>1, <1>4 DEF LookUpPod, PodGoto
  <2>2. podStore[podKey[w]] \in P!Held(podKey[w])
    BY DEF P!Held
  <2>3. podLeft'[w] \subseteq worn[podKey[w]]
    BY <1>1, <2>1, <2>2 DEF LabelsWereWorn
  <2> QED BY <1>2, <2>1, <2>3 DEF Follows
<1>5. ASSUME NEW l \in Labels, MatchLabel(w, l) PROVE Follows(w)'
  <2>1. podAt[w] = "match" /\ l \in worn[podKey[w]] /\ podKey' = podKey
    BY <1>5 DEF MatchLabel, Follows
  <2>2. CASE mapPbtool[l] # NoTool
    <3>1. podEntry'[w] = mapPbtool[l] /\ podLeft' = podLeft /\ podAt'[w] = "getEc"
      BY <1>1, <1>5, <2>2 DEF MatchLabel, PodGoto
    <3>2. <<l, mapPbtool[l].image>> \in offered
      BY <2>2 DEF ToolsWereOffered
    <3> QED BY <1>2, <2>1, <3>1, <3>2 DEF Follows
  <2>3. CASE mapPbtool[l] = NoTool
    <3>1. podLeft'[w] \subseteq podLeft[w] /\ UNCHANGED <<podAt, podEntry>>
      BY <1>1, <1>5, <2>3 DEF MatchLabel
    <3> QED BY <1>2, <2>1, <3>1 DEF Follows
  <2> QED BY <2>2, <2>3
<1>6. CASE GivesUp(w) \/ Polls(w) \/ FetchPod(w) \/ ReadEphs(w) \/ PutEphs(w) \/ PutFails(w)
           \/ SettlePod(w)
  <2>1. podAt[w] # "idle" /\ podAt'[w] # "idle" /\ UNCHANGED <<podKey, podLeft, podEntry>>
    BY <1>1, <1>6
    DEF GivesUp, Polls, FetchPod, ReadEphs, PutEphs, PutFails, SettlePod, OnlyMoves, PodGoto
  <2> QED BY <1>2, <2>1 DEF Follows
<1>7. CASE FinishPod(w)
  BY <1>1, <1>7 DEF FinishPod, PodGoto, Follows
<1> QED BY <1>3, <1>4, <1>5, <1>6, <1>7 DEF PodWorker

LEMMA WorkersFollowNext ==
    ASSUME PodInv, ToolsWereOffered, LabelsWereWorn, WorkersFollow, [Next]_vars
    PROVE  WorkersFollow'
<1> SUFFICES ASSUME NEW w \in PodWorkers PROVE Follows(w)'
  BY DEF WorkersFollow, Follows
<1>1. Follows(w)
  BY DEF WorkersFollow, Follows
<1>2. CASE Panics \/ Killed
  BY <1>2 DEF Panics, Killed, PodRestart, Follows
<1>3. ASSUME NEW v \in PodWorkers, PodWorker(v), UNCHANGED offered PROVE Follows(w)'
  <2>1. CASE v = w
    BY <1>1, <1>3, <2>1, FollowsOwnStep
  <2>2. CASE v # w
    <3>1. UNCHANGED <<podAt[w], podKey[w], podLeft[w], podEntry[w]>>
      BY <1>3, <2>2, OwnStep DEF PodInv, PodControllerTypeOK
    <3> QED BY <1>1, <3>1, StillFollows
  <2> QED BY <2>1, <2>2
<1>4. CASE UNCHANGED podWorkerVars
  BY <1>1, <1>4, StillFollows DEF podWorkerVars
<1>5. \/ Panics \/ Killed \/ UNCHANGED podWorkerVars
      \/ \E v \in PodWorkers : PodWorker(v) /\ UNCHANGED offered
  BY DEF Next, PbtSide, PodSide, PodEvent, PodIsDeleted, PodChangesTo, PodHandlers, BeginScan,
         ScanLabel, EndScan, ForgetPod, RelistPods, ObservePod, ResyncPod, PodControllerVars,
         podVars, vars
<1> QED BY <1>2, <1>3, <1>4, <1>5

LEMMA InjectedOfferedNext ==
    ASSUME PodInv, OfferedInv, [Next]_vars
    PROVE  InjectedWasOffered'
<1>1. /\ podServer \in [Pods -> PodObjects \cup {NoPod}]
      /\ offered \subseteq offered'
  BY OffersGrow
  DEF PodInv, PodInformerOK, P!InformerInv, P!InformerTypeOK, P!State, OfferedInv
<1>2. ASSUME NEW p \in Pods, podServer'[p] # NoPod, podServer'[p] = podServer[p],
             NEW e \in podServer'[p].ephs, e.by = "ephemeral-"
      PROVE  \E l \in worn'[p] : <<l, e.image>> \in offered'
  <2>1. PICK l \in worn[p] : <<l, e.image>> \in offered
    BY <1>2 DEF OfferedInv, InjectedWasOffered
  <2> QED BY <1>1, <2>1, WornGrows
<1>3. CASE PodQuiet
  <2>1. podServer' = podServer
    BY <1>3
    DEF PodQuiet, P!InformerStep, P!Restart, P!Relist, P!Deliver, P!Observe, P!Resync,
        P!informerVars
  <2> QED BY <1>2, <2>1 DEF InjectedWasOffered
<1>4. ASSUME NEW q \in Pods, NEW o, P!ServerWrite(q, o),
             \A e \in o.ephs : o # NoPod /\ e.by = "ephemeral-" =>
                 \E l \in worn'[q] : <<l, e.image>> \in offered'
      PROVE  InjectedWasOffered'
  <2>1. podServer' = [podServer EXCEPT ![q] = o]
    BY <1>4 DEF P!ServerWrite
  <2>2. podServer'[q] = o /\ \A p \in Pods : p # q => podServer'[p] = podServer[p]
    BY <1>1, <2>1
  <2> QED BY <1>2, <1>4, <2>2 DEF InjectedWasOffered
<1>5. ASSUME NEW q \in Pods, PodGoes(q) PROVE InjectedWasOffered'
  BY <1>4, <1>5 DEF PodGoes
<1>6. ASSUME NEW q \in Pods, NEW o \in PodObjects, PodChangedTo(q, o)
      PROVE  InjectedWasOffered'
  <2>1. ASSUME NEW e \in o.ephs, e.by = "ephemeral-"
        PROVE  \E l \in worn'[q] : <<l, e.image>> \in offered'
    <3>1. podServer[q] # NoPod /\ e \in podServer[q].ephs
      BY <1>6, <2>1 DEF PodChangedTo
    <3>2. PICK l \in worn[q] : <<l, e.image>> \in offered
      BY <2>1, <3>1 DEF OfferedInv, InjectedWasOffered
    <3> QED BY <1>1, <3>2, WornGrows
  <2> QED BY <1>4, <1>6, <2>1 DEF PodChangedTo, PodStored
<1>7. ASSUME NEW w \in PodWorkers, NEW o \in PodObjects, WorkerPuts(w, o)
      PROVE  InjectedWasOffered'
  <2>1. podKey[w] \in Pods /\ podEntry[w] # NoPod
    BY <1>7 DEF WorkerPuts, PodInv, PodControllerTypeOK
  <2>2. PICK l \in worn[podKey[w]] : <<l, podEntry[w].image>> \in offered
    BY <2>1 DEF OfferedInv, WorkersFollow
  <2>3. \A e \in o.ephs : e.image = podEntry[w].image
    BY <1>7 DEF WorkerPuts, Injected
  <2>4. l \in worn'[podKey[w]] /\ <<l, podEntry[w].image>> \in offered'
    BY <1>1, <2>1, <2>2, WornGrows
  <2> QED BY <1>4, <1>7, <2>1, <2>3, <2>4 DEF WorkerPuts, PodStored
<1> QED BY <1>3, <1>5, <1>6, <1>7, PodMoves

LEMMA OfferedInvInit == Init => OfferedInv
<1> SUFFICES ASSUME Init PROVE OfferedInv
  OBVIOUS
<1>1. I!Start /\ P!Start
  BY SameInformer, SamePodInformer DEF Init, PbtInit, PodInit
<1>2. ToolsWereOffered
  <2>1. Offers \subseteq offered /\ mapPbtool = EmptyPool
    BY DEF Init, PbtInit
  <2>2. ASSUME NEW t \in Tools PROVE Known(t) \subseteq {NoTool, pbtServer[t]}
    <3>1. pbtAt = [w \in PbtWorkers |-> "idle"]
      BY DEF Init, PbtInit
    <3> QED
      BY <1>1, <3>1 DEF Known, I!Held, I!Start, I!Listed, I!Existing, I!Nothing
  <2>3. ASSUME NEW t \in Tools, pbtServer[t] # NoTool
        PROVE  <<pbtServer[t].label, pbtServer[t].image>> \in offered
    BY <2>1, <2>3 DEF Offers
  <2> QED BY <2>1, <2>2, <2>3 DEF ToolsWereOffered, EmptyPool
<1>3. LabelsWereWorn
  <2>1. ASSUME NEW p \in Pods PROVE P!Held(p) \subseteq {NoPod, podServer[p]}
    BY <1>1 DEF P!Held, P!Start, P!Listed, P!Existing, P!Nothing
  <2> QED BY <2>1 DEF LabelsWereWorn, Init, PodInit, WornNow
<1>4. WorkersFollow
  BY DEF Init, PodInit, WorkersFollow
<1>5. InjectedWasOffered
  BY NewPodsArePods DEF Init, PodInit, InjectedWasOffered
<1> QED BY <1>2, <1>3, <1>4, <1>5 DEF OfferedInv

LEMMA OfferedInvNext == PbtInv /\ PodInv /\ OfferedInv /\ [Next]_vars => OfferedInv'
BY ToolsOfferedNext, LabelsWornNext, WorkersFollowNext, InjectedOfferedNext DEF OfferedInv

(* Whatever was stale when updatePod acted on it, a container of the       *)
(* controller in a pod has the image of a tool that was at some time       *)
(* deployed for a label that some pod of this name carried.                *)
THEOREM WhatIsInjectedWasOffered == Spec => []InjectedWasOffered
<1>1. OfferedInv => InjectedWasOffered
  BY DEF OfferedInv
<1> QED
  BY <1>1, ToolsInit, ToolsNext, PodInvInit, PodInvNext, OfferedInvInit, OfferedInvNext, PTL
  DEF Spec
=============================================================================

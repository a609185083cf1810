---------------------------- MODULE ToolInformer ----------------------------
(***************************************************************************)
(* The informer of Podbuggertools as it is built: the reflector lists and  *)
(* watches through the typed client and feeds a DeltaFIFO; HandleDeltas    *)
(* takes key after key out of it, updates the indexer and notifies the     *)
(* handlers; a worker reads a tool through the Lister, copies it, and      *)
(* writes its status through the client.                                   *)
(*                                                                         *)
(* Objects are in memory once: FIFO, indexer, notifications and Lister     *)
(* hold pointers to the same tool.  The module implements Informer, which  *)
(* the models of the controller are built on.                              *)
(***************************************************************************)
EXTENDS ToolClient, SequencesExt

CONSTANTS
    FirstName,       \* the name of the tool that is there at first
    MaxRevision,     \* bound: tools written
    MaxBreaks        \* bound: lists repeated, resyncs, processes killed

ASSUME ToolInformerAssumption ==
    /\ IsFiniteSet(Namespaces) /\ IsFiniteSet(Names) /\ FirstName \in Names
    /\ MaxRevision \in Nat \ {0} /\ MaxBreaks \in Nat
    /\ NoTool \notin [rv : 1..MaxRevision, installed : BOOLEAN]

VARIABLES
    api,          \* the API server, see ToolClient
    heap,         \* heap[p]: the tool in memory at p; p is its resourceVersion
    fifo,         \* see DeltaFIFO
    handling,     \* handling[k]: the deltas of k HandleDeltas has yet to go through
    indexer,      \* indexer[k]: pointer to the tool the Lister returns, or Nil
    pending,      \* notifications not yet handled by the event handlers
    worker,       \* worker[k]: the copy of k a worker is about to write, or Nil
    told,         \* told[k]: pointer the handlers were last given (history)
    listing,      \* keys of the first list not in the indexer yet (history)
    breaks        \* lists repeated, resyncs and processes killed so far

informerVars == <<heap, fifo, handling, indexer, pending, told, listing>>
vars == <<api, informerVars, worker, breaks>>

F == INSTANCE DeltaFIFO

Nil == F!Nil
Tools == [rv : 1..MaxRevision, installed : BOOLEAN]
CopyCell == MaxRevision + 1
Nowhere == [k \in Keys |-> Nil]
NoDeltas == [k \in Keys |-> <<>>]

(* What a list or an event brings is decoded into memory. *)
Decoded(h, tools) ==
    [p \in DOMAIN h |-> IF \E t \in tools : t.rv = p
                        THEN CHOOSE t \in tools : t.rv = p ELSE h[p]]

(* ListAndWatch asks the client for all tools. *)
Listed == {List(api)[k] : k \in DOMAIN List(api)}
ListedAt == [k \in DOMAIN List(api) |-> List(api)[k].rv]
Known == [k \in {j \in Keys : indexer[j] # Nil} |-> indexer[k]]
Orders(S) == SetToSeqs(S)

(* A process has just put its first list into its FIFO. *)
FirstList ==
    /\ heap = Decoded([p \in 1..CopyCell |-> NoTool], Listed)
    /\ \E order \in Orders(Stored(api)) : fifo = F!FirstReplace(ListedAt, order)
    /\ handling = NoDeltas
    /\ indexer = Nowhere /\ told = Nowhere
    /\ pending = <<>>
    /\ listing = Stored(api)
    /\ worker = Nowhere

(* One tool is there at first. *)
Init ==
    /\ \E first \in Namespaces \X {FirstName} :
           api = [tools |-> [k \in Keys |->
                                IF k = first THEN [rv |-> 1, installed |-> FALSE] ELSE NoTool],
                  revision |-> 1, wire |-> <<>>]
    /\ FirstList
    /\ breaks = 0

-----------------------------------------------------------------------------
(* Users, through the client *)

Calls(outcome) ==
    /\ outcome # api /\ outcome.revision <= MaxRevision
    /\ api' = outcome
    /\ UNCHANGED <<informerVars, worker, breaks>>

UserWrites(k) == Calls(Create(api, k)) \/ Calls(Patch(api, k))

UserDeletes(k) == Calls(Delete(api, k))

UserDeletesCollection(ns) ==
    \E outcome \in DeleteCollection(api, ns) : Calls(outcome)

-----------------------------------------------------------------------------
(* The reflector; HandleDeltas is called with the FIFO's lock held *)

FifoIsFree == handling = NoDeltas

(* watchHandler: one event goes to the FIFO. *)
WatchHandler ==
    /\ FifoIsFree
    /\ api.wire # <<>>
    /\ LET e == Watch(api)
           p == e.tool.rv
       IN /\ heap' = Decoded(heap, {e.tool})
          /\ fifo' = CASE e.type = "ADDED" -> F!AddObject(fifo, e.key, p)
                       [] e.type = "MODIFIED" -> F!UpdateObject(fifo, e.key, p)
                       [] e.type = "DELETED" -> F!DeleteObject(fifo, e.key, p, Known)
    /\ api' = Received(api)
    /\ UNCHANGED <<handling, indexer, pending, worker, told, listing, breaks>>

(* The watch broke in a way that takes a new list, which goes into the     *)
(* FIFO behind whatever it still holds.                                    *)
ListAgain ==
    /\ FifoIsFree
    /\ breaks < MaxBreaks
    /\ breaks' = breaks + 1
    /\ heap' = Decoded(heap, Listed)
    /\ \E order \in Orders(F!ToQueue(fifo, Stored(api) \cup DOMAIN Known)) :
           fifo' = F!Replace(fifo, ListedAt, Known, order)
    /\ api' = NothingMissed(api)
    /\ UNCHANGED <<handling, indexer, pending, worker, told, listing>>

ResyncTimer ==
    /\ FifoIsFree
    /\ breaks < MaxBreaks
    /\ breaks' = breaks + 1
    /\ \E order \in Orders(F!ToQueue(fifo, DOMAIN F!Synced(fifo, Known))) :
           fifo' = F!Resync(fifo, Known, order)
    /\ UNCHANGED <<api, heap, handling, indexer, pending, worker, told, listing>>

-----------------------------------------------------------------------------
(* The informer *)

ProcessLoop ==
    /\ FifoIsFree
    /\ fifo.queue # <<>>
    /\ handling' = [handling EXCEPT ![F!Oldest(fifo)] = fifo.items[F!Oldest(fifo)]]
    /\ fifo' = F!Pop(fifo)
    /\ UNCHANGED <<api, heap, indexer, pending, worker, told, listing, breaks>>

Note(k, old, new, unknown) == [key |-> k, old |-> old, new |-> new, unknown |-> unknown]

(* Mutant of IsSync: every object of a repeated list counts as known. *)
IsSyncReplaced(d, old) == d.type \in {"Sync", "Replaced"}

(* A repetition is distributed only to listeners whose resync is due. *)
IsSync(d, old) == d.type = "Sync" \/ (d.type = "Replaced" /\ heap[d.obj].rv = heap[old].rv)

(* The indexer takes a delta over, and the handlers are to be notified. *)
Index(k, d) ==
    IF d.type = "Deleted"
    THEN /\ indexer' = [indexer EXCEPT ![k] = Nil]
         /\ pending' = Append(pending, Note(k, d.obj, Nil, d.unknown))
    ELSE /\ indexer' = [indexer EXCEPT ![k] = d.obj]
         /\ \/ pending' = Append(pending, Note(k, indexer[k], d.obj, FALSE))
            \/ indexer[k] # Nil /\ IsSync(d, indexer[k]) /\ UNCHANGED pending

(* HandleDeltas goes through the deltas of a key, oldest first. *)
HandleDelta(k) ==
    /\ handling[k] # <<>>
    /\ Index(k, Head(handling[k]))
    /\ handling' = [handling EXCEPT ![k] = Tail(@)]
    /\ listing' = listing \ {k}
    /\ UNCHANGED <<api, heap, fifo, worker, told, breaks>>

(* Mutant of HasSynced: it does not wait for the FIFO's lock. *)
HasSyncedUnlocked == F!HasPopped(fifo)

(* HasSynced waits for the FIFO's lock. *)
HasSynced == F!HasPopped(fifo) /\ FifoIsFree

(* The handlers return from the oldest notification. *)
Deliver ==
    /\ pending # <<>>
    /\ told' = [told EXCEPT ![Head(pending).key] = Head(pending).new]
    /\ pending' = Tail(pending)
    /\ UNCHANGED <<api, heap, fifo, handling, indexer, worker, listing, breaks>>

-----------------------------------------------------------------------------
(* A worker in syncHandler *)

(* The Lister of one namespace, and its Get; Nil is "not found". *)
NamespaceLister(ns) == [k \in Podbuggertools(ns) |-> indexer[k]]
Get(k) == NamespaceLister(k[1])[k]

(* Mutant of DeepCopy: the copy is the object itself. *)
ShallowCopy(h, p) == [heap |-> h, out |-> p]

(* DeepCopy puts the object into a cell that nothing else points to. *)
DeepCopy(h, p) == [heap |-> [h EXCEPT ![CopyCell] = h[p]], out |-> CopyCell]

(* The tool is looked up and copied, and the copy is marked as installed. *)
SyncHandler(k) ==
    /\ worker = Nowhere
    /\ HasSynced
    /\ Get(k) # Nil
    /\ LET copy == DeepCopy(heap, Get(k))
       IN /\ heap' = [copy.heap EXCEPT ![copy.out].installed = TRUE]
          /\ worker' = [worker EXCEPT ![k] = copy.out]
    /\ UNCHANGED <<api, fifo, handling, indexer, pending, told, listing, breaks>>

(* The update is sent; the copy is garbage then. *)
UpdatePodbuggertoolStatus(k) ==
    /\ worker[k] # Nil
    /\ api' = Update(api, k, heap[worker[k]])
    /\ api'.revision <= MaxRevision
    /\ worker' = Nowhere
    /\ heap' = [heap EXCEPT ![CopyCell] = NoTool]
    /\ UNCHANGED <<fifo, handling, indexer, pending, told, listing, breaks>>

-----------------------------------------------------------------------------
(* The process dies, and another one has listed the tools. *)
Restart ==
    /\ breaks < MaxBreaks
    /\ breaks' = breaks + 1
    /\ api' = NothingMissed(api)
    /\ heap' = Decoded([p \in 1..CopyCell |-> NoTool], Listed)
    /\ \E order \in Orders(Stored(api)) : fifo' = F!FirstReplace(ListedAt, order)
    /\ handling' = NoDeltas
    /\ indexer' = Nowhere /\ told' = Nowhere
    /\ pending' = <<>>
    /\ listing' = Stored(api)
    /\ worker' = Nowhere

Next ==
    \/ \E k \in Keys : UserWrites(k) \/ UserDeletes(k)
    \/ \E ns \in Namespaces : UserDeletesCollection(ns)
    \/ WatchHandler \/ ListAgain \/ ResyncTimer
    \/ ProcessLoop \/ Deliver
    \/ \E k \in Keys : HandleDelta(k) \/ SyncHandler(k) \/ UpdatePodbuggertoolStatus(k)
    \/ Restart

(* The goroutines of the informer and of its listener keep running; the    *)
(* FIFO's lock, a sync.RWMutex, starves nobody who waits for it.           *)
Fairness ==
    /\ SF_vars(WatchHandler) /\ WF_vars(ProcessLoop) /\ WF_vars(Deliver)
    /\ \A k \in Keys : WF_vars(HandleDelta(k))

Spec == Init /\ [][Next]_vars /\ Fairness

-----------------------------------------------------------------------------
(* What Informer says of it *)

(* A pointer stands for the tool in memory h that it points to. *)
At(h, p) == IF p = Nil THEN NoTool ELSE h[p]

(* Deltas of k, oldest first, and what is new in them: a Sync, which can   *)
(* only be at the front, repeats what is known.                            *)
Line(k) == handling[k] \o fifo.items[k]
News(deltas) == IF deltas # <<>> /\ deltas[1].type = "Sync" THEN Tail(deltas) ELSE deltas

(* What a wire says of k, oldest first. *)
EventsOf(wire, k) ==
    LET among[n \in 0..Len(wire)] ==
            IF n = 0 THEN <<>>
            ELSE IF wire[n].key = k THEN Append(among[n - 1], wire[n]) ELSE among[n - 1]
    IN among[Len(wire)]

DeltaState(h, d) ==
    [obj |-> IF d.type = "Deleted" THEN NoTool ELSE At(h, d.obj), lost |-> d.unknown]
EventState(e) == [obj |-> IF e.type = "DELETED" THEN NoTool ELSE e.tool, lost |-> FALSE]

DeltaStates(h, deltas) == [n \in DOMAIN deltas |-> DeltaState(h, deltas[n])]
EventStates(events) == [n \in DOMAIN events |-> EventState(events[n])]
States(k) == DeltaStates(heap, News(Line(k))) \o EventStates(EventsOf(api.wire, k))
Unseen == [k \in Keys |-> States(k)]

Store == [k \in Keys |-> At(heap, Get(k))]
Told == [k \in Keys |-> At(heap, told[k])]
Notice(h, n) ==
    [key |-> n.key, old |-> IF n.unknown THEN NoTool ELSE At(h, n.old),
     new |-> At(h, n.new), tombstone |-> n.unknown]
Notices == [n \in DOMAIN pending |-> Notice(heap, pending[n])]

Abs == INSTANCE Informer WITH
    Objects <- Tools, NoObject <- NoTool,
    server <- api.tools, unseen <- Unseen, store <- Store,
    pending <- Notices, told <- Told, listing <- listing

(* The informer is what Informer says a shared informer is: however keys   *)
(* are queued, deltas merged and lists repeated, the states of each key go *)
(* through the store one by one, and the handlers are told of them in      *)
(* order.                                                                  *)
ImplementsInformer == Abs!InformerSpec

(* The notifications lead without a gap from what the handlers were told   *)
(* to what the Lister returns: see Informer.                               *)
Chain == Abs!Chain

(* What is in FIFO and watch of a tool that exists ends in what the server *)
(* holds, and if nothing is, the Lister is up to date: see Informer.       *)
UnseenLeadsToServer == Abs!UnseenLeadsToServer

(* Handlers are told of the deletion only of tools that they know, though  *)
(* deletions are merged and lists find deletions again: see Informer.      *)
NotesMakeSense == Abs!NotesMakeSense

(* Replace looks for vanished tools in the indexer, "not already in the    *)
(* queue" (delta_fifo.go): only one that was queued and not yet indexed    *)
(* when the list came is overlooked, and the next list finds it.           *)
Overlooked(k) == Abs!Overlooked(k)
OverlookedOnlyWhenQueued ==
    [][\A k \in Keys :
          Overlooked(k)' => IF ListAgain THEN fifo.items[k] # <<>> /\ indexer[k] = Nil
                            ELSE Overlooked(k)]_vars

(* A key is in the FIFO's queue once while it has deltas, and not          *)
(* otherwise: no key is forgotten, none is popped without deltas.          *)
FifoStaysConsistent == F!FifoConsistent(fifo)

(* HasSynced, for which Run waits, promises that each tool of the first    *)
(* list has entered the Lister.                                            *)
SyncedMeansListed == HasSynced => listing = {}

(* Objects that came from the API server are never written: neither those  *)
(* the Lister returns nor those the handlers hold, although a worker marks *)
(* the tool it read as installed.                                          *)
SharedAreReadOnly ==
    [][\A p \in 1..MaxRevision : heap[p] # NoTool /\ heap'[p] # NoTool => heap'[p] = heap[p]]_vars

(* Within one life of the process, the handlers never see a tool turn into *)
(* an older one.                                                           *)
ToldMovesForward ==
    [][\A k \in Keys : told[k] # Nil /\ told'[k] # Nil => told[k] <= told'[k]]_vars

(* The handlers end up knowing what the server holds, through repeated     *)
(* lists and restarts, if tools stop changing; but for a tool that a list  *)
(* overlooked.                                                             *)
ToldCatchesUp == \A k \in Keys : <>[](Told[k] = api.tools[k] \/ Overlooked(k))
=============================================================================

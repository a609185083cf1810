------------------------- MODULE ToolInformerProofs -------------------------
(***************************************************************************)
(* The informer of Podbuggertools is an Informer: every step of            *)
(* ToolInformer is one of Informer under the mapping, or none.  So what is *)
(* proved of every Informer in InformerProofs holds of it too.             *)
(*                                                                         *)
(* First come the types and the memory (MemoryOK) with the FIFO's          *)
(* consistency, then the invariant that ties deltas, events and indexer    *)
(* together (IInv), then the moves of the actions, one lemma each.         *)
(***************************************************************************)
EXTENDS ToolInformerLemmas

(* The informer that the mapping shows, with the proofs about every        *)
(* informer.                                                               *)
P == INSTANCE InformerProofs WITH
    Objects <- Tools, NoObject <- NoTool,
    server <- api.tools, unseen <- Unseen, store <- Store,
    pending <- Notices, told <- Told, listing <- listing

-----------------------------------------------------------------------------
(* Types.  The cells that hold a tool are those a pointer may point to.    *)
Live == {p \in Cells : heap[p] # NoTool}

(* The types of the variables, with pointers to live cells only.           *)
NotesIn(L) ==
    {n \in [key : Keys, old : L \cup {Nil}, new : L \cup {Nil}, unknown : BOOLEAN] :
        n.unknown => n.new = Nil}

ServerOK ==
    /\ api \in [tools : [Keys -> Tools \cup {NoTool}], revision : 1..MaxRevision,
                wire : Seq(EventSet)]
    /\ heap \in Memories

FifoOK ==
    /\ fifo \in FifoIn(Live)
    /\ handling \in [Keys -> Seq(DeltasIn(Live))]

ListenersOK ==
    /\ indexer \in [Keys -> Live \cup {Nil}]
    /\ told \in [Keys -> Live \cup {Nil}]
    /\ pending \in Seq(NotesIn(Live))
    /\ listing \subseteq Keys

WorkerOK ==
    /\ worker \in [Keys -> {Nil, CopyCell}]
    /\ \A k \in Keys : worker[k] # Nil => heap[CopyCell] \in Tools

TypesOK == ServerOK /\ FifoOK /\ ListenersOK /\ WorkerOK

(* Every version of a tool there is, at the server, on the wire and in     *)
(* memory.                                                                 *)
World ==
    ({api.tools[k] : k \in Keys} \cup {heap[p] : p \in Cells}
        \cup {api.wire[n].tool : n \in 1..Len(api.wire)}) \ {NoTool}

(* The cell of a version holds that version or nothing.                    *)
EachOnce ==
    /\ \A t \in World : t.rv <= api.revision
    /\ \A t, u \in World : t.rv = u.rv => t = u
    /\ \A p \in Live : heap[p].rv = p

(* The types, and the memory that holds each version once.                 *)
MemoryOK == TypesOK /\ EachOnce

-----------------------------------------------------------------------------
(* What the server, the wire and the memory hold are tools.                *)
LEMMA WorldTools == ServerOK => World \subseteq Tools
<1> SUFFICES ASSUME ServerOK PROVE World \subseteq Tools
  OBVIOUS
<1>1. \A k \in Keys : api.tools[k] \in Tools \cup {NoTool}
  BY DEF ServerOK
<1>2. \A p \in Cells : heap[p] \in Tools \cup {NoTool}
  BY CellsArePlaces DEF ServerOK, Memories
<1>3. \A n \in 1..Len(api.wire) : api.wire[n].tool \in Tools
  <2>1. api.wire \in Seq(EventSet)
    BY DEF ServerOK
  <2>2. \A n \in 1..Len(api.wire) : api.wire[n] \in EventSet
    BY <2>1, ElementOfSeq
  <2> QED BY <2>2 DEF EventSet
<1> QED BY <1>1, <1>2, <1>3 DEF World

(* Decoding puts the versions T into their cells. *)
LEMMA DecodedInto ==
    ASSUME NEW h \in Memories, NEW T, T \subseteq Tools,
           \A t, u \in T : t.rv = u.rv => t = u,
           \A t \in T : h[t.rv] \in {t, NoTool}
    PROVE  /\ Decoded(h, T) \in Memories
           /\ Decoded(h, T)[CopyCell] = h[CopyCell]
           /\ \A t \in T : t.rv \in Cells /\ Decoded(h, T)[t.rv] = t
           /\ \A p \in Cells : h[p] # NoTool => Decoded(h, T)[p] = h[p]
           /\ \A p \in Cells : Decoded(h, T)[p] = h[p]
                                  \/ (Decoded(h, T)[p] \in T /\ Decoded(h, T)[p].rv = p)
<1> DEFINE g == Decoded(h, T)
<1>1. DOMAIN h = 1..CopyCell /\ \A p \in 1..CopyCell : h[p] \in Tools \cup {NoTool}
  BY DEF Memories
<1>2. \A t \in Tools : t.rv \in Cells
  BY DEF Tools, Cells
<1>3. g = [p \in 1..CopyCell |-> IF \E t \in T : t.rv = p THEN CHOOSE t \in T : t.rv = p ELSE h[p]]
  BY <1>1 DEF Decoded
<1> HIDE DEF g
<1>4. ASSUME NEW p \in 1..CopyCell, NEW t \in T, t.rv = p PROVE g[p] = t
  <2>1. (CHOOSE u \in T : u.rv = p) = t
    BY <1>4
  <2> QED BY <1>3, <1>4, <2>1
<1>5. ASSUME NEW p \in 1..CopyCell, \A t \in T : t.rv # p PROVE g[p] = h[p]
  BY <1>3, <1>5
<1>6. g \in Memories
  <2>1. \A p \in 1..CopyCell : g[p] \in Tools \cup {NoTool}
    BY <1>1, <1>4, <1>5
  <2> QED BY <1>3, <2>1 DEF Memories
<1>7. g[CopyCell] = h[CopyCell]
  <2>1. CopyCell \in 1..CopyCell /\ \A t \in T : t.rv # CopyCell
    BY <1>2, CellsArePlaces, ToolInformerAssumption DEF CopyCell
  <2> QED BY <1>5, <2>1
<1>8. \A t \in T : t.rv \in Cells /\ g[t.rv] = t
  BY <1>2, <1>4, CellsArePlaces
<1>9. \A p \in Cells : h[p] # NoTool => g[p] = h[p]
  BY <1>4, <1>5, CellsArePlaces
<1>10. \A p \in Cells : g[p] = h[p] \/ (g[p] \in T /\ g[p].rv = p)
  BY <1>4, <1>5, CellsArePlaces
<1> QED BY <1>6, <1>7, <1>8, <1>9, <1>10 DEF g

(* Versions of the world can be decoded at any time.                       *)
LEMMA WorldDecoded ==
    ASSUME MemoryOK, NEW T, T \subseteq World
    PROVE  /\ T \subseteq Tools
           /\ \A t, u \in T : t.rv = u.rv => t = u
           /\ \A t \in T : heap[t.rv] \in {t, NoTool}
<1>1. T \subseteq Tools /\ World \subseteq Tools
  BY WorldTools DEF MemoryOK, TypesOK
<1>2. \A t, u \in T : t.rv = u.rv => t = u
  BY DEF MemoryOK, EachOnce
<1>3. ASSUME NEW t \in T, heap[t.rv] # NoTool PROVE heap[t.rv] = t
  <2>1. t.rv \in Cells
    BY <1>1 DEF Tools, Cells
  <2>2. t.rv \in Live /\ heap[t.rv] \in World
    BY <1>3, <2>1 DEF Live, World
  <2>3. heap[t.rv].rv = t.rv
    BY <2>2 DEF MemoryOK, EachOnce
  <2> QED BY <2>2, <2>3 DEF MemoryOK, EachOnce
<1> QED BY <1>1, <1>2, <1>3

(* EachOnce in the next state, if nothing new is in the world but perhaps  *)
(* one version with a revision of its own.                                 *)
LEMMA EachOnceKept ==
    ASSUME EachOnce, ServerOK, api.revision <= api'.revision, api'.revision \in Int,
           \A t \in World' : t \in World \/ (t.rv = api.revision + 1 /\ t.rv <= api'.revision),
           \A t, u \in World' : t.rv = api.revision + 1 /\ u.rv = api.revision + 1 => t = u,
           \A p \in Cells : heap'[p] # NoTool => heap'[p] \in World' /\ heap'[p].rv = p
    PROVE  EachOnce'
<1>1. World \subseteq Tools /\ api.revision \in Int
  BY WorldTools DEF ServerOK
<1>2. \A t \in World : t.rv \in Int /\ t.rv <= api.revision
  BY <1>1 DEF EachOnce, Tools
<1>3. \A t \in World' : t.rv <= api'.revision
  BY <1>1, <1>2
<1>4. \A t, u \in World' : t.rv = u.rv => t = u
  BY <1>1, <1>2 DEF EachOnce
<1>5. \A p \in Live' : heap'[p].rv = p
  BY DEF Live
<1> QED BY <1>3, <1>4, <1>5 DEF EachOnce

-----------------------------------------------------------------------------
(* What a step does to memory: objects stay where they are.                *)
Kept == heap' \in Memories /\ \A p \in Cells : heap[p] # NoTool => heap'[p] = heap[p]

(* Memory that keeps its cells leaves every pointer good.                  *)
LEMMA KeptLive == ASSUME Kept PROVE Live \subseteq Live' /\ \A p \in Live : heap'[p] = heap[p]
BY DEF Kept, Live

LEMMA LiveCells == Live \subseteq Cells
BY DEF Live

LEMMA MoreNotes ==
    ASSUME NEW L, NEW M, L \subseteq M
    PROVE  Seq(NotesIn(L)) \subseteq Seq(NotesIn(M))
<1>1. NotesIn(L) \subseteq NotesIn(M)
  BY DEF NotesIn
<1> QED BY <1>1

(* What is not touched keeps its type. *)
LEMMA FifoKept ==
    ASSUME FifoOK, Kept, UNCHANGED <<fifo, handling>> PROVE FifoOK'
<1>1. Live \subseteq Live' /\ Seq(DeltasIn(Live)) \subseteq Seq(DeltasIn(Live'))
  BY KeptLive, MoreDeltas
<1> QED BY <1>1, MoreFifo DEF FifoOK

LEMMA ListenersKept ==
    ASSUME ListenersOK, Kept, UNCHANGED <<indexer, told, pending, listing>> PROVE ListenersOK'
<1>1. Seq(NotesIn(Live)) \subseteq Seq(NotesIn(Live')) /\ Live \subseteq Live'
  BY KeptLive, MoreNotes
<1> QED BY <1>1 DEF ListenersOK

(* The lister finds what the indexer holds.                                *)
LEMMA GetIs == \A k \in Keys : Get(k) = indexer[k]
BY DEF Get, NamespaceLister, Podbuggertools, Keys

-----------------------------------------------------------------------------
(* Steps on the side of the server, and of the workers.                    *)
Aside ==
    /\ UNCHANGED <<fifo, handling, indexer, pending, told, listing>>
    /\ heap' \in Memories /\ \A p \in Cells : heap'[p] = heap[p]
    /\ WorkerOK'

(* The server took a write of k and sent the event e of it.                *)
Written(k, e) ==
    /\ Aside
    /\ e \in EventSet /\ e.key = k
    /\ api' = [tools |-> [api.tools EXCEPT ![k] = EventState(e).obj],
               revision |-> api'.revision, wire |-> Append(api.wire, e)]
    /\ api'.revision \in 1..MaxRevision
    /\ \/ e.type = "DELETED" /\ e.tool = api.tools[k] /\ api'.revision = api.revision
       \/ /\ e.type \in {"ADDED", "MODIFIED"}
          /\ e.tool.rv = api.revision + 1 /\ api'.revision = api.revision + 1

LEMMA ApiType ==
    ASSUME ServerOK
    PROVE  /\ api = [tools |-> api.tools, revision |-> api.revision, wire |-> api.wire]
           /\ api.tools \in [Keys -> Tools \cup {NoTool}]
           /\ api.revision \in 1..MaxRevision
           /\ api.wire \in Seq(EventSet)
           /\ heap \in Memories
BY DEF ServerOK

(* What the calls of the client are when they change something. *)
LEMMA WriteWrites ==
    ASSUME ServerOK, NEW k \in Keys, NEW installed \in BOOLEAN, NEW type \in {"ADDED", "MODIFIED"},
           api' = Write(api, type, k, installed), api'.revision <= MaxRevision, Aside
    PROVE  \E e : Written(k, e)
<1> DEFINE tool == [rv |-> api.revision + 1, installed |-> installed]
           e == Event(type, k, tool)
<1>1. api' = [tools |-> [api.tools EXCEPT ![k] = tool], revision |-> api.revision + 1,
              wire |-> Append(api.wire, e)]
  BY DEF Write
<1>2. api'.revision = api.revision + 1 /\ api.revision \in 1..MaxRevision
  BY <1>1, ApiType
<1>3. api'.revision \in 1..MaxRevision
  BY <1>2
<1>4. tool \in Tools
  BY <1>2, <1>3 DEF Tools
<1>5. e \in EventSet /\ e.key = k /\ e.tool = tool /\ EventState(e).obj = tool /\ e.type = type
  BY <1>4 DEF Event, EventSet, EventState
<1>6. tool.rv = api.revision + 1
  OBVIOUS
<1> HIDE DEF e, tool
<1>7. Written(k, e)
  BY <1>1, <1>2, <1>3, <1>5, <1>6 DEF Written
<1> QED BY <1>7

(* Each call of the client makes one such step, or leaves the server       *)
(* alone.                                                                  *)
LEMMA DeleteWrites ==
    ASSUME ServerOK, NEW k \in Keys, api' = Delete(api, k), api' # api, Aside
    PROVE  \E e : Written(k, e)
<1> DEFINE e == Event("DELETED", k, api.tools[k])
<1>1. k \in Stored(api) /\ api.tools[k] \in Tools
  BY ApiType DEF Delete, Stored
<1>2. e \in EventSet /\ e.key = k /\ e.tool = api.tools[k] /\ EventState(e).obj = NoTool /\ e.type = "DELETED"
  BY <1>1 DEF Event, EventSet, EventState
<1>3. api' = [api EXCEPT !.tools[k] = NoTool, !.wire = Append(@, e)]
  BY <1>1 DEF Delete
<1> HIDE DEF e
<1>4. api' = [tools |-> [api.tools EXCEPT ![k] = NoTool], revision |-> api.revision,
              wire |-> Append(api.wire, e)]
  BY <1>3, ApiType
<1>5. api'.revision = api.revision /\ api.revision \in 1..MaxRevision
  BY <1>4, ApiType
<1>6. Written(k, e)
  BY <1>2, <1>4, <1>5 DEF Written
<1> QED BY <1>6

LEMMA CallsAreAside ==
    ASSUME MemoryOK, NEW outcome, Calls(outcome) PROVE Aside
BY DEF Calls, Aside, informerVars, MemoryOK, TypesOK, ServerOK, WorkerOK

(* So do the users, and the workers of the queue.                          *)
LEMMA UserWritesIs ==
    ASSUME MemoryOK, NEW k \in Keys, UserWrites(k)
    PROVE  \E e : Written(k, e)
<1>1. ServerOK
  BY DEF MemoryOK, TypesOK
<1>2. Aside
  BY CallsAreAside DEF UserWrites
<1>3. CASE Calls(Create(api, k))
  <2>1. api' = Write(api, "ADDED", k, FALSE) /\ api'.revision <= MaxRevision
    BY <1>3 DEF Calls, Create
  <2> QED BY <1>1, <1>2, <2>1, WriteWrites
<1>4. CASE Calls(Patch(api, k))
  <2>1. /\ api' = Write(api, "MODIFIED", k, api.tools[k].installed) /\ api'.revision <= MaxRevision
        /\ k \in Stored(api)
    BY <1>4 DEF Calls, Patch
  <2>2. api.tools[k] \in Tools
    BY <1>1, <2>1, ApiType DEF Stored
  <2>3. api.tools[k].installed \in BOOLEAN
    BY <2>2 DEF Tools
  <2> QED BY <1>1, <1>2, <2>1, <2>3, WriteWrites
<1> QED BY <1>3, <1>4 DEF UserWrites

LEMMA UserDeletesIs ==
    ASSUME MemoryOK, NEW k \in Keys, UserDeletes(k)
    PROVE  \E e : Written(k, e)
<1>1. ServerOK
  BY DEF MemoryOK, TypesOK
<1>2. Aside
  BY CallsAreAside DEF UserDeletes
<1> QED BY <1>1, <1>2, DeleteWrites DEF UserDeletes, Calls

LEMMA UserDeletesCollectionIs ==
    ASSUME MemoryOK, NEW ns \in Namespaces, UserDeletesCollection(ns)
    PROVE  \E k \in Keys : \E e : Written(k, e)
<1>1. PICK k \in Keys : UserDeletes(k)
  BY DEF UserDeletesCollection, DeleteCollection, Podbuggertools, UserDeletes
<1> QED BY <1>1, UserDeletesIs

LEMMA SyncHandlerIs ==
    ASSUME MemoryOK, NEW k \in Keys, SyncHandler(k)
    PROVE  Aside /\ UNCHANGED api
<1>1. /\ heap \in Memories /\ indexer[k] \in Live /\ worker = Nowhere
  BY GetIs DEF MemoryOK, TypesOK, ServerOK, ListenersOK, SyncHandler
<1> DEFINE t == [heap[indexer[k]] EXCEPT !.installed = TRUE]
<1>2. heap[indexer[k]] \in Tools
  BY <1>1, CellsArePlaces DEF Live, Memories
<1>3. t \in Tools
  BY <1>2 DEF Tools
<1>4. CopyCell \in 1..CopyCell
  BY ToolInformerAssumption DEF CopyCell
<1>5. /\ heap' = [heap EXCEPT ![CopyCell] = t]
      /\ worker' = [worker EXCEPT ![k] = CopyCell]
      /\ UNCHANGED <<api, fifo, handling, indexer, pending, told, listing, breaks>>
  BY <1>1, <1>4, GetIs DEF SyncHandler, DeepCopy, Memories
<1> HIDE DEF t
<1>6. heap' \in Memories /\ heap'[CopyCell] = t /\ \A p \in Cells : heap'[p] = heap[p]
  BY <1>1, <1>3, <1>4, <1>5, CellsArePlaces DEF Memories
<1>7. WorkerOK'
  BY <1>1, <1>3, <1>5, <1>6 DEF WorkerOK, Nowhere
<1> QED BY <1>5, <1>6, <1>7 DEF Aside

LEMMA UpdateIs ==
    ASSUME MemoryOK, NEW k \in Keys, UpdatePodbuggertoolStatus(k)
    PROVE  (Aside /\ UNCHANGED api) \/ \E e : Written(k, e)
<1> DEFINE t == heap[worker[k]]
<1>1. ServerOK /\ WorkerOK /\ heap \in Memories
  BY DEF MemoryOK, TypesOK, ServerOK
<1>2. worker[k] = CopyCell /\ t \in Tools
  BY <1>1 DEF WorkerOK, UpdatePodbuggertoolStatus
<1>3. /\ api' = Update(api, k, t) /\ api'.revision <= MaxRevision
      /\ worker' = Nowhere
      /\ heap' = [heap EXCEPT ![CopyCell] = NoTool]
      /\ UNCHANGED <<fifo, handling, indexer, pending, told, listing, breaks>>
  BY DEF UpdatePodbuggertoolStatus
<1>4. heap' \in Memories /\ \A p \in Cells : heap'[p] = heap[p]
  BY <1>1, <1>3, CellsArePlaces DEF Memories
<1>5. WorkerOK'
  BY <1>3 DEF WorkerOK, Nowhere
<1>6. Aside
  BY <1>3, <1>4, <1>5 DEF Aside
<1>7. api' = api \/ api' = Write(api, "MODIFIED", k, t.installed)
  BY <1>3 DEF Update
<1>8. t.installed \in BOOLEAN
  BY <1>2 DEF Tools
<1> HIDE DEF t
<1> QED BY <1>1, <1>3, <1>6, <1>7, <1>8, WriteWrites

-----------------------------------------------------------------------------
(* Steps that bring nothing new into the world. *)
LEMMA NoNews ==
    ASSUME MemoryOK, UNCHANGED <<api.tools, api.revision>>,
           \A n \in 1..Len(api'.wire) : api'.wire[n].tool \in World,
           \A p \in Cells : heap'[p] # NoTool => heap'[p] \in World /\ heap'[p].rv = p
    PROVE  EachOnce'
<1>1. ASSUME NEW t \in World' PROVE t \in World
  <2>1. /\ t # NoTool
        /\ \/ \E k \in Keys : t = api'.tools[k]
           \/ \E p \in Cells : t = heap'[p]
           \/ \E n \in 1..Len(api'.wire) : t = api'.wire[n].tool
    BY DEF World
  <2>2. CASE \E k \in Keys : t = api'.tools[k]
    <3>1. PICK k \in Keys : t = api.tools[k]
      BY <2>2
    <3> QED BY <2>1, <3>1 DEF World
  <2>3. CASE \E p \in Cells : t = heap'[p]
    BY <2>1, <2>3
  <2>4. CASE \E n \in 1..Len(api'.wire) : t = api'.wire[n].tool
    BY <2>1, <2>4
  <2> QED BY <2>1, <2>2, <2>3, <2>4
<1>2. \A p \in Live' : heap'[p].rv = p
  BY DEF Live
<1> QED BY <1>1, <1>2 DEF MemoryOK, EachOnce

(* Everything on the wire, in a cell or in a list is of the world.         *)
LEMMA WireWorld ==
    ASSUME ServerOK, NEW n \in 1..Len(api.wire)
    PROVE  api.wire[n] \in EventSet /\ api.wire[n].tool \in World /\ api.wire[n].tool \in Tools
<1>1. api.wire[n] \in EventSet
  BY ApiType
<1>2. api.wire[n].tool \in Tools
  BY <1>1 DEF EventSet
<1> QED BY <1>1, <1>2, NoToolIsNone DEF World

LEMMA CellWorld ==
    ASSUME EachOnce, NEW p \in Cells, heap[p] # NoTool
    PROVE  heap[p] \in World /\ heap[p].rv = p
BY DEF World, EachOnce, Live

LEMMA ListedIs == Listed = {api.tools[k] : k \in Stored(api)}
<1>1. DOMAIN List(api) = Stored(api) /\ \A k \in Stored(api) : List(api)[k] = api.tools[k]
  BY DEF List
<1> QED BY <1>1 DEF Listed

LEMMA ListedWorld ==
    ASSUME ServerOK
    PROVE  Listed = {api.tools[k] : k \in Stored(api)} /\ Listed \subseteq World
BY ListedIs DEF World, Stored

(* What Decoded does to the memory when it decodes what is in the world. *)
LEMMA DecodedKept ==
    ASSUME MemoryOK, NEW T, T \subseteq World, heap' = Decoded(heap, T)
    PROVE  /\ Kept /\ heap'[CopyCell] = heap[CopyCell]
           /\ \A t \in T : t \in Tools /\ t.rv \in Live' /\ heap'[t.rv] = t
           /\ \A p \in Cells : heap'[p] # NoTool => heap'[p] \in World /\ heap'[p].rv = p
<1>1. heap \in Memories /\ EachOnce
  BY DEF MemoryOK, TypesOK, ServerOK
<1>2. /\ T \subseteq Tools
      /\ \A t, u \in T : t.rv = u.rv => t = u
      /\ \A t \in T : heap[t.rv] \in {t, NoTool}
  BY WorldDecoded
<1>3. /\ heap' \in Memories
      /\ heap'[CopyCell] = heap[CopyCell]
      /\ \A t \in T : t.rv \in Cells /\ heap'[t.rv] = t
      /\ \A p \in Cells : heap[p] # NoTool => heap'[p] = heap[p]
      /\ \A p \in Cells : heap'[p] = heap[p] \/ (heap'[p] \in T /\ heap'[p].rv = p)
  BY <1>1, <1>2, DecodedInto
<1>4. \A t \in T : t.rv \in Live'
  BY <1>2, <1>3, NoToolIsNone DEF Live
<1>5. \A p \in Cells : heap'[p] # NoTool => heap'[p] \in World /\ heap'[p].rv = p
  BY <1>1, <1>3, CellWorld
<1> QED BY <1>2, <1>3, <1>4, <1>5 DEF Kept

(* The steps aside keep the memory in order, and so does a write.          *)
LEMMA WorkerKept ==
    ASSUME WorkerOK, UNCHANGED worker, heap'[CopyCell] = heap[CopyCell] PROVE WorkerOK'
BY DEF WorkerOK

-----------------------------------------------------------------------------
(* Server and workers *)
LEMMA AsideKeeps ==
    ASSUME MemoryOK, Aside
    PROVE  Kept /\ FifoOK' /\ ListenersOK' /\ WorkerOK' /\ Live' = Live
<1>1. Kept
  BY DEF Aside, Kept
<1> QED BY <1>1, FifoKept, ListenersKept DEF Aside, MemoryOK, TypesOK, Live

LEMMA AsideMemory ==
    ASSUME MemoryOK, Aside, UNCHANGED api PROVE MemoryOK'
<1>1. ServerOK'
  BY DEF MemoryOK, TypesOK, ServerOK, Aside
<1>2. \A p \in Cells : heap'[p] # NoTool => heap'[p] \in World /\ heap'[p].rv = p
  BY CellWorld DEF Aside, MemoryOK
<1>3. \A n \in 1..Len(api'.wire) : api'.wire[n].tool \in World
  BY WireWorld DEF MemoryOK, TypesOK
<1>4. EachOnce'
  BY <1>2, <1>3, NoNews
<1> QED BY <1>1, <1>4, AsideKeeps DEF MemoryOK, TypesOK

LEMMA WrittenMemory ==
    ASSUME MemoryOK, NEW k \in Keys, NEW e, Written(k, e)
    PROVE  MemoryOK'
<1>1. ServerOK /\ EachOnce /\ World \subseteq Tools
  BY WorldTools DEF MemoryOK, TypesOK
<1>2. /\ api.tools \in [Keys -> Tools \cup {NoTool}]
      /\ api.revision \in 1..MaxRevision /\ api.wire \in Seq(EventSet)
  BY <1>1, ApiType
<1>3. e \in EventSet /\ e.tool \in Tools /\ EventState(e).obj \in {e.tool, NoTool}
  BY DEF Written, EventSet, EventState
<1> DEFINE tools == [api.tools EXCEPT ![k] = EventState(e).obj]
           wire == Append(api.wire, e)
<1>4. /\ tools \in [Keys -> Tools \cup {NoTool}] /\ wire \in Seq(EventSet)
      /\ \A j \in Keys : tools[j] \in {api.tools[j], e.tool, NoTool}
      /\ \A n \in 1..Len(wire) : wire[n] = e \/ (n \in 1..Len(api.wire) /\ wire[n] = api.wire[n])
  BY <1>2, <1>3
<1>5. /\ api' = [tools |-> tools, revision |-> api'.revision, wire |-> wire]
      /\ api'.revision \in 1..MaxRevision
  BY DEF Written
<1>6. /\ heap' \in Memories /\ \A p \in Cells : heap'[p] = heap[p]
  BY DEF Written, Aside
<1> HIDE DEF tools, wire
<1>7. ServerOK'
  BY <1>4, <1>5, <1>6 DEF ServerOK
<1>8. api'.tools = tools /\ api'.wire = wire
  BY <1>5
<1>9. \A t \in World' : t \in World \/ t = e.tool
  BY <1>4, <1>6, <1>8 DEF World
<1>10. \/ e.tool \in World /\ api'.revision = api.revision
       \/ e.tool.rv = api.revision + 1 /\ api'.revision = api.revision + 1
  BY <1>3, NoToolIsNone DEF Written, World
<1>11. \A t \in World : t.rv # api.revision + 1
  BY <1>1, <1>2 DEF EachOnce, Tools
<1>12. \A p \in Cells : heap'[p] # NoTool => heap'[p] \in World' /\ heap'[p].rv = p
  BY <1>1, <1>6, CellWorld DEF World
<1>13. EachOnce'
  <2>1. api.revision <= api'.revision /\ api'.revision \in Int
    BY <1>2, <1>5, <1>10
  <2>2. \A t \in World' : t \in World \/ (t.rv = api.revision + 1 /\ t.rv <= api'.revision)
    BY <1>2, <1>9, <1>10
  <2>3. \A t, u \in World' : t.rv = api.revision + 1 /\ u.rv = api.revision + 1 => t = u
    BY <1>9, <1>11
  <2> QED BY <1>1, <1>12, <2>1, <2>2, <2>3, EachOnceKept
<1>14. FifoOK' /\ ListenersOK' /\ WorkerOK'
  BY AsideKeeps DEF Written
<1> QED BY <1>7, <1>13, <1>14 DEF MemoryOK, TypesOK

-----------------------------------------------------------------------------
(* The delta of an event. *)
DeltaOf(e) ==
    F!Delta(CASE e.type = "ADDED" -> "Added" [] e.type = "MODIFIED" -> "Updated"
              [] e.type = "DELETED" -> "Deleted", e.tool.rv, FALSE)

(* What the handler of an event does: it decodes the event and queues one  *)
(* delta.                                                                  *)
LEMMA DomainKnown == DOMAIN Known = {k \in Keys : indexer[k] # Nil}
BY DEF Known

LEMMA WatchIs ==
    ASSUME MemoryOK, WatchHandler
    PROVE  LET e == Head(api.wire)
               d == DeltaOf(e)
           IN  /\ e \in EventSet /\ e.key \in Keys /\ e.tool \in Tools
               /\ Kept /\ heap'[e.tool.rv] = e.tool
               /\ d \in DeltasIn(Live') /\ d.obj = e.tool.rv /\ ~ d.unknown
               /\ d.type = (CASE e.type = "ADDED" -> "Added" [] e.type = "MODIFIED" -> "Updated"
                              [] e.type = "DELETED" -> "Deleted")
               /\ d.type # "Sync"
               /\ \/ fifo' = F!QueueAction(fifo, e.key, d)
                  \/ /\ e.type = "DELETED" /\ indexer[e.key] = Nil /\ fifo.items[e.key] = <<>>
                     /\ fifo' = fifo
               /\ api.wire # <<>>
               /\ api' = [tools |-> api.tools, revision |-> api.revision, wire |-> Tail(api.wire)]
               /\ ServerOK' /\ EachOnce'
<1> DEFINE e == Head(api.wire)
           p == e.tool.rv
           d == DeltaOf(e)
<1>1. /\ MemoryOK /\ ServerOK /\ EachOnce /\ heap \in Memories /\ api.wire \in Seq(EventSet)
  BY DEF MemoryOK, TypesOK, ServerOK
<1>2. api.wire # <<>> /\ heap' = Decoded(heap, {e.tool}) /\ api' = Received(api)
  BY DEF WatchHandler, Watch
<1>3. /\ e = api.wire[1] /\ 1 \in 1..Len(api.wire) /\ Tail(api.wire) \in Seq(EventSet)
      /\ Len(Tail(api.wire)) = Len(api.wire) - 1 /\ Len(api.wire) \in Nat
      /\ \A n \in 1..Len(api.wire) - 1 : Tail(api.wire)[n] = api.wire[n + 1]
  BY <1>1, <1>2, EmptySeq, HeadTailProperties
<1>4. e \in EventSet /\ e.tool \in World /\ e.tool \in Tools
  BY <1>1, <1>3, WireWorld
<1>5. fifo' = CASE e.type = "ADDED" -> F!AddObject(fifo, e.key, p)
                [] e.type = "MODIFIED" -> F!UpdateObject(fifo, e.key, p)
                [] e.type = "DELETED" -> F!DeleteObject(fifo, e.key, p, Known)
  BY DEF WatchHandler, Watch
<1>6. api' = [tools |-> api.tools, revision |-> api.revision, wire |-> Tail(api.wire)]
  BY <1>1, <1>2, ApiType DEF Received
<1> HIDE DEF e
<1>7. /\ Kept /\ heap'[p] = e.tool /\ p \in Live'
      /\ \A q \in Cells : heap'[q] # NoTool => heap'[q] \in World /\ heap'[q].rv = q
  BY <1>1, <1>2, <1>4, DecodedKept
<1>8. e.key \in Keys /\ e.type \in {"ADDED", "MODIFIED", "DELETED"}
  BY <1>4 DEF EventSet
<1> DEFINE type == CASE e.type = "ADDED" -> "Added" [] e.type = "MODIFIED" -> "Updated"
                     [] e.type = "DELETED" -> "Deleted"
<1>9. type \in DeltaTypes /\ type # "Sync" /\ d = F!Delta(type, p, FALSE)
  BY <1>8 DEF DeltaTypes, DeltaOf
<1>10. d \in DeltasIn(Live') /\ d.obj = p /\ d.type = type /\ ~ d.unknown
  <2> DEFINE x == F!Delta(type, p, FALSE)
  <2> HIDE DEF type, p, d
  <2>1. type \in DeltaTypes /\ p \in Live' /\ d = x
    BY <1>7, <1>9
  <2>2. x \in DeltasIn(Live')
    BY <2>1, DeltaIn
  <2>3. x.type = type /\ x.obj = p /\ x.unknown = FALSE
    BY DEF F!Delta
  <2> HIDE DEF x
  <2> QED BY <2>1, <2>2, <2>3
<1>11. \/ fifo' = F!QueueAction(fifo, e.key, d)
       \/ e.type = "DELETED" /\ indexer[e.key] = Nil /\ fifo.items[e.key] = <<>> /\ fifo' = fifo
  <2>1. CASE e.type = "ADDED"
    BY <1>5, <1>9, <2>1 DEF F!AddObject
  <2>2. CASE e.type = "MODIFIED"
    BY <1>5, <1>9, <2>2 DEF F!UpdateObject
  <2>3. CASE e.type = "DELETED"
    <3>1. fifo' = F!DeleteObject(fifo, e.key, p, Known) /\ d = F!Delta("Deleted", p, FALSE)
      BY <1>5, <1>9, <2>3
    <3>2. e.key \notin DOMAIN Known => indexer[e.key] = Nil
      BY <1>8, DomainKnown
    <3> QED BY <2>3, <3>1, <3>2 DEF F!DeleteObject
  <2> QED BY <1>8, <2>1, <2>2, <2>3
<1>12. ServerOK'
  BY <1>1, <1>3, <1>6, <1>7, ApiType DEF ServerOK, Kept
<1>13. EachOnce'
  <2>1. \A n \in 1..Len(api'.wire) : api'.wire[n].tool \in World
    <3> TAKE n \in 1..Len(api'.wire)
    <3>1. api'.wire = Tail(api.wire)
      BY <1>6
    <3>2. n + 1 \in 1..Len(api.wire) /\ api'.wire[n] = api.wire[n + 1]
      BY <1>3, <3>1
    <3> QED BY <1>1, <3>2, WireWorld
  <2>2. UNCHANGED <<api.tools, api.revision>>
    BY <1>6
  <2> QED BY <1>1, <1>7, <2>1, <2>2, NoNews
<1> QED BY <1>2, <1>4, <1>6, <1>7, <1>8, <1>10, <1>11, <1>12, <1>13 DEF e

LEMMA WatchMemory ==
    ASSUME MemoryOK, FifoStaysConsistent, WatchHandler
    PROVE  MemoryOK' /\ FifoStaysConsistent'
<1> DEFINE e == Head(api.wire)
           d == DeltaOf(e)
<1>1. /\ e.key \in Keys /\ Kept /\ d \in DeltasIn(Live')
      /\ fifo' = F!QueueAction(fifo, e.key, d) \/ fifo' = fifo
      /\ ServerOK' /\ EachOnce'
  BY WatchIs
<1> HIDE DEF d, e
<1>2. fifo \in FifoIn(Live') /\ handling \in [Keys -> Seq(DeltasIn(Live'))]
  BY <1>1, KeptLive, MoreFifo, MoreDeltas DEF MemoryOK, TypesOK, FifoOK
<1>3. fifo' \in FifoIn(Live') /\ FifoStaysConsistent'
  <2> DEFINE k == e.key
             g == F!QueueAction(fifo, k, d)
  <2>1. k \in Keys
    BY <1>1
  <2> HIDE DEF k
  <2>2. g \in FifoIn(Live') /\ (F!FifoConsistent(fifo) => F!FifoConsistent(g))
    BY <1>1, <1>2, <2>1, QueueActionIs
  <2>3. fifo' = g \/ fifo' = fifo
    BY <1>1 DEF k
  <2> HIDE DEF g
  <2> QED BY <1>2, <2>2, <2>3 DEF FifoStaysConsistent
<1>4. UNCHANGED <<handling, indexer, pending, worker, told, listing>>
  BY DEF WatchHandler
<1>5. FifoOK'
  BY <1>2, <1>3, <1>4 DEF FifoOK
<1>6. ListenersOK'
  BY <1>1, <1>4, ListenersKept DEF MemoryOK, TypesOK
<1>7. WorkerOK'
  <2>1. heap'[CopyCell] = heap[CopyCell]
    <3>1. {e.tool} \subseteq World /\ heap' = Decoded(heap, {e.tool})
      <4>1. api.wire \in Seq(EventSet) /\ api.wire # <<>> /\ heap' = Decoded(heap, {e.tool})
        BY DEF MemoryOK, TypesOK, ServerOK, WatchHandler, Watch, e
      <4>2. e = api.wire[1] /\ 1 \in 1..Len(api.wire)
        BY <4>1, EmptySeq DEF e
      <4> QED BY <4>1, <4>2, WireWorld DEF MemoryOK, TypesOK
    <3> QED BY <3>1, DecodedKept
  <2> QED BY <1>4, <2>1, WorkerKept DEF MemoryOK, TypesOK
<1> QED BY <1>1, <1>3, <1>5, <1>6, <1>7 DEF MemoryOK, TypesOK

-----------------------------------------------------------------------------
(* What a repeated list does: every tool is replaced, every other known    *)
(* one is deleted, behind what is queued of them.                          *)
LEMMA ListedAtIs ==
    /\ DOMAIN ListedAt = Stored(api)
    /\ \A k \in Stored(api) : ListedAt[k] = api.tools[k].rv
BY DEF ListedAt, List

LEMMA RelistIs ==
    ASSUME MemoryOK, FifoStaysConsistent, ListAgain
    PROVE  /\ MemoryOK' /\ FifoStaysConsistent' /\ Kept
           /\ \A k \in Stored(api) :
                /\ fifo'.items[k] = F!DedupDeltas(Append(fifo.items[k], F!Delta("Replaced", api.tools[k].rv, FALSE)))
                /\ heap'[api.tools[k].rv] = api.tools[k] /\ api.tools[k].rv \in Live'
           /\ \A k \in Keys \ Stored(api) :
                fifo'.items[k] =
                    IF indexer[k] # Nil
                    THEN F!DedupDeltas(Append(fifo.items[k], F!Delta("Deleted", indexer[k], TRUE)))
                    ELSE fifo.items[k]
           /\ handling = NoDeltas /\ UNCHANGED <<handling, indexer, pending, worker, told, listing>>
           /\ \E order \in Seq(Keys) : fifo'.queue = fifo.queue \o order
           /\ fifo'.initialPopulationCount = fifo.initialPopulationCount
           /\ api' = [tools |-> api.tools, revision |-> api.revision, wire |-> <<>>]
<1> DEFINE delta == F!Replaced(ListedAt, Known)
           S == Stored(api) \cup DOMAIN Known
<1>1. /\ ServerOK /\ EachOnce /\ FifoOK /\ ListenersOK /\ WorkerOK
  BY DEF MemoryOK, TypesOK
<1>2. /\ FifoIsFree
      /\ heap' = Decoded(heap, Listed)
      /\ api' = NothingMissed(api)
      /\ UNCHANGED <<handling, indexer, pending, worker, told, listing>>
  BY DEF ListAgain
<1>3. PICK order \in Orders(F!ToQueue(fifo, S)) : fifo' = F!Replace(fifo, ListedAt, Known, order)
  BY DEF ListAgain
<1>4. Listed = {api.tools[k] : k \in Stored(api)} /\ Listed \subseteq World
  BY <1>1, ListedWorld
<1>5. /\ Kept /\ heap'[CopyCell] = heap[CopyCell]
      /\ \A t \in Listed : t \in Tools /\ t.rv \in Live' /\ heap'[t.rv] = t
      /\ \A p \in Cells : heap'[p] # NoTool => heap'[p] \in World /\ heap'[p].rv = p
  BY <1>2, <1>4, DecodedKept
<1>6. /\ fifo \in FifoIn(Live') /\ handling \in [Keys -> Seq(DeltasIn(Live'))] /\ Live \subseteq Live'
  BY <1>1, <1>5, KeptLive, MoreFifo, MoreDeltas DEF FifoOK
<1>7. /\ DOMAIN ListedAt = Stored(api) /\ \A k \in Stored(api) : ListedAt[k] = api.tools[k].rv
      /\ Stored(api) \subseteq Keys
  BY ListedAtIs DEF Stored
<1>8. \A k \in Stored(api) : ListedAt[k] \in Live' /\ heap'[ListedAt[k]] = api.tools[k]
  BY <1>4, <1>5, <1>7
<1>9. /\ DOMAIN Known = {k \in Keys : indexer[k] # Nil}
      /\ \A k \in DOMAIN Known : Known[k] = indexer[k] /\ Known[k] \in Live'
  BY <1>1, <1>6, DomainKnown DEF Known, ListenersOK
<1>10. /\ DOMAIN delta = S /\ S \subseteq Keys
       /\ \A k \in DOMAIN delta : delta[k] \in DeltasIn(Live')
       /\ \A k \in Stored(api) : delta[k] = F!Delta("Replaced", ListedAt[k], FALSE)
       /\ \A k \in DOMAIN Known \ Stored(api) : delta[k] = F!Delta("Deleted", Known[k], TRUE)
  <2>1. DOMAIN ListedAt \subseteq Keys /\ DOMAIN Known \subseteq Keys
    BY <1>7, <1>9
  <2>2. (\A k \in DOMAIN ListedAt : ListedAt[k] \in Live') /\ (\A k \in DOMAIN Known : Known[k] \in Live')
    BY <1>7, <1>8, <1>9
  <2>3. /\ DOMAIN delta = DOMAIN ListedAt \cup DOMAIN Known
        /\ \A k \in DOMAIN delta : delta[k] \in DeltasIn(Live')
        /\ \A k \in DOMAIN ListedAt : delta[k] = F!Delta("Replaced", ListedAt[k], FALSE)
        /\ \A k \in DOMAIN Known \ DOMAIN ListedAt : delta[k] = F!Delta("Deleted", Known[k], TRUE)
    <3> DEFINE list == ListedAt
               known == Known
               g == F!Replaced(list, known)
    <3>1. (\A k \in DOMAIN list : list[k] \in Live') /\ (\A k \in DOMAIN known : known[k] \in Live')
      BY <2>1, <2>2
    <3> HIDE DEF list, known
    <3>2. \A k \in DOMAIN g : g[k] \in DeltasIn(Live')
      BY <3>1, ReplacedIs
    <3>3. /\ DOMAIN g = DOMAIN list \cup DOMAIN known
          /\ \A k \in DOMAIN list : g[k] = F!Delta("Replaced", list[k], FALSE)
          /\ \A k \in DOMAIN known \ DOMAIN list : g[k] = F!Delta("Deleted", known[k], TRUE)
      BY DEF F!Replaced
    <3> QED BY <3>2, <3>3 DEF list, known
  <2> HIDE DEF delta
  <2> QED BY <1>7, <2>1, <2>3
<1>11. handling = NoDeltas
  BY <1>2 DEF FifoIsFree
<1>12. fifo' = F!QueueActions(fifo, delta, order)
  BY <1>3 DEF F!Replace
<1>13. InOrder(order, F!ToQueue(fifo, S))
  <2>1. F!ToQueue(fifo, S) \subseteq Keys
    BY <1>10 DEF F!ToQueue
  <2> QED BY <1>3, <2>1, OrdersAre
<1> HIDE DEF delta, S
<1>14. /\ fifo' \in FifoIn(Live')
       /\ order \in Seq(Keys) /\ fifo'.queue = fifo.queue \o order
       /\ fifo'.initialPopulationCount = fifo.initialPopulationCount
       /\ \A k \in S : fifo'.items[k] = F!DedupDeltas(Append(fifo.items[k], delta[k]))
       /\ \A k \in Keys \ S : fifo'.items[k] = fifo.items[k]
  <2>1. order \in Seq(Keys)
    BY <1>13 DEF InOrder
  <2> DEFINE g == F!QueueActions(fifo, delta, order)
  <2>2. /\ g \in FifoIn(Live') /\ g.queue = fifo.queue \o order
        /\ g.initialPopulationCount = fifo.initialPopulationCount
        /\ \A k \in S : g.items[k] = F!DedupDeltas(Append(fifo.items[k], delta[k]))
        /\ \A k \in Keys \ S : g.items[k] = fifo.items[k]
    BY <1>6, <1>10, <2>1, QueueActionsIs
  <2>3. fifo' = g
    BY <1>12
  <2> HIDE DEF g
  <2> QED BY <2>1, <2>2, <2>3
<1>15. FifoStaysConsistent'
  BY <1>6, <1>10, <1>12, <1>13, FifoConsistentQueued DEF FifoStaysConsistent
<1>17. api' = [tools |-> api.tools, revision |-> api.revision, wire |-> <<>>]
  BY <1>1, <1>2, ApiType DEF NothingMissed
<1>18. ServerOK'
  BY <1>1, <1>5, <1>17, ApiType DEF ServerOK, Kept
<1>19. EachOnce'
  <2>1. UNCHANGED <<api.tools, api.revision>> /\ Len(api'.wire) = 0
    BY <1>17
  <2> QED BY <1>5, <2>1, NoNews
<1>20. FifoOK'
  BY <1>2, <1>6, <1>14 DEF FifoOK
<1>21. ListenersOK' /\ WorkerOK'
  BY <1>1, <1>2, <1>5, ListenersKept, WorkerKept
<1>22. MemoryOK'
  BY <1>18, <1>19, <1>20, <1>21 DEF MemoryOK, TypesOK
<1>23. \A k \in Stored(api) : k \in S /\ delta[k] = F!Delta("Replaced", api.tools[k].rv, FALSE)
  BY <1>7, <1>10 DEF S
<1>24. \A k \in Keys \ Stored(api) :
         IF indexer[k] # Nil THEN k \in S /\ delta[k] = F!Delta("Deleted", indexer[k], TRUE)
         ELSE k \notin S
  BY <1>9, <1>10 DEF S
<1>25. ASSUME NEW k \in Stored(api)
       PROVE  fifo'.items[k] = F!DedupDeltas(Append(fifo.items[k], F!Delta("Replaced", api.tools[k].rv, FALSE)))
  BY <1>14, <1>23
<1>26. ASSUME NEW k \in Keys \ Stored(api)
       PROVE  fifo'.items[k] =
                IF indexer[k] # Nil
                THEN F!DedupDeltas(Append(fifo.items[k], F!Delta("Deleted", indexer[k], TRUE)))
                ELSE fifo.items[k]
  BY <1>14, <1>24
<1>27. \A k \in Stored(api) : heap'[api.tools[k].rv] = api.tools[k] /\ api.tools[k].rv \in Live'
  BY <1>7, <1>8
<1>28. \E line \in Seq(Keys) : fifo'.queue = fifo.queue \o line
  BY <1>14
<1> QED BY <1>2, <1>5, <1>11, <1>14, <1>15, <1>17, <1>22, <1>25, <1>26, <1>27, <1>28

-----------------------------------------------------------------------------
(* The resync timer. *)
LEMMA ResyncIs ==
    ASSUME MemoryOK, FifoStaysConsistent, ResyncTimer
    PROVE  /\ MemoryOK' /\ FifoStaysConsistent' /\ Kept
           /\ \A k \in Keys :
                fifo'.items[k] = IF indexer[k] # Nil /\ fifo.items[k] = <<>>
                                 THEN <<F!Delta("Sync", indexer[k], FALSE)>> ELSE fifo.items[k]
           /\ fifo'.initialPopulationCount = fifo.initialPopulationCount
           /\ \E order \in Seq(Keys) : fifo'.queue = fifo.queue \o order
<1> DEFINE delta == F!Synced(fifo, Known)
           S == {k \in Keys : indexer[k] # Nil /\ fifo.items[k] = <<>>}
<1>1. /\ ServerOK /\ EachOnce /\ FifoOK /\ ListenersOK /\ WorkerOK /\ fifo \in FifoIn(Live)
  BY DEF MemoryOK, TypesOK, FifoOK
<1>2. UNCHANGED <<api, heap, handling, indexer, pending, worker, told, listing>>
  BY DEF ResyncTimer
<1>3. PICK order \in Orders(F!ToQueue(fifo, DOMAIN delta)) : fifo' = F!Resync(fifo, Known, order)
  BY DEF ResyncTimer
<1>4. /\ DOMAIN delta = S
      /\ \A k \in S : delta[k] = F!Delta("Sync", indexer[k], FALSE)
  BY DomainKnown DEF F!Synced, Known
<1>5. \A k \in S : delta[k] \in DeltasIn(Live)
  <2> TAKE k \in S
  <2>1. indexer[k] \in Live /\ "Sync" \in DeltaTypes
    BY <1>1 DEF ListenersOK, DeltaTypes
  <2>2. F!Delta("Sync", indexer[k], FALSE) \in DeltasIn(Live)
    BY <2>1, DeltaIn
  <2> QED BY <1>4, <2>2
<1>6. fifo' = F!QueueActions(fifo, delta, order)
  BY <1>3 DEF F!Resync
<1>7. S \subseteq Keys /\ \A k \in S : fifo.items[k] = <<>> /\ indexer[k] # Nil
  OBVIOUS
<1>8. \A k \in Keys \ S : ~ (indexer[k] # Nil /\ fifo.items[k] = <<>>)
  OBVIOUS
<1> HIDE DEF delta, S
<1>9. InOrder(order, F!ToQueue(fifo, S))
  <2>1. F!ToQueue(fifo, S) \subseteq Keys
    BY <1>7 DEF F!ToQueue
  <2> QED BY <1>3, <1>4, <2>1, OrdersAre
<1>10. order \in Seq(Keys)
  BY <1>9 DEF InOrder
<1>11. /\ fifo' \in FifoIn(Live)
       /\ fifo'.queue = fifo.queue \o order
       /\ fifo'.initialPopulationCount = fifo.initialPopulationCount
       /\ \A k \in S : fifo'.items[k] = F!DedupDeltas(Append(fifo.items[k], delta[k]))
       /\ \A k \in Keys \ S : fifo'.items[k] = fifo.items[k]
  BY <1>1, <1>4, <1>5, <1>6, <1>7, <1>10, QueueActionsIs
<1>12. FifoStaysConsistent'
  BY <1>1, <1>4, <1>5, <1>6, <1>7, <1>9, FifoConsistentQueued DEF FifoStaysConsistent
<1>13. \A k \in S : fifo'.items[k] = <<delta[k]>>
  BY <1>7, <1>11, OneDelta
<1>14. Kept /\ Live' = Live
  BY <1>1, <1>2 DEF Kept, ServerOK, Live
<1>15. ServerOK' /\ EachOnce' /\ ListenersOK' /\ WorkerOK'
  BY <1>1, <1>2 DEF ServerOK, EachOnce, World, Live, ListenersOK, WorkerOK
<1>16. FifoOK'
  BY <1>1, <1>2, <1>11, <1>14 DEF FifoOK
<1>17. MemoryOK'
  BY <1>15, <1>16 DEF MemoryOK, TypesOK
<1>18. \A k \in Keys :
         fifo'.items[k] = IF indexer[k] # Nil /\ fifo.items[k] = <<>>
                          THEN <<F!Delta("Sync", indexer[k], FALSE)>> ELSE fifo.items[k]
  BY <1>4, <1>7, <1>8, <1>11, <1>13
<1> QED BY <1>10, <1>11, <1>12, <1>14, <1>17, <1>18

-----------------------------------------------------------------------------
(* Steps that leave server and memory alone. *)
LEMMA ServerKept ==
    ASSUME MemoryOK, UNCHANGED <<api, heap>>
    PROVE  ServerOK' /\ EachOnce' /\ Kept /\ Live' = Live
BY DEF MemoryOK, TypesOK, ServerOK, EachOnce, World, Live, Kept

(* Popping, handling and delivering move pointers and leave the memory     *)
(* alone.                                                                  *)
LEMMA PopMemory ==
    ASSUME MemoryOK, FifoStaysConsistent, ProcessLoop
    PROVE  LET k == F!Oldest(fifo)
           IN  /\ MemoryOK' /\ FifoStaysConsistent'
               /\ k \in Keys /\ k = fifo.queue[1] /\ fifo.queue # <<>>
               /\ handling = NoDeltas
               /\ fifo.items[k] # <<>> /\ handling'[k] = fifo.items[k] /\ fifo'.items[k] = <<>>
               /\ \A j \in Keys \ {k} : handling'[j] = <<>> /\ fifo'.items[j] = fifo.items[j]
               /\ fifo'.queue = Tail(fifo.queue) /\ fifo.queue \in Seq(Keys)
               /\ fifo.initialPopulationCount \in Nat
               /\ fifo'.initialPopulationCount =
                    IF fifo.initialPopulationCount > 0 THEN fifo.initialPopulationCount - 1 ELSE 0
<1> DEFINE k == F!Oldest(fifo)
<1>1. /\ fifo.queue # <<>> /\ handling = NoDeltas
      /\ handling' = [handling EXCEPT ![k] = fifo.items[k]]
      /\ fifo' = F!Pop(fifo)
      /\ UNCHANGED <<api, heap, indexer, pending, worker, told, listing, breaks>>
  BY DEF ProcessLoop, FifoIsFree
<1>2. fifo \in FifoIn(Live) /\ handling \in [Keys -> Seq(DeltasIn(Live))]
  BY DEF MemoryOK, TypesOK, FifoOK
<1>3. /\ k \in Keys /\ k = fifo.queue[1] /\ fifo' \in FifoIn(Live)
      /\ fifo'.initialPopulationCount =
            IF fifo.initialPopulationCount > 0 THEN fifo.initialPopulationCount - 1 ELSE 0
      /\ fifo'.queue = Tail(fifo.queue)
      /\ fifo'.items[k] = <<>>
      /\ \A j \in Keys \ {k} : fifo'.items[j] = fifo.items[j]
      /\ F!FifoConsistent(fifo) => F!FifoConsistent(fifo') /\ fifo.items[k] # <<>>
  BY <1>1, <1>2, PopIs
<1>4. /\ fifo.queue \in Seq(Keys) /\ fifo.initialPopulationCount \in Nat
      /\ fifo.items[k] \in Seq(DeltasIn(Live))
  BY <1>2, <1>3 DEF FifoIn
<1> HIDE DEF k
<1>5. /\ handling' \in [Keys -> Seq(DeltasIn(Live))] /\ handling'[k] = fifo.items[k]
      /\ \A j \in Keys \ {k} : handling'[j] = <<>>
  BY <1>1, <1>2, <1>3, <1>4 DEF NoDeltas
<1>6. ServerOK' /\ EachOnce' /\ Kept /\ Live' = Live
  BY <1>1, ServerKept
<1>7. FifoOK'
  BY <1>3, <1>5, <1>6 DEF FifoOK
<1>8. ListenersOK' /\ WorkerOK'
  BY <1>1, <1>6, ListenersKept, WorkerKept DEF MemoryOK, TypesOK
<1>9. MemoryOK'
  BY <1>6, <1>7, <1>8 DEF MemoryOK, TypesOK
<1> QED BY <1>1, <1>3, <1>4, <1>5, <1>9 DEF FifoStaysConsistent, k

LEMMA HandleMemory ==
    ASSUME MemoryOK, NEW k \in Keys, HandleDelta(k)
    PROVE  LET d == Head(handling[k])
           IN  /\ MemoryOK'
               /\ UNCHANGED <<api, heap, fifo, told>>
               /\ handling[k] # <<>> /\ handling[k] \in Seq(DeltasIn(Live))
               /\ handling' = [handling EXCEPT ![k] = Tail(handling[k])]
               /\ listing' = listing \ {k}
               /\ d \in DeltasIn(Live)
               /\ \/ /\ d.type = "Deleted" /\ indexer' = [indexer EXCEPT ![k] = Nil]
                     /\ pending' = Append(pending, Note(k, d.obj, Nil, d.unknown))
                     /\ Note(k, d.obj, Nil, d.unknown) \in NotesIn(Live)
                  \/ /\ d.type # "Deleted" /\ indexer' = [indexer EXCEPT ![k] = d.obj]
                     /\ \/ /\ pending' = Append(pending, Note(k, indexer[k], d.obj, FALSE))
                           /\ Note(k, indexer[k], d.obj, FALSE) \in NotesIn(Live)
                        \/ indexer[k] # Nil /\ IsSync(d, indexer[k]) /\ UNCHANGED pending
<1> DEFINE d == Head(handling[k])
<1>1. /\ handling[k] # <<>> /\ Index(k, d)
      /\ handling' = [handling EXCEPT ![k] = Tail(handling[k])]
      /\ listing' = listing \ {k}
      /\ UNCHANGED <<api, heap, fifo, worker, told, breaks>>
  BY DEF HandleDelta, MemoryOK, TypesOK, FifoOK
<1>2. /\ handling \in [Keys -> Seq(DeltasIn(Live))] /\ fifo \in FifoIn(Live)
      /\ indexer \in [Keys -> Live \cup {Nil}]
      /\ pending \in Seq(NotesIn(Live)) /\ listing \subseteq Keys
      /\ told \in [Keys -> Live \cup {Nil}]
  BY DEF MemoryOK, TypesOK, FifoOK, ListenersOK
<1>3. handling[k] \in Seq(DeltasIn(Live)) /\ d \in DeltasIn(Live) /\ Tail(handling[k]) \in Seq(DeltasIn(Live))
  BY <1>1, <1>2, HeadTailProperties
<1> HIDE DEF d
<1>4. d.obj \in Live /\ d.unknown \in BOOLEAN
  BY <1>3 DEF DeltasIn
<1>5. /\ Note(k, d.obj, Nil, d.unknown) \in NotesIn(Live)
      /\ Note(k, indexer[k], d.obj, FALSE) \in NotesIn(Live)
  BY <1>2, <1>4 DEF Note, NotesIn
<1> DEFINE x == Note(k, d.obj, Nil, d.unknown)
           y == Note(k, indexer[k], d.obj, FALSE)
<1>6. \/ /\ d.type = "Deleted" /\ indexer' = [indexer EXCEPT ![k] = Nil]
         /\ pending' = Append(pending, x)
      \/ /\ d.type # "Deleted" /\ indexer' = [indexer EXCEPT ![k] = d.obj]
         /\ \/ pending' = Append(pending, y)
            \/ indexer[k] # Nil /\ IsSync(d, indexer[k]) /\ UNCHANGED pending
  BY <1>1 DEF Index
<1> HIDE DEF x, y
<1>7. x \in NotesIn(Live) /\ y \in NotesIn(Live)
  BY <1>5 DEF x, y
<1>8. indexer' \in [Keys -> Live \cup {Nil}] /\ pending' \in Seq(NotesIn(Live))
  <2>1. [indexer EXCEPT ![k] = Nil] \in [Keys -> Live \cup {Nil}]
    BY <1>2
  <2>2. [indexer EXCEPT ![k] = d.obj] \in [Keys -> Live \cup {Nil}]
    BY <1>2, <1>4
  <2>3. Append(pending, x) \in Seq(NotesIn(Live)) /\ Append(pending, y) \in Seq(NotesIn(Live))
    BY <1>2, <1>7
  <2> QED BY <1>2, <1>6, <2>1, <2>2, <2>3
<1>9. ServerOK' /\ EachOnce' /\ Kept /\ Live' = Live
  BY <1>1, ServerKept
<1>10. FifoOK'
  BY <1>1, <1>2, <1>3, <1>9 DEF FifoOK
<1>11. ListenersOK'
  BY <1>1, <1>2, <1>8, <1>9 DEF ListenersOK
<1>12. WorkerOK'
  BY <1>1, WorkerKept DEF MemoryOK, TypesOK
<1>13. MemoryOK'
  BY <1>9, <1>10, <1>11, <1>12 DEF MemoryOK, TypesOK
<1> QED BY <1>1, <1>3, <1>6, <1>7, <1>13 DEF d, x, y

LEMMA DeliverMemory ==
    ASSUME MemoryOK, Deliver
    PROVE  /\ MemoryOK' /\ pending # <<>> /\ pending \in Seq(NotesIn(Live))
           /\ Head(pending) \in NotesIn(Live) /\ Tail(pending) \in Seq(NotesIn(Live))
<1>1. /\ pending # <<>>
      /\ told' = [told EXCEPT ![Head(pending).key] = Head(pending).new]
      /\ pending' = Tail(pending)
      /\ UNCHANGED <<api, heap, fifo, handling, indexer, worker, listing, breaks>>
  BY DEF Deliver
<1>2. /\ pending \in Seq(NotesIn(Live)) /\ told \in [Keys -> Live \cup {Nil}]
      /\ indexer \in [Keys -> Live \cup {Nil}] /\ listing \subseteq Keys
  BY DEF MemoryOK, TypesOK, ListenersOK
<1>3. Head(pending) \in NotesIn(Live) /\ Tail(pending) \in Seq(NotesIn(Live))
  BY <1>1, <1>2, HeadTailProperties
<1>4. Head(pending).new \in Live \cup {Nil}
  BY <1>3 DEF NotesIn
<1>5. ServerOK' /\ EachOnce' /\ Kept /\ Live' = Live
  BY <1>1, ServerKept
<1>6. ListenersOK'
  BY <1>1, <1>2, <1>3, <1>4, <1>5 DEF ListenersOK
<1>7. FifoOK' /\ WorkerOK'
  BY <1>1, <1>5, FifoKept, WorkerKept DEF MemoryOK, TypesOK
<1> QED BY <1>1, <1>2, <1>3, <1>5, <1>6, <1>7 DEF MemoryOK, TypesOK

-----------------------------------------------------------------------------
(* A process has put its first list into its FIFO. *)
NewMemory == [p \in 1..CopyCell |-> NoTool]

(* The memory and the FIFO after the first list of a new process.          *)
LiveIn(h) == {p \in Cells : h[p] # NoTool}

LEMMA FirstMemory ==
    ASSUME Listed \subseteq Tools, \A t, u \in Listed : t.rv = u.rv => t = u
    PROVE  LET h == Decoded(NewMemory, Listed)
           IN  /\ h \in Memories
               /\ \A k \in Stored(api) : api.tools[k].rv \in LiveIn(h) /\ h[api.tools[k].rv] = api.tools[k]
               /\ \A p \in Cells : h[p] # NoTool => h[p] \in Listed /\ h[p].rv = p
<1> DEFINE g == NewMemory
           h == Decoded(g, Listed)
<1>1. Listed = {api.tools[k] : k \in Stored(api)}
  BY ListedIs
<1>3. g \in Memories /\ \A p \in 1..CopyCell : g[p] = NoTool
  BY DEF NewMemory, Memories
<1>4. \A t \in Listed : g[t.rv] \in {t, NoTool}
  <2> TAKE t \in Listed
  <2>1. t.rv \in Cells
    BY DEF Tools, Cells
  <2> QED BY <1>3, <2>1, CellsArePlaces
<1> HIDE DEF g
<1>5. /\ h \in Memories
      /\ \A t \in Listed : t.rv \in Cells /\ h[t.rv] = t
      /\ \A p \in Cells : h[p] = g[p] \/ (h[p] \in Listed /\ h[p].rv = p)
  BY <1>3, <1>4, DecodedInto
<1> HIDE DEF h
<1>6. \A k \in Stored(api) : api.tools[k].rv \in LiveIn(h) /\ h[api.tools[k].rv] = api.tools[k]
  BY <1>1, <1>5, NoToolIsNone DEF LiveIn
<1>7. \A p \in Cells : h[p] # NoTool => h[p] \in Listed /\ h[p].rv = p
  BY <1>1, <1>3, <1>5, CellsArePlaces
<1> QED BY <1>5, <1>6, <1>7 DEF h, g

LEMMA FirstFifo ==
    ASSUME NEW L, \A k \in Stored(api) : api.tools[k].rv \in L,
           NEW order \in Orders(Stored(api))
    PROVE  LET f == F!FirstReplace(ListedAt, order)
           IN  /\ f \in FifoIn(L) /\ F!FifoConsistent(f)
               /\ f.initialPopulationCount = Len(f.queue)
               /\ \A k \in Stored(api) : f.items[k] = <<F!Delta("Replaced", api.tools[k].rv, FALSE)>>
               /\ \A k \in Keys \ Stored(api) : f.items[k] = <<>>
<1> DEFINE f == F!FirstReplace(ListedAt, order)
           new == F!NewDeltaFIFO
           delta == F!Replaced(ListedAt, <<>>)
           g == F!QueueActions(new, delta, order)
           S == Stored(api)
<1>1. S \subseteq Keys /\ DOMAIN ListedAt = S /\ \A k \in S : ListedAt[k] = api.tools[k].rv
  BY ListedAtIs DEF Stored
<1>2. /\ DOMAIN delta = S
      /\ \A k \in S : delta[k] = F!Delta("Replaced", api.tools[k].rv, FALSE)
  <2>1. DOMAIN <<>> = {}
    OBVIOUS
  <2>2. DOMAIN ListedAt \cup DOMAIN <<>> = S
    BY <1>1, <2>1
  <2> QED BY <1>1, <2>2 DEF F!Replaced
<1>3. \A k \in DOMAIN delta : delta[k] \in DeltasIn(L)
  <2> TAKE k \in DOMAIN delta
  <2>1. api.tools[k].rv \in L /\ "Replaced" \in DeltaTypes
    BY <1>2 DEF DeltaTypes
  <2>2. F!Delta("Replaced", api.tools[k].rv, FALSE) \in DeltasIn(L)
    BY <2>1, DeltaIn
  <2> QED BY <1>2, <2>2
<1>4. InOrder(order, S) /\ Len(order) = Cardinality(S)
  BY <1>1, OrdersAre
<1>5. /\ new \in FifoIn(L) /\ F!FifoConsistent(new) /\ new.queue = <<>> /\ \A k \in Keys : new.items[k] = <<>>
  BY NewFifo DEF F!NewDeltaFIFO
<1> HIDE DEF new, delta, S
<1>6. F!ToQueue(new, S) = S
  BY <1>1, <1>5 DEF F!ToQueue
<1>7. order \in Seq(Keys)
  BY <1>4 DEF InOrder
<1>8. /\ g \in FifoIn(L) /\ g.queue = new.queue \o order
      /\ \A k \in DOMAIN delta : g.items[k] = F!DedupDeltas(Append(new.items[k], delta[k]))
      /\ \A k \in Keys \ DOMAIN delta : g.items[k] = new.items[k]
  <2>0. new \in FifoIn(L)
    BY <1>5
  <2>1. DOMAIN delta \subseteq Keys
    BY <1>1, <1>2
  <2>2. g = F!QueueActions(new, delta, order)
    OBVIOUS
  <2> HIDE DEF g
  <2>3. g \in FifoIn(L)
    BY ONLY <1>3, <1>7, <2>0, <2>1, <2>2, QueueActionsIs
  <2>4. g.queue = new.queue \o order
    BY ONLY <1>3, <1>7, <2>0, <2>1, <2>2, QueueActionsIs
  <2>5. \A k \in DOMAIN delta : g.items[k] = F!DedupDeltas(Append(new.items[k], delta[k]))
    BY ONLY <1>3, <1>7, <2>0, <2>1, <2>2, QueueActionsIs
  <2>6. \A k \in Keys \ DOMAIN delta : g.items[k] = new.items[k]
    BY ONLY <1>3, <1>7, <2>0, <2>1, <2>2, QueueActionsIs
  <2> QED BY <2>3, <2>4, <2>5, <2>6
<1>9. F!FifoConsistent(g)
  BY <1>1, <1>2, <1>3, <1>4, <1>5, <1>6, FifoConsistentQueued
<1>10. g.queue = order
  BY <1>5, <1>7, <1>8
<1>11. f = [g EXCEPT !.initialPopulationCount = Cardinality(S)]
  BY <1>1, CardinalitySame DEF F!FirstReplace, new, delta
<1> HIDE DEF f, g
<1>12. /\ f.queue = g.queue /\ f.items = g.items /\ f.initialPopulationCount = Len(order)
       /\ f \in FifoIn(L)
  <2>1. Len(order) \in Nat
    BY <1>7
  <2> QED BY <1>4, <1>8, <1>11, <2>1 DEF FifoIn
<1>13. F!FifoConsistent(f)
  BY <1>9, <1>12 DEF F!FifoConsistent
<1>14. \A k \in S : f.items[k] = <<F!Delta("Replaced", api.tools[k].rv, FALSE)>>
  BY <1>1, <1>2, <1>5, <1>8, <1>12, OneDelta
<1>15. \A k \in Keys \ S : f.items[k] = <<>>
  BY <1>2, <1>5, <1>8, <1>12
<1> QED BY <1>10, <1>12, <1>13, <1>14, <1>15 DEF f, S

(* A restart, and the start, leave the informer with what it listed first. *)
LEMMA RestartIs ==
    ASSUME MemoryOK, Restart
    PROVE  /\ MemoryOK' /\ FifoStaysConsistent'
           /\ api' = [tools |-> api.tools, revision |-> api.revision, wire |-> <<>>]
           /\ fifo'.initialPopulationCount = Len(fifo'.queue)
           /\ \A k \in Stored(api) :
                /\ fifo'.items[k] = <<F!Delta("Replaced", api.tools[k].rv, FALSE)>>
                /\ heap'[api.tools[k].rv] = api.tools[k] /\ api.tools[k].rv \in Live'
           /\ \A k \in Keys \ Stored(api) : fifo'.items[k] = <<>>
           /\ \A p \in Cells : heap'[p] # NoTool => heap'[p] \in World /\ heap'[p].rv = p
<1>1. /\ api' = NothingMissed(api) /\ heap' = Decoded(NewMemory, Listed)
      /\ handling' = NoDeltas
      /\ indexer' = Nowhere /\ told' = Nowhere
      /\ pending' = <<>>
      /\ listing' = Stored(api)
      /\ worker' = Nowhere
  BY DEF Restart, NewMemory
<1>2. PICK order \in Orders(Stored(api)) : fifo' = F!FirstReplace(ListedAt, order)
  BY DEF Restart
<1>3. ServerOK
  BY DEF MemoryOK, TypesOK
<1>4. /\ heap' \in Memories
      /\ \A k \in Stored(api) : api.tools[k].rv \in LiveIn(heap') /\ heap'[api.tools[k].rv] = api.tools[k]
      /\ \A p \in Cells : heap'[p] # NoTool => heap'[p] \in World /\ heap'[p].rv = p
  <2>1. Listed \subseteq World
    BY <1>3, ListedWorld
  <2>2. Listed \subseteq Tools /\ \A t, u \in Listed : t.rv = u.rv => t = u
    BY <2>1, WorldDecoded
  <2> QED BY <1>1, <2>1, <2>2, FirstMemory
<1>5. Live' = LiveIn(heap')
  BY DEF Live, LiveIn
<1>6. /\ fifo' \in FifoIn(Live') /\ F!FifoConsistent(fifo')
      /\ fifo'.initialPopulationCount = Len(fifo'.queue)
      /\ \A k \in Stored(api) : fifo'.items[k] = <<F!Delta("Replaced", api.tools[k].rv, FALSE)>>
      /\ \A k \in Keys \ Stored(api) : fifo'.items[k] = <<>>
  <2>1. \A k \in Stored(api) : api.tools[k].rv \in Live'
    BY <1>4, <1>5
  <2> DEFINE L == Live'
             f == F!FirstReplace(ListedAt, order)
  <2> HIDE DEF L
  <2>2. /\ f \in FifoIn(L) /\ F!FifoConsistent(f)
        /\ f.initialPopulationCount = Len(f.queue)
        /\ \A k \in Stored(api) : f.items[k] = <<F!Delta("Replaced", api.tools[k].rv, FALSE)>>
        /\ \A k \in Keys \ Stored(api) : f.items[k] = <<>>
    BY <2>1, FirstFifo DEF L
  <2> HIDE DEF f
  <2> QED BY <1>2, <2>2 DEF L, f
<1>7. api' = [tools |-> api.tools, revision |-> api.revision, wire |-> <<>>]
  BY <1>1, <1>3, ApiType DEF NothingMissed
<1>8. ServerOK'
  BY <1>3, <1>4, <1>7, ApiType DEF ServerOK
<1>9. EachOnce'
  <2>1. UNCHANGED <<api.tools, api.revision>> /\ Len(api'.wire) = 0
    BY <1>7
  <2> QED BY <1>4, <2>1, NoNews
<1>10. FifoOK'
  BY <1>1, <1>6 DEF FifoOK, NoDeltas
<1>11. ListenersOK' /\ WorkerOK'
  BY <1>1 DEF ListenersOK, WorkerOK, Nowhere, Stored
<1> QED BY <1>4, <1>5, <1>6, <1>7, <1>8, <1>9, <1>10, <1>11 DEF MemoryOK, TypesOK, FifoStaysConsistent

LEMMA InitIs ==
    ASSUME Init
    PROVE  /\ MemoryOK /\ FifoStaysConsistent
           /\ api.wire = <<>>
           /\ fifo.initialPopulationCount = Len(fifo.queue)
           /\ \A k \in Stored(api) :
                /\ fifo.items[k] = <<F!Delta("Replaced", api.tools[k].rv, FALSE)>>
                /\ heap[api.tools[k].rv] = api.tools[k] /\ api.tools[k].rv \in Live
           /\ \A k \in Keys \ Stored(api) : fifo.items[k] = <<>>
<1> DEFINE one == [rv |-> 1, installed |-> FALSE]
<1>1. PICK first \in Namespaces \X {FirstName} :
         api = [tools |-> [k \in Keys |-> IF k = first THEN one ELSE NoTool], revision |-> 1, wire |-> <<>>]
  BY DEF Init
<1>2. /\ heap = Decoded(NewMemory, Listed)
      /\ handling = NoDeltas
      /\ indexer = Nowhere /\ told = Nowhere
      /\ pending = <<>>
      /\ listing = Stored(api)
      /\ worker = Nowhere
  BY DEF Init, FirstList, NewMemory
<1>3. PICK order \in Orders(Stored(api)) : fifo = F!FirstReplace(ListedAt, order)
  BY DEF Init, FirstList
<1>4. one \in Tools /\ one.rv = 1
  BY ToolInformerAssumption DEF Tools
<1> HIDE DEF one
<1>5. /\ api.tools \in [Keys -> Tools \cup {NoTool}] /\ \A k \in Keys : api.tools[k] \in {one, NoTool}
      /\ api.revision = 1 /\ api.wire = <<>>
      /\ api = [tools |-> api.tools, revision |-> api.revision, wire |-> api.wire]
  BY <1>1, <1>4
<1>6. Listed = {api.tools[k] : k \in Stored(api)} /\ Listed \subseteq {one}
  BY <1>5, ListedIs DEF Stored
<1>7. Listed \subseteq Tools /\ \A t, u \in Listed : t.rv = u.rv => t = u
  BY <1>4, <1>6
<1>8. /\ heap \in Memories
      /\ \A k \in Stored(api) : api.tools[k].rv \in LiveIn(heap) /\ heap[api.tools[k].rv] = api.tools[k]
      /\ \A p \in Cells : heap[p] # NoTool => heap[p] \in Listed /\ heap[p].rv = p
  BY <1>2, <1>7, FirstMemory
<1>9. Live = LiveIn(heap)
  BY DEF Live, LiveIn
<1>10. /\ fifo \in FifoIn(Live) /\ F!FifoConsistent(fifo)
       /\ fifo.initialPopulationCount = Len(fifo.queue)
       /\ \A k \in Stored(api) : fifo.items[k] = <<F!Delta("Replaced", api.tools[k].rv, FALSE)>>
       /\ \A k \in Keys \ Stored(api) : fifo.items[k] = <<>>
  <2>1. \A k \in Stored(api) : api.tools[k].rv \in Live
    BY <1>8, <1>9
  <2> DEFINE f == F!FirstReplace(ListedAt, order)
  <2>2. /\ f \in FifoIn(Live) /\ F!FifoConsistent(f)
        /\ f.initialPopulationCount = Len(f.queue)
        /\ \A k \in Stored(api) : f.items[k] = <<F!Delta("Replaced", api.tools[k].rv, FALSE)>>
        /\ \A k \in Keys \ Stored(api) : f.items[k] = <<>>
    BY <2>1, FirstFifo
  <2> HIDE DEF f
  <2> QED BY <1>3, <2>2 DEF f
<1>11. ServerOK
  <2>1. api.wire \in Seq(EventSet) /\ api.revision \in 1..MaxRevision
    BY <1>5, ToolInformerAssumption
  <2> QED BY <1>5, <1>8, <2>1 DEF ServerOK
<1>12. EachOnce
  <2>1. \A k \in Keys : api.tools[k] # NoTool => api.tools[k] = one
    BY <1>5
  <2>2. \A p \in Cells : heap[p] # NoTool => heap[p] = one /\ heap[p].rv = p
    BY <1>6, <1>8
  <2>3. Len(api.wire) = 0
    BY <1>5
  <2>4. World \subseteq {one}
    BY <2>1, <2>2, <2>3 DEF World
  <2> QED BY <1>4, <1>5, <2>2, <2>4 DEF EachOnce, Live
<1>13. FifoOK
  BY <1>2, <1>10 DEF FifoOK, NoDeltas
<1>14. ListenersOK /\ WorkerOK
  BY <1>2 DEF ListenersOK, WorkerOK, Nowhere, Stored
<1> QED BY <1>5, <1>8, <1>9, <1>10, <1>11, <1>12, <1>13, <1>14 DEF MemoryOK, TypesOK, FifoStaysConsistent

-----------------------------------------------------------------------------
(* The steps, by what they do to the informer. *)
Base == MemoryOK /\ FifoStaysConsistent

(* A step is one aside, a write, or one of the informer's own.             *)
LEMMA Steps ==
    ASSUME Base, [Next]_vars
    PROVE  \/ Aside /\ UNCHANGED api
           \/ \E k \in Keys : \E e : Written(k, e)
           \/ WatchHandler \/ ListAgain \/ ResyncTimer \/ ProcessLoop \/ Deliver
           \/ \E k \in Keys : HandleDelta(k)
           \/ Restart
<1>1. CASE UNCHANGED vars
  BY <1>1 DEF vars, informerVars, Aside, Base, MemoryOK, TypesOK, ServerOK, WorkerOK
<1>2. ASSUME NEW k \in Keys, UserWrites(k) PROVE \E e : Written(k, e)
  BY <1>2, UserWritesIs DEF Base
<1>3. ASSUME NEW k \in Keys, UserDeletes(k) PROVE \E e : Written(k, e)
  BY <1>3, UserDeletesIs DEF Base
<1>4. ASSUME NEW ns \in Namespaces, UserDeletesCollection(ns) PROVE \E k \in Keys : \E e : Written(k, e)
  BY <1>4, UserDeletesCollectionIs DEF Base
<1>5. ASSUME NEW k \in Keys, SyncHandler(k) PROVE Aside /\ UNCHANGED api
  BY <1>5, SyncHandlerIs DEF Base
<1>6. ASSUME NEW k \in Keys, UpdatePodbuggertoolStatus(k)
      PROVE  (Aside /\ UNCHANGED api) \/ \E e : Written(k, e)
  BY <1>6, UpdateIs DEF Base
<1> QED BY <1>1, <1>2, <1>3, <1>4, <1>5, <1>6 DEF Next

(* Types, memory and FIFO are kept by every step.                          *)
LEMMA BaseNext == Base /\ [Next]_vars => Base'
<1> SUFFICES ASSUME Base, [Next]_vars PROVE Base'
  OBVIOUS
<1>0. MemoryOK /\ FifoStaysConsistent
  BY DEF Base
<1>2. CASE Aside /\ UNCHANGED api
  BY <1>0, <1>2, AsideMemory DEF Aside, FifoStaysConsistent, Base
<1>3. ASSUME NEW k \in Keys, NEW e, Written(k, e) PROVE Base'
  BY <1>0, <1>3, WrittenMemory DEF Written, Aside, FifoStaysConsistent, Base
<1>4. CASE WatchHandler
  BY <1>0, <1>4, WatchMemory DEF Base
<1>5. CASE ListAgain
  BY <1>0, <1>5, RelistIs DEF Base
<1>6. CASE ResyncTimer
  BY <1>0, <1>6, ResyncIs DEF Base
<1>7. CASE ProcessLoop
  BY <1>0, <1>7, PopMemory DEF Base
<1>8. CASE Deliver
  BY <1>0, <1>8, DeliverMemory DEF Base, Deliver, FifoStaysConsistent
<1>9. ASSUME NEW k \in Keys, HandleDelta(k) PROVE Base'
  BY <1>0, <1>9, HandleMemory DEF Base, FifoStaysConsistent, HandleDelta
<1>10. CASE Restart
  BY <1>0, <1>10, RestartIs DEF Base
<1> QED BY <1>2, <1>3, <1>4, <1>5, <1>6, <1>7, <1>8, <1>9, <1>10, Steps

(* The types of the variables; each version of a tool is in memory once,   *)
(* in its own cell; and a key is in the FIFO's queue exactly while it has  *)
(* deltas.                                                                 *)
THEOREM ToolFifoConsistent == Spec => [](MemoryOK /\ FifoStaysConsistent)
<1>1. Init => Base
  BY InitIs DEF Base
<1> QED BY <1>1, BaseNext, PTL DEF Spec, Base

(* Nothing that came from the server is ever written to in memory. *)
THEOREM SharedStayReadOnly == Spec => SharedAreReadOnly
<1> DEFINE Same == \A p \in 1..MaxRevision : heap[p] # NoTool /\ heap'[p] # NoTool => heap'[p] = heap[p]
<1>1. Base /\ [Next]_vars => Same
  <2> SUFFICES ASSUME Base, [Next]_vars PROVE Same
    OBVIOUS
  <2>0. MemoryOK /\ FifoStaysConsistent
    BY DEF Base
  <2>1. Kept => Same
    BY DEF Kept, Cells
  <2>2. Aside => Same
    BY DEF Aside, Cells
  <2>3. UNCHANGED heap => Same
    OBVIOUS
  <2>4. Restart => Same
    <3> SUFFICES ASSUME Restart PROVE Same
      OBVIOUS
    <3>1. \A p \in Cells : heap'[p] # NoTool => heap'[p] \in World /\ heap'[p].rv = p
      BY <2>0, RestartIs
    <3>2. EachOnce
      BY <2>0 DEF MemoryOK
    <3> QED BY <3>1, <3>2, CellWorld DEF EachOnce, Cells
  <2>5. (WatchHandler \/ ListAgain) => Kept
    BY <2>0, WatchIs, RelistIs
  <2>6. ResyncTimer \/ ProcessLoop \/ Deliver \/ (\E k \in Keys : HandleDelta(k)) => UNCHANGED heap
    BY DEF ResyncTimer, ProcessLoop, Deliver, HandleDelta
  <2>7. (\E k \in Keys : \E e : Written(k, e)) => Aside
    BY DEF Written
  <2> HIDE DEF Same
  <2> QED BY <2>1, <2>2, <2>3, <2>4, <2>5, <2>6, <2>7, Steps
<1>2. Init => Base
  BY InitIs DEF Base
<1>3. Spec => [][Same]_vars
  BY <1>1, <1>2, BaseNext, PTL DEF Spec
<1> QED BY <1>3 DEF SharedAreReadOnly

-----------------------------------------------------------------------------
(* A key is handled before more of it is popped, and its line is of one    *)
(* mind with the indexer.                                                  *)
InLine ==
    \A k \in Keys :
        /\ handling[k] # <<>> => fifo.items[k] = <<>>
        /\ SoundIn(Line(k), indexer[k])

(* A deletion under way holds the object that was there before it.         *)
GoneWasThere == \A k \in Keys : Gone(heap, Store[k], News(Line(k)), EventsOf(api.wire, k))

(* A key of the first list is handled, or is among the first keys of the   *)
(* queue, until the store has it.                                          *)
ListingIn ==
    /\ fifo.initialPopulationCount <= Len(fifo.queue)
    /\ \A k \in listing :
        /\ indexer[k] = Nil
        /\ handling[k] # <<>> \/ \E n \in 1..fifo.initialPopulationCount : fifo.queue[n] = k

(* What ties deltas, events and indexer together, beside what holds of     *)
(* every Informer.                                                         *)
Lines == InLine /\ GoneWasThere

(* The inductive invariant.                                                *)
IInv == Base /\ Lines /\ ListingIn /\ P!InformerInv /\ P!UnseenLeadsToServer

(* The mapping, key by key. *)
LEMMA StatesAre == \A k \in Keys : Unseen[k] = St(heap, News(Line(k)), EventsOf(api.wire, k))
BY DEF Unseen, States, St

LEMMA StatesAre2 == \A k \in Keys : Unseen'[k] = St(heap', News(Line(k)'), EventsOf(api'.wire, k))
BY DEF Unseen, States, St

(* The mapped variables change where their own do.                         *)
LEMMA UnseenPointwise ==
    ASSUME NEW f, \A k \in Keys : Unseen'[k] = f[k], f = [k \in Keys |-> f[k]]
    PROVE  Unseen' = f
BY DEF Unseen

LEMMA StoreIs == \A k \in Keys : Store[k] = At(heap, indexer[k])
BY GetIs DEF Store

LEMMA GetIs2 == \A k \in Keys : Get(k)' = indexer'[k]
BY DEF Get, NamespaceLister, Podbuggertools, Keys

LEMMA StoreIs2 == \A k \in Keys : Store'[k] = At(heap', indexer'[k])
BY GetIs2 DEF Store

LEMMA LineTypes ==
    ASSUME MemoryOK, NEW k \in Keys
    PROVE  /\ Line(k) \in Seq(DeltasIn(Live)) /\ News(Line(k)) \in Seq(DeltasIn(Live))
           /\ News(Line(k)) \in Seq(DeltasIn(Cells))
           /\ EventsOf(api.wire, k) \in Seq(EventSet)
           /\ heap \in Memories
<1>1. handling[k] \in Seq(DeltasIn(Live)) /\ fifo.items[k] \in Seq(DeltasIn(Live))
  BY DEF MemoryOK, TypesOK, FifoOK, FifoIn
<1>2. Line(k) \in Seq(DeltasIn(Live))
  BY <1>1 DEF Line
<1>3. Seq(DeltasIn(Live)) \subseteq Seq(DeltasIn(Cells))
  BY LiveCells, MoreDeltas
<1> QED BY <1>2, <1>3, NewsType, EventsOfType DEF MemoryOK, TypesOK, ServerOK

LEMMA KeptAt == ASSUME Kept, NEW p \in Live \cup {Nil} PROVE At(heap', p) = At(heap, p)
BY KeptLive DEF At

(* What a step leaves alone is left alone in the mapping. *)
LEMMA StoreSame ==
    ASSUME MemoryOK, Kept, NEW k \in Keys, indexer'[k] = indexer[k] PROVE Store'[k] = Store[k]
<1>1. indexer[k] \in Live \cup {Nil}
  BY DEF MemoryOK, TypesOK, ListenersOK
<1> QED BY <1>1, KeptAt, StoreIs, StoreIs2

LEMMA StoreUnchanged == ASSUME MemoryOK, Kept, UNCHANGED indexer PROVE UNCHANGED Store
<1>1. \A k \in Keys : Store'[k] = Store[k]
  BY StoreSame
<1> QED BY <1>1 DEF Store

LEMMA ToldUnchanged == ASSUME MemoryOK, Kept, UNCHANGED told PROVE UNCHANGED Told
<1>1. \A k \in Keys : At(heap', told[k]) = At(heap, told[k])
  BY KeptAt DEF MemoryOK, TypesOK, ListenersOK
<1> QED BY <1>1 DEF Told

LEMMA NoticeSame ==
    ASSUME Kept, NEW n \in NotesIn(Live) PROVE Notice(heap', n) = Notice(heap, n)
<1>1. n.old \in Live \cup {Nil} /\ n.new \in Live \cup {Nil}
  BY DEF NotesIn
<1> QED BY <1>1, KeptAt DEF Notice

LEMMA NoticesUnchanged == ASSUME MemoryOK, Kept, UNCHANGED pending PROVE UNCHANGED Notices
<1>1. \A n \in DOMAIN pending : pending[n] \in NotesIn(Live)
  BY DEF MemoryOK, TypesOK, ListenersOK
<1>2. \A n \in DOMAIN pending : Notice(heap', pending[n]) = Notice(heap, pending[n])
  BY <1>1, NoticeSame
<1> QED BY <1>2 DEF Notices

(* A key whose deltas and events are the same, in the memory after a step. *)
LEMMA KeyKept ==
    ASSUME Base, Lines, Kept, NEW k \in Keys
    PROVE  /\ Gone(heap', Store[k], News(Line(k)), EventsOf(api.wire, k))
           /\ Unseen[k] = St(heap', News(Line(k)), EventsOf(api.wire, k))
<1> DEFINE ds == News(Line(k))
           es == EventsOf(api.wire, k)
           was == Store[k]
           g == heap
           h == heap'
           L == Live
<1>1. ds \in Seq(DeltasIn(L)) /\ Gone(g, was, ds, es) /\ \A p \in L : g[p] = h[p]
  BY LineTypes, KeptLive DEF Base, Lines, GoneWasThere
<1> HIDE DEF ds, es, was, g, h, L
<1>2. DeltaStates(g, ds) = DeltaStates(h, ds)
  BY <1>1, DeltaStatesSame
<1>3. St(g, ds, es) = St(h, ds, es)
  BY <1>2 DEF St
<1>4. \A n \in 1..Len(ds) : At(g, ds[n].obj) = At(h, ds[n].obj)
  <2> TAKE n \in 1..Len(ds)
  <2>1. ds[n] \in DeltasIn(L)
    BY <1>1, ElementOfSeq
  <2>2. ds[n].obj \in L
    BY <2>1 DEF DeltasIn
  <2> QED BY <1>1, <2>2 DEF At
<1>5. Gone(h, was, ds, es)
  BY <1>1, <1>3, <1>4 DEF Gone
<1> QED BY <1>3, <1>5, StatesAre DEF ds, es, was, g, h

(* A key about which nothing has changed. *)
LEMMA KeySame ==
    ASSUME Base, Lines, Kept, NEW k \in Keys,
           Line(k)' = Line(k), EventsOf(api'.wire, k) = EventsOf(api.wire, k),
           indexer'[k] = indexer[k]
    PROVE  /\ Unseen'[k] = Unseen[k]
           /\ SoundIn(Line(k)', indexer'[k])
           /\ Gone(heap', Store'[k], News(Line(k)'), EventsOf(api'.wire, k))
<1>1. /\ Gone(heap', Store[k], News(Line(k)), EventsOf(api.wire, k)) /\ SoundIn(Line(k), indexer[k])
      /\ Unseen[k] = St(heap', News(Line(k)), EventsOf(api.wire, k))
  BY KeyKept DEF Lines, InLine
<1>2. Store'[k] = Store[k]
  BY StoreSame DEF Base
<1> QED BY <1>1, <1>2, StatesAre2

(* What must be shown of a step, for each key.                             *)
LEMMA LinesPointwise ==
    ASSUME \A k \in Keys :
              /\ handling'[k] # <<>> => fifo'.items[k] = <<>>
              /\ SoundIn(Line(k)', indexer'[k])
              /\ Gone(heap', Store'[k], News(Line(k)'), EventsOf(api'.wire, k))
    PROVE  Lines'
BY DEF Lines, InLine, GoneWasThere, SoundIn, Gone

-----------------------------------------------------------------------------
(* A write of a tool is a write of Informer. *)
LEMMA WrittenMoves ==
    ASSUME Base, Lines, ListingIn, P!UnseenLeadsToServer, NEW k \in Keys, NEW e, Written(k, e)
    PROVE  /\ Lines' /\ ListingIn'
           /\ EventState(e).obj \in Tools \cup {NoTool}
           /\ P!ServerWrite(k, EventState(e).obj)
<1> DEFINE o == EventState(e).obj
           es == EventsOf(api.wire, k)
           ds == News(Line(k))
<1>1. MemoryOK /\ ServerOK /\ EachOnce /\ Aside
  BY DEF Base, MemoryOK, TypesOK, Written
<1>2. /\ Kept
      /\ UNCHANGED <<fifo, handling, indexer, pending, told, listing>>
  BY <1>1, AsideKeeps DEF Aside
<1>3. UNCHANGED <<Store, Told, Notices>>
  BY <1>1, <1>2, StoreUnchanged, ToldUnchanged, NoticesUnchanged
<1>4. \A j \in Keys : Line(j)' = Line(j)
  BY <1>2 DEF Line
<1>5. e \in EventSet /\ e.key = k /\ api'.wire = Append(api.wire, e) /\ api'.tools = [api.tools EXCEPT ![k] = o]
  BY DEF Written
<1>6. api.wire \in Seq(EventSet) /\ api.tools \in [Keys -> Tools \cup {NoTool}] /\ api.revision \in 1..MaxRevision
  BY <1>1, ApiType
<1>7. \A j \in Keys : EventsOf(api'.wire, j) = IF j = k THEN Append(EventsOf(api.wire, j), e) ELSE EventsOf(api.wire, j)
  <2> DEFINE w == api.wire
  <2>1. w \in Seq(EventSet) /\ e \in EventSet /\ e.key = k
    BY <1>5, <1>6
  <2> HIDE DEF w
  <2> TAKE j \in Keys
  <2>2. EventsOf(Append(w, e), j) = IF e.key = j THEN Append(EventsOf(w, j), e) ELSE EventsOf(w, j)
    BY ONLY <2>1, EventsOfAppended
  <2> QED BY <1>5, <2>1, <2>2 DEF w
<1>8. EventState(e) = [obj |-> o, lost |-> FALSE] /\ o \in Tools \cup {NoTool}
      /\ o = IF e.type = "DELETED" THEN NoTool ELSE e.tool
  BY <1>5 DEF EventState, EventSet
<1>9. e.tool \in Tools /\ e.tool # NoTool
  BY <1>5, NoToolIsNone DEF EventSet
<1>10. o # api.tools[k]
  <2>1. CASE e.type = "DELETED"
    BY <1>8, <1>9, <2>1 DEF Written
  <2>2. CASE e.type # "DELETED"
    <3>1. e.tool.rv = api.revision + 1 /\ o = e.tool
      BY <1>8, <2>2 DEF Written
    <3>2. api.tools[k] # NoTool => api.tools[k].rv <= api.revision
      BY <1>1 DEF EachOnce, World
    <3>3. api.revision \in Int
      BY <1>6
    <3> QED BY <1>9, <3>1, <3>2, <3>3
  <2> QED BY <2>1, <2>2
<1>11. ds \in Seq(DeltasIn(Cells)) /\ es \in Seq(EventSet) /\ heap' \in Memories
  BY <1>1, <1>2, LineTypes DEF Kept
<1>12. Gone(heap', Store[k], ds, es) /\ Unseen[k] = St(heap', ds, es)
  BY <1>2, KeyKept
<1>13. ASSUME e.type = "DELETED"
       PROVE  e.tool = IF Unseen[k] = <<>> THEN Store[k] ELSE Unseen[k][Len(Unseen[k])].obj
  <2>1. e.tool = api.tools[k]
    BY <1>13 DEF Written
  <2> QED BY <1>9, <2>1 DEF P!UnseenLeadsToServer, P!Final, P!Existing
<1>14. Gone(heap', Store[k], ds, Append(es, e)) /\ St(heap', ds, Append(es, e)) = Append(Unseen[k], EventState(e))
  <2> HIDE DEF ds, es
  <2> QED BY <1>5, <1>11, <1>12, <1>13, GoneAppended, StAppended
<1>15. ASSUME NEW j \in Keys
       PROVE  /\ Unseen'[j] = IF j = k THEN Append(Unseen[k], EventState(e)) ELSE Unseen[j]
              /\ SoundIn(Line(j)', indexer'[j])
              /\ Gone(heap', Store'[j], News(Line(j)'), EventsOf(api'.wire, j))
              /\ handling'[j] # <<>> => fifo'.items[j] = <<>>
  <2>1. CASE j = k
    <3>1. News(Line(k)') = ds /\ EventsOf(api'.wire, k) = Append(es, e)
      BY <1>4, <1>7
    <3> HIDE DEF ds, es
    <3> QED BY <1>2, <1>3, <1>4, <1>14, <2>1, <3>1, StatesAre2 DEF Lines, InLine
  <2>2. CASE j # k
    <3>1. EventsOf(api'.wire, j) = EventsOf(api.wire, j)
      BY <1>7, <2>2
    <3> QED BY <1>2, <1>4, <2>2, <3>1, KeySame DEF Lines, InLine
  <2> QED BY <2>1, <2>2
<1> HIDE DEF o
<1>16. Unseen' = [Unseen EXCEPT ![k] = Append(@, [obj |-> o, lost |-> FALSE])]
  BY <1>8, <1>15, UnseenPointwise DEF Unseen
<1>17. P!ServerWrite(k, o)
  BY <1>2, <1>3, <1>5, <1>10, <1>16 DEF P!ServerWrite
<1>18. Lines'
  BY <1>15, LinesPointwise
<1>19. ListingIn'
  BY <1>2 DEF ListingIn
<1> QED BY <1>8, <1>17, <1>18, <1>19 DEF o

-----------------------------------------------------------------------------
(* A step after which the deltas and events of every key are the same.     *)
LEMMA QuietLines ==
    ASSUME Base, Lines, Kept, UNCHANGED indexer,
           \A k \in Keys : /\ Line(k)' = Line(k)
                           /\ EventsOf(api'.wire, k) = EventsOf(api.wire, k)
                           /\ handling'[k] # <<>> => fifo'.items[k] = <<>>
    PROVE  Lines' /\ UNCHANGED <<Unseen, Store>>
<1>1. UNCHANGED Store
  BY StoreUnchanged DEF Base
<1>2. ASSUME NEW k \in Keys
      PROVE  /\ Unseen'[k] = Unseen[k]
             /\ SoundIn(Line(k)', indexer'[k])
             /\ Gone(heap', Store'[k], News(Line(k)'), EventsOf(api'.wire, k))
  BY KeySame
<1>3. Lines'
  BY <1>2, LinesPointwise
<1>4. UNCHANGED Unseen
  BY <1>2 DEF Unseen
<1> QED BY <1>1, <1>3, <1>4

(* Keys that are queued behind those of the first list leave them where    *)
(* they are.                                                               *)
LEMMA ListingLonger ==
    ASSUME ListingIn, MemoryOK, UNCHANGED <<handling, indexer, listing>>,
           fifo'.initialPopulationCount = fifo.initialPopulationCount,
           NEW order \in Seq(Keys), fifo'.queue = fifo.queue \o order
    PROVE  ListingIn'
<1> DEFINE q == fifo.queue
           c == fifo.initialPopulationCount
<1>1. q \in Seq(Keys) /\ c \in Nat
  BY DEF MemoryOK, TypesOK, FifoOK, FifoIn
<1>2. c <= Len(q) /\ fifo'.queue = q \o order /\ fifo'.initialPopulationCount = c
  BY DEF ListingIn
<1>3. \A k \in listing : /\ indexer[k] = Nil
                         /\ handling[k] # <<>> \/ \E n \in 1..c : q[n] = k
  BY DEF ListingIn
<1> HIDE DEF q, c
<1>4. /\ Len(q \o order) = Len(q) + Len(order) /\ Len(q) \in Nat /\ Len(order) \in Nat
      /\ \A n \in 1..Len(q) : (q \o order)[n] = q[n]
  BY <1>1
<1>5. \A n \in 1..c : n \in 1..Len(q)
  BY <1>1, <1>2, <1>4
<1>6. c <= Len(q \o order)
  BY <1>1, <1>2, <1>4
<1>7. \A k \in listing : /\ indexer[k] = Nil
                         /\ handling[k] # <<>> \/ \E n \in 1..c : (q \o order)[n] = k
  BY <1>3, <1>4, <1>5
<1> QED BY <1>2, <1>6, <1>7 DEF ListingIn

(* A step aside is no step of Informer.                                    *)
LEMMA AsideMoves ==
    ASSUME Base, Lines, ListingIn, Aside, UNCHANGED api
    PROVE  Lines' /\ ListingIn' /\ UNCHANGED P!informerVars
<1>1. Kept /\ UNCHANGED <<fifo, handling, indexer, pending, told, listing>>
  BY AsideKeeps DEF Aside, Base
<1>2. \A k \in Keys : /\ Line(k)' = Line(k)
                      /\ EventsOf(api'.wire, k) = EventsOf(api.wire, k)
                      /\ handling'[k] # <<>> => fifo'.items[k] = <<>>
  BY <1>1 DEF Line, Lines, InLine
<1>3. Lines' /\ UNCHANGED <<Unseen, Store>>
  BY <1>1, <1>2, QuietLines
<1>4. ListingIn'
  BY <1>1 DEF ListingIn
<1>5. UNCHANGED <<Told, Notices>>
  BY <1>1, ToldUnchanged, NoticesUnchanged DEF Base
<1> QED BY <1>1, <1>3, <1>4, <1>5 DEF P!informerVars

-----------------------------------------------------------------------------
(* What the reflector takes from the watch goes from the events of its key *)
(* to the deltas; for Informer nothing happens.                            *)
LEMMA WatchMoves ==
    ASSUME Base, Lines, ListingIn, WatchHandler
    PROVE  Lines' /\ ListingIn' /\ UNCHANGED P!informerVars
<1> DEFINE e == Head(api.wire)
           k == e.key
           d == DeltaOf(e)
           s == fifo.items[k]
           ds == News(s)
           es == EventsOf(Tail(api.wire), k)
<1>1. MemoryOK /\ ServerOK
  BY DEF Base, MemoryOK, TypesOK
<1>2. /\ e \in EventSet /\ k \in Keys /\ e.tool \in Tools
      /\ Kept /\ heap'[e.tool.rv] = e.tool
      /\ d \in DeltasIn(Live') /\ d.obj = e.tool.rv /\ ~ d.unknown
      /\ d.type = (CASE e.type = "ADDED" -> "Added" [] e.type = "MODIFIED" -> "Updated"
                     [] e.type = "DELETED" -> "Deleted")
      /\ d.type # "Sync"
      /\ \/ fifo' = F!QueueAction(fifo, k, d)
         \/ e.type = "DELETED" /\ indexer[k] = Nil /\ s = <<>> /\ fifo' = fifo
      /\ api.wire # <<>>
      /\ api' = [tools |-> api.tools, revision |-> api.revision, wire |-> Tail(api.wire)]
  BY <1>1, WatchIs
<1>3. /\ handling = NoDeltas
      /\ UNCHANGED <<handling, indexer, pending, worker, told, listing, breaks>>
  BY DEF WatchHandler, FifoIsFree
<1>4. UNCHANGED <<Store, Told, Notices>>
  BY <1>1, <1>2, <1>3, StoreUnchanged, ToldUnchanged, NoticesUnchanged
<1>5. fifo \in FifoIn(Live') /\ Live \subseteq Live' /\ Live' \subseteq Cells
  <2>1. Live \subseteq Live' /\ fifo \in FifoIn(Live)
    BY <1>1, <1>2, KeptLive DEF MemoryOK, TypesOK, FifoOK
  <2> QED BY <2>1, MoreFifo DEF Live
<1>6. \A j \in Keys : fifo.items[j] \in Seq(DeltasIn(Live')) /\ fifo.items[j] \in Seq(DeltasIn(Cells))
  BY <1>5, MoreDeltas DEF FifoIn
<1>7. \A j \in Keys : Line(j) = fifo.items[j]
  <2> TAKE j \in Keys
  <2>1. <<>> \o fifo.items[j] = fifo.items[j]
    <3> DEFINE x == fifo.items[j]
    <3>1. x \in Seq(DeltasIn(Cells))
      BY <1>6
    <3> HIDE DEF x
    <3> QED BY <3>1 DEF x
  <2> QED BY <1>3, <2>1 DEF Line, NoDeltas
<1>8. api.wire \in Seq(EventSet) /\ api'.wire = Tail(api.wire) /\ api'.tools = api.tools
  BY <1>1, <1>2, ApiType
<1>9. /\ EventsOf(api.wire, k) = <<e>> \o es
      /\ \A j \in Keys \ {k} : EventsOf(api'.wire, j) = EventsOf(api.wire, j)
      /\ EventsOf(api'.wire, k) = es
      /\ es \in Seq(EventSet)
  <2> DEFINE w == api.wire
  <2>1. w \in Seq(EventSet) /\ w # <<>>
    BY <1>2, <1>8
  <2> HIDE DEF w
  <2>2. Tail(w) \in Seq(EventSet)
    BY <2>1
  <2>3. \A j : IF Head(w).key = j THEN EventsOf(w, j) = <<Head(w)>> \o EventsOf(Tail(w), j)
               ELSE EventsOf(w, j) = EventsOf(Tail(w), j)
    BY ONLY <2>1, EventsOfShortened
  <2>4. \A j : EventsOf(Tail(w), j) \in Seq(EventSet)
    BY ONLY <2>2, EventsOfType
  <2> QED BY <1>8, <2>3, <2>4 DEF w
<1>10. DeltaState(heap', d) = EventState(e) /\ At(heap', d.obj) = e.tool
       /\ (d.type = "Deleted" <=> e.type = "DELETED")
  <2>1. e.tool.rv # Nil
    BY <1>2, <1>5, CellsArePlaces DEF Tools, Cells, CopyCell
  <2>2. At(heap', d.obj) = e.tool
    BY <1>2, <2>1 DEF At
  <2>3. d.type = "Deleted" <=> e.type = "DELETED"
    BY <1>2 DEF EventSet
  <2>4. d.unknown = FALSE
    BY <1>2 DEF DeltasIn
  <2> QED BY <2>2, <2>3, <2>4 DEF DeltaState, EventState
<1>11. Gone(heap', Store[k], ds, <<e>> \o es) /\ Unseen[k] = St(heap', ds, <<e>> \o es)
  BY <1>2, <1>7, <1>9, KeyKept
<1>12. /\ ds \in Seq(DeltasIn(Cells)) /\ d \in DeltasIn(Cells) /\ heap' \in Memories
       /\ s \in Seq(DeltasIn(Live')) /\ s \in Seq(DeltasIn(Cells))
  <2>1. s \in Seq(DeltasIn(Cells)) /\ s \in Seq(DeltasIn(Live'))
    BY <1>2, <1>6
  <2>2. d \in DeltasIn(Cells)
    BY <1>2, <1>5 DEF DeltasIn
  <2> QED BY <1>2, <2>1, <2>2, NewsType DEF Kept
<1>13. /\ Gone(heap', Store[k], Append(ds, d), es)
       /\ e.type = "DELETED" => /\ ds # <<>> => ds[Len(ds)].type # "Deleted"
                                /\ ds = <<>> => Store[k] # NoTool
       /\ Unseen[k] = St(heap', Append(ds, d), es)
  <2> DEFINE was == Store[k]
             h == heap'
  <2>1. /\ h \in Memories /\ ds \in Seq(DeltasIn(Cells)) /\ es \in Seq(EventSet) /\ e \in EventSet
        /\ d \in DeltasIn(Cells) /\ DeltaState(h, d) = EventState(e) /\ Gone(h, was, ds, <<e>> \o es)
        /\ d.type = "Deleted" => e.type = "DELETED" /\ At(h, d.obj) = e.tool
        /\ Unseen[k] = St(h, ds, <<e>> \o es)
    BY <1>2, <1>9, <1>10, <1>11, <1>12
  <2> HIDE DEF was, h, ds, es, e, d
  <2>2. /\ Gone(h, was, Append(ds, d), es)
        /\ e.type = "DELETED" => /\ ds # <<>> => ds[Len(ds)].type # "Deleted"
                                 /\ ds = <<>> => was # NoTool
    BY ONLY <2>1, GoneMoved
  <2>3. St(h, Append(ds, d), es) = St(h, ds, <<e>> \o es)
    BY ONLY <2>1, StMoved
  <2> QED BY <2>1, <2>2, <2>3 DEF was, h
<1>14. fifo' = F!QueueAction(fifo, k, d)
  <2> SUFFICES ASSUME e.type = "DELETED", indexer[k] = Nil, s = <<>> PROVE FALSE
    BY <1>2
  <2>1. ds = <<>>
    BY DEF News
  <2>2. Store[k] = NoTool
    BY <1>2, StoreIs DEF At
  <2> QED BY <1>13, <2>1, <2>2
<1>15. F!DedupDeltas(Append(s, d)) = Append(s, d) /\ News(Append(s, d)) = Append(ds, d)
  <2>1. ASSUME s # <<>>, d.type = "Deleted" PROVE s[Len(s)].type # "Deleted"
    <3> DEFINE x == ds
    <3>1. IF x = <<>> THEN s[Len(s)].type = "Sync" ELSE s[Len(s)] = x[Len(x)]
      <4> HIDE DEF s
      <4> QED BY <1>12, <2>1, NewsEnds
    <3>2. x # <<>> => x[Len(x)].type # "Deleted"
      BY <1>10, <1>13, <2>1
    <3> HIDE DEF x
    <3> QED BY <3>1, <3>2
  <2> HIDE DEF s, d
  <2>2. s \in Seq(DeltasIn(Live')) /\ d \in DeltasIn(Live') /\ d.type # "Sync"
    BY <1>2, <1>12
  <2> QED BY <2>1, <2>2, NotMerged, NewsAppended
<1>16. /\ \A j \in Keys \ {k} : fifo'.items[j] = fifo.items[j]
       /\ fifo'.items[k] = Append(s, d)
       /\ fifo'.initialPopulationCount = fifo.initialPopulationCount
       /\ fifo'.queue \in {fifo.queue, fifo.queue \o <<k>>}
  <2> DEFINE f == fifo
             L == Live'
  <2>1. f \in FifoIn(L) /\ k \in Keys /\ d \in DeltasIn(L)
    BY <1>2, <1>5
  <2>2. fifo' = F!QueueAction(f, k, d)
    BY <1>14
  <2> HIDE DEF f, k, d, L
  <2> DEFINE g == F!QueueAction(f, k, d)
  <2>3. /\ g \in FifoIn(L)
        /\ g.initialPopulationCount = f.initialPopulationCount
        /\ g.queue \in {f.queue, f.queue \o <<k>>}
        /\ g.items[k] = F!DedupDeltas(Append(f.items[k], d))
        /\ \A j \in Keys \ {k} : g.items[j] = f.items[j]
        /\ F!FifoConsistent(f) => F!FifoConsistent(g)
    BY <2>1, QueueActionIs
  <2> HIDE DEF g
  <2> QED BY <1>15, <2>2, <2>3 DEF f, g
<1>17. ASSUME NEW j \in Keys
       PROVE  /\ Unseen'[j] = Unseen[j]
              /\ SoundIn(Line(j)', indexer'[j])
              /\ Gone(heap', Store'[j], News(Line(j)'), EventsOf(api'.wire, j))
              /\ handling'[j] # <<>> => fifo'.items[j] = <<>>
  <2>1. handling'[j] = <<>>
    BY <1>3 DEF NoDeltas
  <2>2. CASE j = k
    <3>1. Line(j)' = Append(s, d)
      <4>1. s \in Seq(DeltasIn(Cells)) /\ d \in DeltasIn(Cells)
        BY <1>12
      <4>2. <<>> \o Append(s, d) = Append(s, d)
        <5> HIDE DEF s, d
        <5> QED BY ONLY <4>1
      <4>3. Line(j)' = handling'[j] \o fifo'.items[j] /\ handling'[j] = <<>> /\ fifo'.items[j] = Append(s, d)
        BY <1>16, <2>1, <2>2 DEF Line
      <4> HIDE DEF k, s, d
      <4> QED BY ONLY <4>2, <4>3
    <3>2. News(Line(j)') = Append(ds, d) /\ EventsOf(api'.wire, j) = es
      BY <1>9, <1>15, <2>2, <3>1
    <3>3. SoundIn(Append(s, d), indexer[k])
      <4>1. SoundIn(s, indexer[k])
        BY <1>2, <1>7 DEF Lines, InLine
      <4>2. s \in Seq(DeltasIn(Cells)) /\ ~ d.unknown /\ d.type # "Sync"
        BY <1>2, <1>12
      <4> HIDE DEF s, d
      <4>3. /\ Len(Append(s, d)) = Len(s) + 1 /\ Len(s) \in Nat
            /\ \A n \in 1..Len(s) : Append(s, d)[n] = s[n]
            /\ Append(s, d)[Len(s) + 1] = d
        BY <4>2
      <4>4. \A n \in 1..Len(s) + 1 : n \in 1..Len(s) \/ n = Len(s) + 1
        BY <4>3
      <4> QED BY <4>1, <4>2, <4>3, <4>4 DEF SoundIn
    <3> HIDE DEF k, s, ds, d, es
    <3>4. Unseen'[j] = Unseen[j]
      BY <1>13, <2>2, <3>2, StatesAre2
    <3>5. SoundIn(Line(j)', indexer'[j])
      BY <1>3, <2>2, <3>1, <3>3
    <3>6. Gone(heap', Store'[j], News(Line(j)'), EventsOf(api'.wire, j))
      BY <1>4, <1>13, <2>2, <3>2
    <3> QED BY <2>1, <3>4, <3>5, <3>6
  <2>3. CASE j # k
    <3>1. Line(j)' = Line(j) /\ EventsOf(api'.wire, j) = EventsOf(api.wire, j)
      BY <1>3, <1>9, <1>16, <2>3 DEF Line
    <3> QED BY <1>2, <1>3, <2>1, <3>1, KeySame
  <2> QED BY <2>2, <2>3
<1>18. Lines'
  BY <1>17, LinesPointwise
<1>19. ListingIn'
  <2>1. PICK order \in Seq(Keys) : fifo'.queue = fifo.queue \o order
    <3>1. fifo.queue \in Seq(Keys)
      BY <1>5 DEF FifoIn
    <3>2. fifo.queue = fifo.queue \o <<>> /\ <<>> \in Seq(Keys) /\ <<k>> \in Seq(Keys)
      <4> DEFINE q == fifo.queue
      <4>1. q \in Seq(Keys) /\ k \in Keys
        BY <1>2, <3>1
      <4> HIDE DEF q, k
      <4>2. q = q \o <<>> /\ <<>> \in Seq(Keys) /\ <<k>> \in Seq(Keys)
        BY ONLY <4>1
      <4> QED BY <4>2 DEF q
    <3> QED BY <1>16, <3>2
  <2> QED BY <1>1, <1>3, <1>16, <2>1, ListingLonger
<1>20. UNCHANGED Unseen
  BY <1>17 DEF Unseen
<1> QED BY <1>3, <1>4, <1>8, <1>18, <1>19, <1>20 DEF P!informerVars

-----------------------------------------------------------------------------
(* The keys that a step passes over.                                       *)
LEMMA NilStore ==
    ASSUME MemoryOK, NEW k \in Keys PROVE Store[k] # NoTool <=> indexer[k] # Nil
<1>1. indexer[k] \in Live \cup {Nil}
  BY DEF MemoryOK, TypesOK, ListenersOK
<1> QED BY <1>1, StoreIs DEF At, Live

(* With HandleDeltas at rest, the line of a key is what the FIFO has.      *)
LEMMA RestLine ==
    ASSUME MemoryOK, handling = NoDeltas, NEW k \in Keys PROVE Line(k) = fifo.items[k]
<1>1. fifo.items[k] \in Seq(DeltasIn(Live)) /\ handling[k] = <<>>
  BY DEF MemoryOK, TypesOK, FifoOK, FifoIn, NoDeltas
<1> QED BY <1>1, EmptyConcat DEF Line

LEMMA RestLine2 ==
    ASSUME MemoryOK', handling' = NoDeltas, NEW k \in Keys PROVE Line(k)' = fifo'.items[k]
<1>1. fifo'.items[k] \in Seq(DeltasIn(Live')) /\ handling'[k] = <<>>
  BY DEF MemoryOK, TypesOK, FifoOK, FifoIn, NoDeltas
<1> QED BY <1>1, EmptyConcat DEF Line

-----------------------------------------------------------------------------
(* The resync timer puts repetitions into the FIFO, which are no news.     *)
LEMMA ResyncMoves ==
    ASSUME Base, Lines, ListingIn, ResyncTimer
    PROVE  Lines' /\ ListingIn' /\ UNCHANGED P!informerVars
<1>1. MemoryOK /\ FifoStaysConsistent
  BY DEF Base
<1>2. /\ MemoryOK' /\ Kept
      /\ \A k \in Keys :
           fifo'.items[k] = IF indexer[k] # Nil /\ fifo.items[k] = <<>>
                            THEN <<F!Delta("Sync", indexer[k], FALSE)>> ELSE fifo.items[k]
      /\ fifo'.initialPopulationCount = fifo.initialPopulationCount
      /\ \E order \in Seq(Keys) : fifo'.queue = fifo.queue \o order
  BY <1>1, ResyncIs
<1>3. handling = NoDeltas /\ UNCHANGED <<api, heap, handling, indexer, pending, worker, told, listing>>
  BY DEF ResyncTimer, FifoIsFree
<1>4. UNCHANGED <<Store, Told, Notices>>
  BY <1>1, <1>2, <1>3, StoreUnchanged, ToldUnchanged, NoticesUnchanged
<1>5. ASSUME NEW k \in Keys
      PROVE  /\ Unseen'[k] = Unseen[k]
             /\ SoundIn(Line(k)', indexer'[k])
             /\ Gone(heap', Store'[k], News(Line(k)'), EventsOf(api'.wire, k))
             /\ handling'[k] # <<>> => fifo'.items[k] = <<>>
  <2>1. Line(k) = fifo.items[k] /\ Line(k)' = fifo'.items[k] /\ handling'[k] = <<>>
    BY <1>1, <1>2, <1>3, RestLine, RestLine2 DEF NoDeltas
  <2>2. CASE indexer[k] # Nil /\ fifo.items[k] = <<>>
    <3> DEFINE s == <<F!Delta("Sync", indexer[k], FALSE)>>
    <3>1. Line(k)' = s /\ Line(k) = <<>>
      BY <1>2, <2>1, <2>2
    <3>2. News(s) = <<>> /\ SoundIn(s, indexer[k])
      BY SyncLine
    <3>3. News(<<>>) = <<>>
      BY DEF News
    <3>4. /\ Gone(heap', Store[k], News(Line(k)), EventsOf(api.wire, k))
          /\ Unseen[k] = St(heap', News(Line(k)), EventsOf(api.wire, k))
      BY <1>2, KeyKept
    <3> HIDE DEF s
    <3>5. News(Line(k)') = News(Line(k))
      BY <3>1, <3>2, <3>3
    <3>6. Unseen'[k] = Unseen[k]
      BY <1>3, <3>4, <3>5, StatesAre2
    <3> QED BY <1>3, <1>4, <2>1, <3>1, <3>2, <3>4, <3>5, <3>6
  <2>3. CASE ~ (indexer[k] # Nil /\ fifo.items[k] = <<>>)
    <3>1. Line(k)' = Line(k)
      BY <1>2, <2>1, <2>3
    <3> QED BY <1>2, <1>3, <2>1, <3>1, KeySame
  <2> QED BY <2>2, <2>3
<1>6. Lines'
  BY <1>5, LinesPointwise
<1>7. ListingIn'
  BY <1>1, <1>2, <1>3, ListingLonger
<1>8. UNCHANGED Unseen
  BY <1>5 DEF Unseen
<1> QED BY <1>3, <1>4, <1>6, <1>7, <1>8 DEF P!informerVars

(* What the FIFO holds of a key when the list is repeated is what has      *)
(* reached the informer.                                                   *)
LEMMA ReachedIs ==
    ASSUME Base, Lines, ListingIn, handling = NoDeltas, NEW k \in Keys
    PROVE  LET reached == SubSeq(Unseen[k], 1, Len(News(Line(k))))
           IN  /\ Len(News(Line(k))) \in P!MayHaveReached(k)
               /\ reached = St(heap, News(Line(k)), <<>>)
               /\ Len(reached) = Len(News(Line(k)))
<1> DEFINE ds == News(Line(k))
           es == EventsOf(api.wire, k)
           a == Unseen[k]
           b == St(heap, ds, <<>>)
           n == Len(ds)
           r == SubSeq(a, 1, n)
<1>1. /\ MemoryOK /\ FifoStaysConsistent /\ heap \in Memories
      /\ Line(k) \in Seq(DeltasIn(Live)) /\ ds \in Seq(DeltasIn(Cells)) /\ es \in Seq(EventSet)
  BY LineTypes DEF Base
<1>2. Line(k) = fifo.items[k] /\ SoundIn(Line(k), indexer[k])
  BY <1>1, RestLine DEF Lines, InLine
<1>3. a = St(heap, ds, es)
  BY StatesAre
<1> HIDE DEF ds, es
<1>4. /\ a \in Seq(StateSet) /\ Len(a) = n + Len(es) /\ n \in Nat /\ Len(es) \in Nat
      /\ \A i \in 1..n : a[i] = DeltaState(heap, ds[i])
  BY <1>1, <1>3, StIs
<1>5. b \in Seq(StateSet) /\ Len(b) = n /\ \A i \in 1..n : b[i] = DeltaState(heap, ds[i])
  BY <1>1, StOfDeltas
<1> HIDE DEF a, b, n
<1>6. r \in Seq(StateSet) /\ Len(r) = n /\ \A i \in 1..n : r[i] = a[i]
  BY ONLY <1>4
<1>7. r = b
  <2> HIDE DEF r
  <2> QED BY <1>4, <1>5, <1>6, SeqEqual
<1>8. k \in listing => n > 0
  <2> SUFFICES ASSUME k \in listing PROVE n > 0
    OBVIOUS
  <2>1. indexer[k] = Nil /\ handling[k] = <<>>
    BY DEF ListingIn, NoDeltas
  <2>2. \E i \in 1..fifo.initialPopulationCount : fifo.queue[i] = k
    BY <2>1 DEF ListingIn
  <2>3. fifo.items[k] # <<>>
    <3>1. fifo.queue \in Seq(Keys) /\ fifo.initialPopulationCount \in Nat
      BY <1>1 DEF MemoryOK, TypesOK, FifoOK, FifoIn
    <3>2. fifo.initialPopulationCount <= Len(fifo.queue) /\ DOMAIN fifo.queue = 1..Len(fifo.queue) /\ Len(fifo.queue) \in Nat
      BY <3>1, LenProperties DEF ListingIn
    <3>3. \E i \in DOMAIN fifo.queue : fifo.queue[i] = k
      BY <2>2, <3>1, <3>2
    <3> QED BY <1>1, <3>3 DEF FifoStaysConsistent, F!FifoConsistent
  <2>4. Line(k)[1].type # "Sync"
    <3>1. Line(k)[1] \in DeltasIn(Live) /\ 1 \in 1..Len(Line(k))
      BY <1>1, <1>2, <2>3, EmptySeq, ElementOfSeq
    <3>2. Line(k)[1].obj \in Cells
      BY <3>1, LiveCells DEF DeltasIn
    <3> QED BY <1>2, <2>1, <3>1, <3>2, CellsArePlaces DEF SoundIn
  <2>5. ds = Line(k)
    BY <2>4 DEF ds, News
  <2> QED BY <1>1, <1>2, <1>4, <2>3, <2>5, EmptySeq DEF n
<1>9. n \in P!MayHaveReached(k)
  BY <1>4, <1>8 DEF P!MayHaveReached, a
<1> QED BY <1>6, <1>7, <1>9 DEF a, b, n, r, ds

(* What a repeated list does to a key.                                     *)
LEMMA RelistKey ==
    ASSUME Base, Lines, ListingIn, ListAgain, NEW k \in Keys
    PROVE  /\ Unseen'[k] = P!Relisted(k, Len(News(Line(k))))
           /\ SoundIn(Line(k)', indexer'[k])
           /\ Gone(heap', Store'[k], News(Line(k)'), EventsOf(api'.wire, k))
           /\ handling'[k] # <<>> => fifo'.items[k] = <<>>
<1>1. MemoryOK /\ FifoStaysConsistent
  BY DEF Base
<1>2. /\ MemoryOK' /\ Kept /\ Live \subseteq Live'
      /\ handling = NoDeltas /\ UNCHANGED <<handling, indexer, pending, worker, told, listing>>
      /\ api' = [tools |-> api.tools, revision |-> api.revision, wire |-> <<>>]
      /\ k \in Stored(api) =>
           /\ fifo'.items[k] = F!DedupDeltas(Append(fifo.items[k], F!Delta("Replaced", api.tools[k].rv, FALSE)))
           /\ heap'[api.tools[k].rv] = api.tools[k] /\ api.tools[k].rv \in Live'
      /\ k \notin Stored(api) =>
           fifo'.items[k] =
             IF indexer[k] # Nil
             THEN F!DedupDeltas(Append(fifo.items[k], F!Delta("Deleted", indexer[k], TRUE)))
             ELSE fifo.items[k]
  BY <1>1, RelistIs, KeptLive
<1> DEFINE ds == fifo.items[k]
           es == EventsOf(api.wire, k)
           n == Len(News(ds))
           h == heap'
           L == Live'
           was == Store[k]
           w == indexer[k]
           a == St(h, News(ds), <<>>)
           line == fifo'.items[k]
           reached == SubSeq(Unseen[k], 1, n)
<1>3. Line(k) = ds /\ Line(k)' = line /\ handling'[k] = <<>>
  BY <1>1, <1>2, RestLine, RestLine2 DEF NoDeltas
<1>4. EventsOf(api'.wire, k) = <<>> /\ Unseen'[k] = St(h, News(line), <<>>)
  BY <1>2, <1>3, NothingOf, StatesAre2
<1>5. Store'[k] = was /\ indexer'[k] = w /\ (was = NoTool <=> w = Nil)
  BY <1>1, <1>2, StoreSame, NilStore
<1>6. /\ h \in Memories /\ L \subseteq Cells /\ \A p \in L : h[p] # NoTool
      /\ ds \in Seq(DeltasIn(L)) /\ ds \in Seq(DeltasIn(Live)) /\ es \in Seq(EventSet)
      /\ SoundIn(ds, w) /\ Gone(h, was, News(ds), es)
  <2>1. Line(k) \in Seq(DeltasIn(Live)) /\ es \in Seq(EventSet)
    BY <1>1, LineTypes
  <2>2. Seq(DeltasIn(Live)) \subseteq Seq(DeltasIn(Live'))
    BY <1>2, MoreDeltas
  <2>3. Gone(heap', Store[k], News(Line(k)), es)
    BY <1>2, KeyKept
  <2>4. heap' \in Memories /\ Live' \subseteq Cells /\ \A p \in Live' : heap'[p] # NoTool
    BY <1>2 DEF Kept, Live
  <2>5. SoundIn(Line(k), indexer[k])
    BY DEF Lines, InLine
  <2> HIDE DEF es
  <2> QED BY <1>3, <2>1, <2>2, <2>3, <2>4, <2>5
<1>7. reached = a /\ n = Len(a) /\ n \in Nat /\ (a = <<>> <=> n = 0) /\ a \in Seq(StateSet)
  <2>1. reached = St(heap, News(ds), <<>>) /\ Len(reached) = n
    BY <1>2, <1>3, ReachedIs
  <2>2. DeltaStates(heap, News(ds)) = DeltaStates(heap', News(ds))
    <3>1. News(ds) \in Seq(DeltasIn(Live)) /\ \A p \in Live : heap[p] = heap'[p]
      BY <1>2, <1>6, NewsType, KeptLive
    <3> QED BY <3>1, DeltaStatesSame
  <2>3. reached = a
    BY <2>1, <2>2 DEF St
  <2>4. a \in Seq(StateSet)
    <3>1. News(ds) \in Seq(DeltasIn(Live))
      BY <1>6, NewsType
    <3>2. Seq(DeltasIn(Live)) \subseteq Seq(DeltasIn(Cells))
      BY LiveCells, MoreDeltas
    <3>3. News(ds) \in Seq(DeltasIn(Cells))
      BY <3>1, <3>2
    <3> QED BY <1>6, <3>3, StOfDeltas
  <2> HIDE DEF a, reached, n
  <2> QED BY <2>1, <2>3, <2>4, EmptySeq
<1>8. P!Existing = Stored(api) /\ (k \in Stored(api) => api.tools[k] \in Tools)
  BY <1>1, ApiType DEF MemoryOK, TypesOK, P!Existing, Stored
<1>9. Len(News(Line(k))) = n
  BY <1>3
<1>10. CASE k \in Stored(api)
  <2> DEFINE tool == api.tools[k]
             d == F!Delta("Replaced", tool.rv, FALSE)
             x == [obj |-> tool, lost |-> FALSE]
  <2>1. /\ d \in DeltasIn(L) /\ d.type = "Replaced" /\ d.obj = tool.rv /\ d.unknown = FALSE
    <3>1. tool.rv \in L /\ "Replaced" \in DeltaTypes
      BY <1>2, <1>10 DEF DeltaTypes
    <3> HIDE DEF tool, L
    <3>2. d \in DeltasIn(L)
      BY <3>1, DeltaIn
    <3> QED BY <3>2 DEF F!Delta
  <2>2. line = F!DedupDeltas(Append(ds, d))
    BY <1>2, <1>10
  <2>3. DeltaState(h, d) = x
    <3>1. tool.rv # Nil /\ h[tool.rv] = tool
      BY <1>2, <1>8, <1>10, ToolInformerAssumption DEF Tools, Nil, F!Nil
    <3> HIDE DEF d
    <3> QED BY <2>1, <3>1 DEF DeltaState, At
  <2> HIDE DEF d, h, L, was, w, line, ds
  <2>4. /\ SoundIn(line, w) /\ Gone(h, was, News(line), <<>>)
        /\ St(h, News(line), <<>>) = Append(a, DeltaState(h, d))
    BY <1>6, <2>1, <2>2, RelistedLine
  <2>5. P!Relisted(k, n) = a \o <<x>>
    BY <1>7, <1>8, <1>10 DEF P!Relisted, P!Listed
  <2>6. a \o <<x>> = Append(a, x)
    <3> HIDE DEF a, x
    <3>1. a \in Seq(StateSet)
      BY <1>7
    <3> QED BY <3>1
  <2> QED BY <1>3, <1>4, <1>5, <1>9, <2>3, <2>4, <2>5, <2>6 DEF h
<1>11. CASE k \notin Stored(api) /\ w # Nil
  <2> DEFINE d == F!Delta("Deleted", w, TRUE)
  <2>1. /\ d \in DeltasIn(L) /\ d.type = "Deleted" /\ d.unknown = TRUE
    <3>1. w \in L /\ "Deleted" \in DeltaTypes
      BY <1>1, <1>2, <1>11 DEF DeltaTypes, MemoryOK, TypesOK, ListenersOK
    <3> HIDE DEF w, L
    <3>2. d \in DeltasIn(L)
      BY <3>1, DeltaIn
    <3> QED BY <3>2 DEF F!Delta
  <2>2. line = F!DedupDeltas(Append(ds, d))
    BY <1>2, <1>11
  <2>3. DeltaState(h, d) = P!Deletion
    <3> HIDE DEF d
    <3> QED BY <2>1 DEF DeltaState, P!Deletion
  <2> HIDE DEF d, h, L, was, w, line, ds
  <2>4. /\ SoundIn(line, w) /\ Gone(h, was, News(line), <<>>)
        /\ St(h, News(line), <<>>) = IF a # <<>> /\ a[Len(a)].obj = NoTool THEN a
                                     ELSE Append(a, DeltaState(h, d))
    BY <1>6, <2>1, <2>2, RelistedLine
  <2>5. P!Relisted(k, n) = IF a # <<>> /\ a[Len(a)].obj = NoTool THEN a ELSE Append(a, P!Deletion)
    <3>1. Store[k] # NoTool
      BY <1>5, <1>11 DEF was
    <3>2. n > 0 <=> a # <<>>
      BY <1>7
    <3> QED BY <1>7, <1>8, <1>11, <3>1, <3>2 DEF P!Relisted
  <2> QED BY <1>3, <1>4, <1>5, <1>9, <2>3, <2>4, <2>5 DEF h
<1>12. CASE k \notin Stored(api) /\ w = Nil
  <2>1. line = ds
    BY <1>2, <1>12
  <2>2. Gone(h, was, News(ds), <<>>)
    <3>1. News(ds) \in Seq(DeltasIn(L))
      BY <1>6, NewsType
    <3>2. Seq(DeltasIn(L)) \subseteq Seq(DeltasIn(Cells))
      BY <1>6, MoreDeltas
    <3>3. News(ds) \in Seq(DeltasIn(Cells))
      BY <3>1, <3>2
    <3> QED BY <1>6, <3>3, GoneAlone
  <2>3. P!Relisted(k, n) = a
    <3>1. Store[k] = NoTool
      BY <1>5, <1>12 DEF was
    <3> HIDE DEF a, n
    <3> QED BY <1>7, <1>8, <1>12, <3>1 DEF P!Relisted
  <2> HIDE DEF h, was, w, line, ds
  <2> QED BY <1>3, <1>4, <1>5, <1>6, <1>9, <2>1, <2>2, <2>3 DEF h
<1> QED BY <1>10, <1>11, <1>12

(* A repeated list is one of Informer: what the FIFO holds had reached the *)
(* informer, and what was on the wire is lost.                             *)
LEMMA RelistMoves ==
    ASSUME Base, Lines, ListingIn, ListAgain
    PROVE  Lines' /\ ListingIn' /\ P!Relist
<1>1. MemoryOK /\ FifoStaysConsistent
  BY DEF Base
<1>2. /\ MemoryOK' /\ Kept /\ handling = NoDeltas
      /\ UNCHANGED <<handling, indexer, pending, worker, told, listing>>
      /\ fifo'.initialPopulationCount = fifo.initialPopulationCount
      /\ \E order \in Seq(Keys) : fifo'.queue = fifo.queue \o order
      /\ api'.tools = api.tools
  <2>1. api' = [tools |-> api.tools, revision |-> api.revision, wire |-> <<>>]
    BY <1>1, RelistIs
  <2>2. api'.tools = api.tools
    BY <2>1
  <2> QED BY <1>1, <2>2, RelistIs
<1>3. UNCHANGED <<Store, Told, Notices>>
  BY <1>1, <1>2, StoreUnchanged, ToldUnchanged, NoticesUnchanged
<1>4. Lines'
  BY RelistKey, LinesPointwise
<1>5. ListingIn'
  BY <1>1, <1>2, ListingLonger
<1>6. P!Relist
  <2> DEFINE reached == [k \in Keys |-> Len(News(Line(k)))]
             f == [k \in Keys |-> P!Relisted(k, reached[k])]
  <2>1. \A k \in Keys : reached[k] \in P!MayHaveReached(k)
    BY <1>2, ReachedIs
  <2>2. reached \in [Keys -> UNION {P!MayHaveReached(k) : k \in Keys}]
    <3> DEFINE R(k) == P!MayHaveReached(k)
    <3>1. \A k \in Keys : reached[k] \in R(k)
      BY <2>1
    <3> HIDE DEF R
    <3>2. \A k \in Keys : reached[k] \in UNION {R(j) : j \in Keys}
      BY <3>1
    <3> QED BY <3>2 DEF R
  <2>3. Unseen' = f
    <3>1. \A k \in Keys : Unseen'[k] = f[k]
      BY RelistKey
    <3>2. f = [k \in Keys |-> f[k]]
      OBVIOUS
    <3> HIDE DEF f
    <3> QED BY <3>1, <3>2, UnseenPointwise
  <2> HIDE DEF reached
  <2> QED BY <1>2, <1>3, <2>1, <2>2, <2>3 DEF P!Relist
<1> QED BY <1>4, <1>5, <1>6

-----------------------------------------------------------------------------
(* ProcessLoop takes the deltas of a key out of the FIFO, and HandleDeltas *)
(* has them.                                                               *)
LEMMA PopMoves ==
    ASSUME Base, Lines, ListingIn, ProcessLoop
    PROVE  Lines' /\ ListingIn' /\ UNCHANGED P!informerVars
<1> DEFINE k == F!Oldest(fifo)
           q == fifo.queue
           c == fifo.initialPopulationCount
<1>1. MemoryOK /\ FifoStaysConsistent
  BY DEF Base
<1>2. /\ MemoryOK'
      /\ k \in Keys /\ k = q[1] /\ q # <<>>
      /\ handling = NoDeltas
      /\ fifo.items[k] # <<>> /\ handling'[k] = fifo.items[k] /\ fifo'.items[k] = <<>>
      /\ \A j \in Keys \ {k} : handling'[j] = <<>> /\ fifo'.items[j] = fifo.items[j]
      /\ fifo'.queue = Tail(q) /\ q \in Seq(Keys)
      /\ c \in Nat
      /\ fifo'.initialPopulationCount = IF c > 0 THEN c - 1 ELSE 0
  BY <1>1, PopMemory
<1>3. Kept /\ UNCHANGED <<api, heap, indexer, pending, worker, told, listing, breaks>>
  BY <1>1, ServerKept DEF ProcessLoop
<1>4. c <= Len(q) /\ \A j \in listing : indexer[j] = Nil /\ \E n \in 1..c : q[n] = j
  BY <1>1, <1>2 DEF ListingIn, NoDeltas, MemoryOK, TypesOK, ListenersOK
<1> HIDE DEF k, q, c
<1>5. ASSUME NEW j \in Keys
      PROVE  Line(j)' = Line(j) /\ (handling'[j] # <<>> => fifo'.items[j] = <<>>)
  <2>1. Line(j) = fifo.items[j] /\ fifo.items[j] \in Seq(DeltasIn(Live))
    BY <1>1, <1>2, RestLine DEF MemoryOK, TypesOK, FifoOK, FifoIn
  <2> DEFINE s == fifo.items[j]
  <2>2. s \o <<>> = s /\ <<>> \o s = s
    <3>1. s \in Seq(DeltasIn(Live))
      BY <2>1
    <3> HIDE DEF s
    <3> QED BY ONLY <3>1
  <2>3. \/ handling'[j] = s /\ fifo'.items[j] = <<>>
        \/ handling'[j] = <<>> /\ fifo'.items[j] = s
    BY <1>2
  <2>4. Line(j)' = handling'[j] \o fifo'.items[j]
    BY DEF Line
  <2> HIDE DEF s
  <2> QED BY <2>1, <2>2, <2>3, <2>4 DEF s
<1>6. Lines' /\ UNCHANGED <<Unseen, Store>>
  BY <1>3, <1>5, QuietLines
<1>7. UNCHANGED <<Told, Notices>>
  BY <1>1, <1>3, ToldUnchanged, NoticesUnchanged
<1>8. ListingIn'
  <2> DEFINE t == Tail(q)
             b == fifo'.initialPopulationCount
  <2>1. Len(q) \in Nat \ {0} /\ Len(t) = Len(q) - 1 /\ \A n \in 1..Len(q) - 1 : t[n] = q[n + 1]
    BY <1>2, EmptySeq, HeadTailProperties
  <2>2. b = IF c > 0 THEN c - 1 ELSE 0
    BY <1>2
  <2> HIDE DEF t, b
  <2>3. b <= Len(t)
    BY <1>2, <1>4, <2>1, <2>2
  <2>4. ASSUME NEW j \in listing PROVE handling'[j] # <<>> \/ \E n \in 1..b : t[n] = j
    <3>1. PICK n \in 1..c : q[n] = j
      BY <1>4
    <3>2. CASE n = 1
      BY <1>2, <3>1, <3>2
    <3>3. CASE n # 1
      <4> DEFINE m == n - 1
      <4>1. m \in 1..b /\ m \in 1..Len(q) - 1 /\ m + 1 = n
        BY <1>2, <1>4, <2>2, <3>3
      <4> HIDE DEF m
      <4> QED BY <2>1, <3>1, <4>1
    <3> QED BY <3>2, <3>3
  <2>5. fifo'.queue = t
    BY <1>2 DEF t
  <2> QED BY <1>3, <1>4, <2>3, <2>4, <2>5 DEF ListingIn, b
<1> QED BY <1>3, <1>6, <1>7, <1>8 DEF P!informerVars

-----------------------------------------------------------------------------
(* The notifications that a handler is yet to be told.                     *)
LEMMA NoticesIs == Notices = NoticesOf(heap, pending)
BY DEF Notices, NoticesOf

LEMMA NoticesIs2 == Notices' = NoticesOf(heap', pending')
BY DEF Notices, NoticesOf

(* The handlers return.                                                    *)
LEMMA DeliverMoves ==
    ASSUME Base, Lines, ListingIn, Deliver
    PROVE  Lines' /\ ListingIn' /\ P!Deliver
<1> DEFINE n == Head(pending)
<1>1. MemoryOK
  BY DEF Base
<1>2. /\ MemoryOK' /\ pending # <<>> /\ pending \in Seq(NotesIn(Live))
      /\ n \in NotesIn(Live)
      /\ UNCHANGED <<api, heap, fifo, handling, indexer, worker, listing, breaks>>
      /\ pending' = Tail(pending)
      /\ told' = [told EXCEPT ![n.key] = n.new]
  BY <1>1, DeliverMemory DEF Deliver
<1>3. Kept
  BY <1>1, <1>2, ServerKept
<1>4. \A j \in Keys : Line(j)' = Line(j) /\ (handling'[j] # <<>> => fifo'.items[j] = <<>>)
  BY <1>2 DEF Line, Lines, InLine
<1>5. Lines' /\ UNCHANGED <<Unseen, Store>>
  BY <1>2, <1>3, <1>4, QuietLines
<1>6. ListingIn'
  BY <1>2 DEF ListingIn
<1>7. Notices # <<>> /\ Head(Notices) = Notice(heap, n) /\ Notices' = Tail(Notices)
  BY <1>2, NoticesTail, NoticesIs, NoticesIs2
<1>8. Notice(heap, n).key = n.key /\ Notice(heap, n).new = At(heap, n.new)
  BY DEF Notice
<1>9. told \in [Keys -> Live \cup {Nil}] /\ n.key \in Keys
  BY <1>1, <1>2 DEF MemoryOK, TypesOK, ListenersOK, NotesIn
<1>10. Told' = [Told EXCEPT ![Head(Notices).key] = Head(Notices).new]
  <2>1. \A k \in Keys : At(heap', told'[k]) = IF k = n.key THEN At(heap, n.new) ELSE At(heap, told[k])
    BY <1>2, <1>9
  <2> HIDE DEF n
  <2> QED BY <1>7, <1>8, <1>9, <2>1 DEF Told
<1> QED BY <1>2, <1>5, <1>6, <1>7, <1>10 DEF P!Deliver, P!Note

-----------------------------------------------------------------------------
(* A process that has just put its first list into its FIFO.               *)
Fresh ==
    /\ MemoryOK /\ FifoStaysConsistent
    /\ api.wire = <<>> /\ handling = NoDeltas
    /\ indexer = Nowhere /\ told = Nowhere /\ pending = <<>> /\ listing = Stored(api)
    /\ fifo.initialPopulationCount = Len(fifo.queue)
    /\ \A k \in Stored(api) :
         /\ fifo.items[k] = <<F!Delta("Replaced", api.tools[k].rv, FALSE)>>
         /\ heap[api.tools[k].rv] = api.tools[k]
    /\ \A k \in Keys \ Stored(api) : fifo.items[k] = <<>>

(* A process that has listed starts as Informer starts.                    *)
LEMMA FreshIs == Fresh => Lines /\ ListingIn /\ P!Start
<1> SUFFICES ASSUME Fresh PROVE Lines /\ ListingIn /\ P!Start
  OBVIOUS
<1>1. MemoryOK /\ api.tools \in [Keys -> Tools \cup {NoTool}] /\ P!Existing = Stored(api)
  BY ApiType DEF Fresh, MemoryOK, TypesOK, P!Existing, Stored
<1>2. ASSUME NEW k \in Keys
      PROVE  /\ Unseen[k] = IF k \in Stored(api) THEN <<[obj |-> api.tools[k], lost |-> FALSE]>> ELSE <<>>
             /\ SoundIn(Line(k), indexer[k])
             /\ Gone(heap, Store[k], News(Line(k)), EventsOf(api.wire, k))
             /\ handling[k] = <<>>
  <2>1. Line(k) = fifo.items[k] /\ handling[k] = <<>>
    BY <1>1, RestLine DEF NoDeltas, Fresh
  <2>2. EventsOf(api.wire, k) = <<>> /\ Unseen[k] = St(heap, News(Line(k)), <<>>)
    BY NothingOf, StatesAre DEF Fresh
  <2>3. CASE k \in Stored(api)
    <3> DEFINE tool == api.tools[k]
               was == Store[k]
               p == indexer[k]
               h == heap
    <3>1. tool \in Tools /\ h[tool.rv] = tool /\ Line(k) = <<F!Delta("Replaced", tool.rv, FALSE)>>
      BY <1>1, <2>1, <2>3 DEF Fresh, Stored
    <3> HIDE DEF tool, was, p, h
    <3> DEFINE s == <<F!Delta("Replaced", tool.rv, FALSE)>>
    <3>2. St(h, News(s), <<>>) = <<[obj |-> tool, lost |-> FALSE]>> /\ Gone(h, was, News(s), <<>>) /\ SoundIn(s, p)
      BY <3>1, ListedLine
    <3> HIDE DEF s
    <3>3. Line(k) = s
      BY <3>1 DEF s
    <3> QED BY <2>1, <2>2, <2>3, <3>2, <3>3 DEF tool, was, p, h
  <2>4. CASE k \notin Stored(api)
    <3>1. Line(k) = <<>>
      BY <2>1, <2>4 DEF Fresh
    <3> QED BY <2>1, <2>2, <2>4, <3>1, EmptyLine
  <2> QED BY <2>3, <2>4
<1>3. Lines
  BY <1>2 DEF Lines, InLine, GoneWasThere
<1>4. ListingIn
  <2>1. Len(fifo.queue) \in Nat /\ DOMAIN fifo.queue = 1..Len(fifo.queue)
    <3>1. fifo.queue \in Seq(Keys)
      BY <1>1 DEF MemoryOK, TypesOK, FifoOK, FifoIn
    <3> QED BY <3>1, LenProperties
  <2>2. ASSUME NEW k \in listing PROVE k \in Keys /\ indexer[k] = Nil /\ fifo.items[k] # <<>>
    <3>1. k \in Stored(api) /\ k \in Keys /\ indexer[k] = Nil
      BY DEF Fresh, Nowhere, Stored
    <3>2. fifo.items[k] = <<F!Delta("Replaced", api.tools[k].rv, FALSE)>>
      BY <3>1 DEF Fresh
    <3>3. \A d : <<d>> # <<>>
      OBVIOUS
    <3> QED BY <3>1, <3>2, <3>3
  <2>3. \A k \in listing : \E n \in 1..Len(fifo.queue) : fifo.queue[n] = k
    BY <2>1, <2>2 DEF Fresh, FifoStaysConsistent, F!FifoConsistent
  <2>4. fifo.initialPopulationCount = Len(fifo.queue)
    BY DEF Fresh
  <2> QED BY <2>1, <2>2, <2>3, <2>4 DEF ListingIn
<1>5. P!Start
  <2>1. \A k \in Keys : Unseen[k] = P!Listed(k)
    BY <1>1, <1>2 DEF P!Listed
  <2>2. Unseen = [k \in Keys |-> P!Listed(k)]
    BY <2>1 DEF Unseen
  <2>3. Store = P!Nothing
    <3>1. \A k \in Keys : Store[k] = NoTool
      BY StoreIs DEF Fresh, Nowhere, At
    <3> QED BY <3>1 DEF Store, P!Nothing
  <2>4. Told = P!Nothing
    BY DEF Fresh, Nowhere, At, Told, P!Nothing
  <2>5. Notices = <<>>
    BY DEF Fresh, Notices
  <2>6. listing = P!Existing
    BY <1>1 DEF Fresh
  <2> QED BY <2>2, <2>3, <2>4, <2>5, <2>6 DEF P!Start
<1> QED BY <1>3, <1>4, <1>5

LEMMA FreshIs2 == Fresh' => Lines' /\ ListingIn' /\ P!Start'
BY FreshIs, PTL

LEMMA InitFresh == Init => Fresh
<1> SUFFICES ASSUME Init PROVE Fresh
  OBVIOUS
<1>1. FirstList
  BY DEF Init
<1> QED BY <1>1, InitIs DEF FirstList, Fresh

(* Another process has listed the tools.                                   *)
LEMMA RestartMoves ==
    ASSUME Base, Restart
    PROVE  Lines' /\ ListingIn' /\ P!Restart
<1>1. MemoryOK
  BY DEF Base
<1>2. /\ MemoryOK' /\ FifoStaysConsistent'
      /\ api' = [tools |-> api.tools, revision |-> api.revision, wire |-> <<>>]
      /\ fifo'.initialPopulationCount = Len(fifo'.queue)
      /\ \A k \in Stored(api) :
           /\ fifo'.items[k] = <<F!Delta("Replaced", api.tools[k].rv, FALSE)>>
           /\ heap'[api.tools[k].rv] = api.tools[k]
      /\ \A k \in Keys \ Stored(api) : fifo'.items[k] = <<>>
  BY <1>1, RestartIs
<1>3. api'.tools = api.tools /\ api'.wire = <<>> /\ Stored(api') = Stored(api)
  BY <1>2 DEF Stored
<1>4. /\ handling' = NoDeltas /\ indexer' = Nowhere /\ told' = Nowhere
      /\ pending' = <<>> /\ listing' = Stored(api)
  BY DEF Restart
<1>5. Fresh'
  BY <1>2, <1>3, <1>4 DEF Fresh, NoDeltas, Nowhere
<1>6. Lines' /\ ListingIn' /\ P!Start'
  BY <1>5, FreshIs2
<1>7. P!Restart
  <2>1. P!Existing' = P!Existing /\ \A k : P!Listed(k)' = P!Listed(k)
    BY <1>3 DEF P!Existing, P!Listed
  <2>2. /\ Unseen' = [k \in Keys |-> P!Listed(k)'] /\ Store' = P!Nothing /\ Notices' = <<>>
        /\ Told' = P!Nothing /\ listing' = P!Existing'
    BY <1>6 DEF P!Start, P!Nothing
  <2> QED BY <1>3, <2>1, <2>2 DEF P!Restart
<1> QED BY <1>6, <1>7

-----------------------------------------------------------------------------
(* The line of a key HandleDeltas is at: the deltas it has, of which the   *)
(* oldest is looked at.                                                    *)
LEMMA HandledLine ==
    ASSUME Base, Lines, NEW k \in Keys, handling[k] # <<>>
    PROVE  LET s == handling[k]
           IN  /\ Line(k) = s /\ fifo.items[k] = <<>>
               /\ s \in Seq(DeltasIn(Live)) /\ Head(s) = s[1] /\ s[1] \in DeltasIn(Live)
               /\ News(s) = IF s[1].type = "Sync" THEN Tail(s) ELSE s
               /\ News(Tail(s)) = Tail(s) /\ Tail(s) \in Seq(DeltasIn(Live))
               /\ s[1].unknown => s[1].type = "Deleted"
               /\ s[1].type = "Sync" => s[1].obj = indexer[k]
               /\ \A p : SoundIn(Tail(s), p)
<1> DEFINE s == handling[k]
<1>1. s \in Seq(DeltasIn(Live)) /\ s # <<>>
  BY DEF Base, MemoryOK, TypesOK, FifoOK
<1>2. fifo.items[k] = <<>> /\ SoundIn(Line(k), indexer[k]) /\ Line(k) = s \o fifo.items[k]
  BY DEF Lines, InLine, Line
<1> HIDE DEF s
<1>3. s \o <<>> = s
  BY <1>1
<1>4. Line(k) = s /\ SoundIn(s, indexer[k])
  BY <1>2, <1>3
<1>5. Len(s) \in Nat \ {0} /\ 1 \in 1..Len(s) /\ s[1] \in DeltasIn(Live)
  BY <1>1, EmptySeq, ElementOfSeq
<1>6. \A n \in 1..Len(s) : s[n].type = "Sync" => n = 1
  BY <1>4 DEF SoundIn
<1>7. Head(s) = s[1] /\ News(s) = (IF s[1].type = "Sync" THEN Tail(s) ELSE s) /\ News(Tail(s)) = Tail(s)
  BY <1>1, <1>6, NewsTail
<1>8. (s[1].unknown => s[1].type = "Deleted") /\ (s[1].type = "Sync" => s[1].obj = indexer[k])
  BY <1>4, <1>5 DEF SoundIn
<1>9. \A p : SoundIn(Tail(s), p)
  <2> DEFINE t == Tail(s)
  <2>1. Len(t) = Len(s) - 1 /\ \A n \in 1..Len(s) - 1 : t[n] = s[n + 1]
    BY <1>1, HeadTailProperties
  <2> HIDE DEF t
  <2>2. ASSUME NEW n \in 1..Len(t)
        PROVE  (t[n].unknown => t[n].type = "Deleted") /\ t[n].type # "Sync"
    <3>1. n + 1 \in 1..Len(s) /\ n \in 1..Len(s) - 1 /\ n + 1 # 1
      BY <1>5, <2>1
    <3> QED BY <1>4, <1>6, <2>1, <3>1 DEF SoundIn
  <2> QED BY <2>2 DEF SoundIn, t
<1>10. Tail(s) \in Seq(DeltasIn(Live))
  BY <1>1, HeadTailProperties
<1> QED BY <1>1, <1>2, <1>4, <1>5, <1>7, <1>8, <1>9, <1>10 DEF s

(* HandleDeltas goes through a delta: Informer has the resync, the         *)
(* observation or the oversight of a state, or nothing if a repetition is  *)
(* not due.                                                                *)
LEMMA HandleMoves ==
    ASSUME Base, Lines, ListingIn, NEW k \in Keys, HandleDelta(k)
    PROVE  /\ Lines' /\ ListingIn'
           /\ P!Resync(k) \/ P!Observe(k) \/ P!Overlook(k) \/ UNCHANGED P!informerVars
<1> DEFINE s == handling[k]
           d == Head(s)
           es == EventsOf(api.wire, k)
<1>1. MemoryOK
  BY DEF Base
<1>2. /\ MemoryOK' /\ UNCHANGED <<api, heap, fifo, told>>
      /\ s # <<>> /\ s \in Seq(DeltasIn(Live)) /\ d \in DeltasIn(Live)
      /\ handling' = [handling EXCEPT ![k] = Tail(s)]
      /\ listing' = listing \ {k}
      /\ \/ /\ d.type = "Deleted" /\ indexer' = [indexer EXCEPT ![k] = Nil]
            /\ pending' = Append(pending, Note(k, d.obj, Nil, d.unknown))
            /\ Note(k, d.obj, Nil, d.unknown) \in NotesIn(Live)
         \/ /\ d.type # "Deleted" /\ indexer' = [indexer EXCEPT ![k] = d.obj]
            /\ \/ /\ pending' = Append(pending, Note(k, indexer[k], d.obj, FALSE))
                  /\ Note(k, indexer[k], d.obj, FALSE) \in NotesIn(Live)
               \/ indexer[k] # Nil /\ IsSync(d, indexer[k]) /\ UNCHANGED pending
  BY <1>1, HandleMemory
<1>3. /\ Line(k) = s /\ fifo.items[k] = <<>> /\ d = s[1]
      /\ News(s) = IF d.type = "Sync" THEN Tail(s) ELSE s
      /\ News(Tail(s)) = Tail(s) /\ Tail(s) \in Seq(DeltasIn(Live))
      /\ d.unknown => d.type = "Deleted"
      /\ d.type = "Sync" => d.obj = indexer[k]
      /\ \A p : SoundIn(Tail(s), p)
  BY <1>2, HandledLine
<1>4. /\ handling \in [Keys -> Seq(DeltasIn(Live))] /\ indexer \in [Keys -> Live \cup {Nil}]
      /\ pending \in Seq(NotesIn(Live)) /\ listing \subseteq Keys /\ heap \in Memories
      /\ fifo.items[k] \in Seq(DeltasIn(Live)) /\ api.wire \in Seq(EventSet)
  BY <1>1 DEF MemoryOK, TypesOK, FifoOK, FifoIn, ListenersOK, ServerOK
<1>5. Kept /\ Live \subseteq Cells
  BY <1>1, <1>2, ServerKept DEF Live
<1>6. d.obj \in Live /\ d.obj # Nil /\ At(heap, d.obj) = heap[d.obj] /\ heap[d.obj] # NoTool /\ d.unknown \in BOOLEAN
  <2>1. d.obj \in Live /\ d.unknown \in BOOLEAN
    BY <1>2 DEF DeltasIn
  <2> QED BY <1>5, <2>1, CellsArePlaces DEF At, Live, Cells
<1>7. \A j \in Keys \ {k} : Line(j)' = Line(j) /\ indexer'[j] = indexer[j] /\ handling'[j] = handling[j]
  <2> TAKE j \in Keys \ {k}
  <2>1. handling'[j] = handling[j] /\ indexer'[j] = indexer[j]
    <3> HIDE DEF d, s
    <3> QED BY <1>2, <1>4
  <2> QED BY <1>2, <2>1 DEF Line
<1>8. handling'[k] = Tail(s) /\ Line(k)' = Tail(s)
  <2> DEFINE t == Tail(s)
  <2>1. handling'[k] = t /\ t \in Seq(DeltasIn(Live)) /\ Line(k)' = handling'[k] \o fifo.items[k]
    BY <1>2, <1>3, <1>4 DEF Line
  <2> HIDE DEF t
  <2>2. t \o <<>> = t
    BY ONLY <2>1
  <2> QED BY <1>3, <2>1, <2>2 DEF t
<1>9. ListingIn'
  BY <1>2, <1>4, <1>7 DEF ListingIn
<1>10. indexer[k] # Nil => k \notin listing
  BY DEF ListingIn
<1>11. /\ Gone(heap, Store[k], News(s), es) /\ Unseen[k] = St(heap, News(s), es)
       /\ Unseen'[k] = St(heap, Tail(s), es)
       /\ es \in Seq(EventSet) /\ Tail(s) \in Seq(DeltasIn(Cells)) /\ s \in Seq(DeltasIn(Cells))
  <2>1. Unseen'[k] = St(heap, Tail(s), es)
    BY <1>2, <1>3, <1>8, StatesAre2
  <2>2. Gone(heap, Store[k], News(s), es) /\ Unseen[k] = St(heap, News(s), es)
    BY <1>3, StatesAre DEF Lines, GoneWasThere
  <2>3. es \in Seq(EventSet)
    BY <1>4, EventsOfType
  <2>4. Tail(s) \in Seq(DeltasIn(Cells)) /\ s \in Seq(DeltasIn(Cells))
    BY <1>2, <1>3, <1>5, MoreDeltas
  <2> QED BY <2>1, <2>2, <2>3, <2>4
<1>12. \A j \in Keys : Store[j] = At(heap, indexer[j]) /\ Store'[j] = At(heap, indexer'[j])
  BY <1>2, StoreIs, StoreIs2
<1>13. ASSUME Gone(heap, Store'[k], Tail(s), es) PROVE Lines'
  <2>1. ASSUME NEW j \in Keys
        PROVE  /\ handling'[j] # <<>> => fifo'.items[j] = <<>>
               /\ SoundIn(Line(j)', indexer'[j])
               /\ Gone(heap', Store'[j], News(Line(j)'), EventsOf(api'.wire, j))
    <3>1. CASE j = k
      <4>1. SoundIn(Line(k)', indexer'[k]) /\ News(Line(k)') = Tail(s)
        BY <1>3, <1>8
      <4> QED BY <1>2, <1>3, <1>13, <3>1, <4>1
    <3>2. CASE j # k
      <4>1. j \in Keys \ {k} /\ EventsOf(api'.wire, j) = EventsOf(api.wire, j)
        BY <1>2, <3>2
      <4>2. handling'[j] # <<>> => fifo'.items[j] = <<>>
        BY <1>2, <1>7, <4>1 DEF Lines, InLine
      <4> QED BY <1>5, <1>7, <4>1, <4>2, KeySame
    <3> QED BY <3>1, <3>2
  <2> QED BY <2>1, LinesPointwise
<1>14. \A j \in Keys \ {k} : Unseen'[j] = Unseen[j] /\ Store'[j] = Store[j]
  <2> TAKE j \in Keys \ {k}
  <2>1. EventsOf(api'.wire, j) = EventsOf(api.wire, j)
    BY <1>2
  <2> QED BY <1>5, <1>7, <1>12, <2>1, KeySame
<1>15. UNCHANGED <<api.tools, Told>>
  BY <1>1, <1>2, <1>5, ToldUnchanged
<1>16. \A x \in NotesIn(Live) : pending' = Append(pending, x) => Notices' = Append(Notices, Notice(heap, x))
  BY <1>2, <1>4, NoticesAppended, NoticesIs, NoticesIs2
<1>17. UNCHANGED pending => UNCHANGED Notices
  BY <1>1, <1>5, NoticesUnchanged
<1>18. CASE d.type = "Sync"
  <2>1. indexer' = indexer /\ News(s) = Tail(s) /\ indexer[k] # Nil /\ d.obj = indexer[k]
    <3>1. indexer' = [indexer EXCEPT ![k] = d.obj] /\ d.obj = indexer[k]
      BY <1>2, <1>3, <1>18
    <3> HIDE DEF d, s
    <3> QED BY <1>3, <1>4, <1>6, <1>18, <3>1
  <2>2. UNCHANGED Store
    BY <2>1, <1>1, <1>5, StoreUnchanged
  <2>3. Unseen'[k] = Unseen[k] /\ Gone(heap, Store'[k], Tail(s), es)
    BY <1>11, <2>1, <2>2
  <2>4. UNCHANGED Unseen
    BY <1>14, <2>3 DEF Unseen
  <2>5. UNCHANGED listing
    BY <1>2, <1>10, <2>1
  <2>6. CASE UNCHANGED pending
    BY <1>9, <1>13, <1>15, <1>17, <2>2, <2>3, <2>4, <2>5, <2>6 DEF P!informerVars
  <2>7. CASE pending' = Append(pending, Note(k, indexer[k], d.obj, FALSE)) /\ Note(k, indexer[k], d.obj, FALSE) \in NotesIn(Live)
    <3> DEFINE x == Note(k, indexer[k], d.obj, FALSE)
    <3>1. Notice(heap, x) = [key |-> k, old |-> Store[k], new |-> Store[k], tombstone |-> FALSE]
      BY <1>12, <2>1 DEF Notice, Note
    <3>2. Store[k] # NoTool
      BY <1>1, <2>1, NilStore
    <3> HIDE DEF x
    <3>3. Notices' = Append(Notices, Notice(heap, x))
      BY <1>16, <2>7 DEF x
    <3>4. P!Resync(k)
      BY <1>15, <2>2, <2>4, <2>5, <3>1, <3>2, <3>3 DEF P!Resync
    <3> QED BY <1>9, <1>13, <2>3, <3>4
  <2> QED BY <1>2, <1>18, <2>6, <2>7
<1>19. CASE d.type # "Sync"
  <2>1. /\ Unseen[k] # <<>> /\ Head(Unseen[k]) = DeltaState(heap, d) /\ Unseen'[k] = Tail(Unseen[k])
        /\ Gone(heap, DeltaState(heap, d).obj, Tail(s), es)
        /\ d.type = "Deleted" /\ ~d.unknown => At(heap, d.obj) = Store[k]
    <3> DEFINE h == heap
               was == Store[k]
               x == s[1]
    <3>1. /\ h \in Memories /\ s \in Seq(DeltasIn(Cells)) /\ es \in Seq(EventSet) /\ s # <<>>
          /\ Gone(h, was, s, es) /\ Unseen[k] = St(h, s, es) /\ Unseen'[k] = St(h, Tail(s), es)
      BY <1>2, <1>3, <1>4, <1>11, <1>19
    <3>2. d = x
      BY <1>3
    <3> HIDE DEF s, d, h, was, es
    <3>3. St(h, s, es) # <<>> /\ Head(St(h, s, es)) = DeltaState(h, s[1]) /\ St(h, Tail(s), es) = Tail(St(h, s, es))
      BY ONLY <3>1, StTail
    <3>4. Gone(h, DeltaState(h, s[1]).obj, Tail(s), es) /\ (s[1].type = "Deleted" /\ ~s[1].unknown => At(h, s[1].obj) = was)
      BY ONLY <3>1, GoneTail
    <3> QED BY <3>1, <3>2, <3>3, <3>4 DEF h, was
  <2>2. Unseen' = [Unseen EXCEPT ![k] = Tail(@)]
    BY <1>14, <2>1, UnseenPointwise DEF Unseen
  <2>3. CASE d.type = "Deleted"
    <3> DEFINE x == Note(k, d.obj, Nil, d.unknown)
    <3>1. DeltaState(heap, d) = [obj |-> NoTool, lost |-> d.unknown]
      BY <2>3 DEF DeltaState
    <3>2. Notice(heap, x) = [key |-> k, old |-> IF d.unknown THEN NoTool ELSE Store[k],
                              new |-> NoTool, tombstone |-> d.unknown]
      BY <2>1, <2>3 DEF Notice, Note, At
    <3>3. indexer'[k] = Nil /\ pending' = Append(pending, x) /\ x \in NotesIn(Live)
      BY <1>2, <1>4, <2>3
    <3>4. Store'[k] = NoTool
      BY <1>12, <3>3 DEF At
    <3>5. Store' = [Store EXCEPT ![k] = NoTool]
      BY <1>14, <3>4 DEF Store
    <3> HIDE DEF x
    <3>6. Notices' = Append(Notices, Notice(heap, x))
      BY <1>16, <3>3
    <3>7. P!Observe(k)
      <4>1. Head(Unseen[k]).obj = NoTool /\ Head(Unseen[k]).lost = d.unknown
        BY <2>1, <3>1
      <4>2. Notices' = Append(Notices, [key |-> k, old |-> IF Head(Unseen[k]).lost THEN NoTool ELSE Store[k],
                                        new |-> Head(Unseen[k]).obj, tombstone |-> Head(Unseen[k]).lost])
        BY <3>2, <3>6, <4>1
      <4>3. Unseen[k] # <<>> /\ Store' = [Store EXCEPT ![k] = Head(Unseen[k]).obj] /\ listing' = listing \ {k}
        BY <1>2, <2>1, <3>5, <4>1
      <4> QED BY <1>15, <2>2, <4>2, <4>3 DEF P!Observe
    <3>8. Gone(heap, Store'[k], Tail(s), es)
      BY <2>1, <3>1, <3>4
    <3> QED BY <1>9, <1>13, <3>7, <3>8
  <2>4. CASE d.type # "Deleted"
    <3> DEFINE o == At(heap, d.obj)
    <3>1. DeltaState(heap, d) = [obj |-> o, lost |-> FALSE]
      BY <1>3, <1>6, <2>4 DEF DeltaState
    <3>2. indexer'[k] = d.obj
      BY <1>2, <1>4, <2>4
    <3>3. Store'[k] = o
      BY <1>12, <3>2
    <3>4. Gone(heap, Store'[k], Tail(s), es)
      BY <2>1, <3>1, <3>3
    <3>5. Store' = [Store EXCEPT ![k] = o]
      <4> HIDE DEF o
      <4> QED BY <1>14, <3>3 DEF Store
    <3>6. CASE pending' = Append(pending, Note(k, indexer[k], d.obj, FALSE)) /\ Note(k, indexer[k], d.obj, FALSE) \in NotesIn(Live)
      <4> DEFINE x == Note(k, indexer[k], d.obj, FALSE)
      <4>1. Notice(heap, x) = [key |-> k, old |-> Store[k], new |-> o, tombstone |-> FALSE]
        BY <1>12 DEF Notice, Note
      <4> HIDE DEF x
      <4>2. Notices' = Append(Notices, Notice(heap, x))
        BY <1>16, <3>6 DEF x
      <4>3. P!Observe(k)
        <5>1. Head(Unseen[k]).obj = o /\ Head(Unseen[k]).lost = FALSE
          BY <2>1, <3>1
        <5>2. Notices' = Append(Notices, [key |-> k, old |-> IF Head(Unseen[k]).lost THEN NoTool ELSE Store[k],
                                          new |-> Head(Unseen[k]).obj, tombstone |-> Head(Unseen[k]).lost])
          BY <4>1, <4>2, <5>1
        <5>3. Unseen[k] # <<>> /\ Store' = [Store EXCEPT ![k] = Head(Unseen[k]).obj] /\ listing' = listing \ {k}
          BY <1>2, <2>1, <3>5, <5>1
        <5> QED BY <1>15, <2>2, <5>2, <5>3 DEF P!Observe
      <4> QED BY <1>9, <1>13, <3>4, <4>3
    <3>7. CASE indexer[k] # Nil /\ IsSync(d, indexer[k]) /\ UNCHANGED pending
      <4>1. heap[d.obj].rv = heap[indexer[k]].rv
        BY <1>19, <3>7 DEF IsSync
      <4>2. indexer[k] \in Live
        BY <1>4, <3>7
      <4>3. d.obj = indexer[k]
        BY <1>1, <1>6, <4>1, <4>2 DEF MemoryOK, EachOnce
      <4>4. o = Store[k] /\ Store[k] # NoTool
        BY <1>1, <1>12, <3>7, <4>3, NilStore
      <4>5. UNCHANGED Store
        BY <3>5, <4>4 DEF Store
      <4>6. UNCHANGED listing
        BY <1>2, <1>10, <3>7
      <4>7. P!Overlook(k)
        <5> HIDE DEF o, d
        <5> QED BY <1>15, <1>17, <2>1, <2>2, <3>1, <3>7, <4>4, <4>5, <4>6 DEF P!Overlook
      <4> QED BY <1>9, <1>13, <3>4, <4>7
    <3> QED BY <1>2, <2>4, <3>6, <3>7
  <2> QED BY <2>3, <2>4
<1> QED BY <1>18, <1>19

-----------------------------------------------------------------------------
(* Every step is one of Informer, or none; only a list is a list there,    *)
(* and only a write makes a revision.                                      *)
Move ==
    \/ P!Restart \/ P!Deliver \/ UNCHANGED P!informerVars
    \/ ListAgain /\ P!Relist
    \/ \E k \in Keys : P!Observe(k) \/ P!Overlook(k) \/ P!Resync(k)

(* Each step by itself, gathered from the lemmas above.                    *)
LEMMA Moves ==
    ASSUME IInv, [Next]_vars
    PROVE  /\ Lines' /\ ListingIn'
           /\ \/ UNCHANGED api.revision /\ Move
              \/ \E k \in Keys : \E e : Written(k, e) /\ P!ServerWrite(k, EventState(e).obj)
<1> DEFINE Writes == \E k \in Keys : \E e : Written(k, e) /\ P!ServerWrite(k, EventState(e).obj)
           Goal == Lines' /\ ListingIn' /\ ((UNCHANGED api.revision /\ Move) \/ Writes)
<1>1. Base /\ Lines /\ ListingIn /\ P!UnseenLeadsToServer
  BY DEF IInv
<1>2. ASSUME Aside, UNCHANGED api PROVE Goal
  BY <1>1, <1>2, AsideMoves DEF Move
<1>3. ASSUME NEW k \in Keys, NEW e, Written(k, e) PROVE Goal
  BY <1>1, <1>3, WrittenMoves
<1>4. ASSUME WatchHandler PROVE Goal
  <2>1. UNCHANGED api.revision
    BY <1>4 DEF WatchHandler, Received
  <2> QED BY <1>1, <1>4, <2>1, WatchMoves DEF Move
<1>5. ASSUME ListAgain PROVE Goal
  <2>1. UNCHANGED api.revision
    BY <1>5 DEF ListAgain, NothingMissed
  <2> QED BY <1>1, <1>5, <2>1, RelistMoves DEF Move
<1>6. ASSUME ResyncTimer PROVE Goal
  <2>1. UNCHANGED api.revision
    BY <1>6 DEF ResyncTimer
  <2> QED BY <1>1, <1>6, <2>1, ResyncMoves DEF Move
<1>7. ASSUME ProcessLoop PROVE Goal
  <2>1. UNCHANGED api.revision
    BY <1>7 DEF ProcessLoop
  <2> QED BY <1>1, <1>7, <2>1, PopMoves DEF Move
<1>8. ASSUME Deliver PROVE Goal
  <2>1. UNCHANGED api.revision
    BY <1>8 DEF Deliver
  <2> QED BY <1>1, <1>8, <2>1, DeliverMoves DEF Move
<1>9. ASSUME NEW k \in Keys, HandleDelta(k) PROVE Goal
  <2>1. UNCHANGED api.revision
    BY <1>9 DEF HandleDelta
  <2> QED BY <1>1, <1>9, <2>1, HandleMoves DEF Move
<1>10. ASSUME Restart PROVE Goal
  <2>1. UNCHANGED api.revision
    BY <1>10 DEF Restart, NothingMissed
  <2> QED BY <1>1, <1>10, <2>1, RestartMoves DEF Move
<1> HIDE DEF Goal
<1>11. Goal
  BY <1>1, <1>2, <1>3, <1>4, <1>5, <1>6, <1>7, <1>8, <1>9, <1>10, Steps
<1> QED BY <1>11 DEF Goal

(* A step of ToolInformer is a step of Informer, or none.                  *)
LEMMA InformerMoves == IInv /\ [Next]_vars => [P!InformerNext]_P!informerVars
<1> SUFFICES ASSUME IInv, [Next]_vars PROVE [P!InformerNext]_P!informerVars
  OBVIOUS
<1>1. CASE Move
  BY <1>1 DEF Move, P!InformerNext
<1>2. ASSUME NEW k \in Keys, NEW e, Written(k, e), P!ServerWrite(k, EventState(e).obj)
      PROVE  P!InformerNext
  <2>1. EventState(e).obj \in P!State
    BY <1>2 DEF Written, EventState, EventSet, P!State
  <2> QED BY <1>2, <2>1 DEF P!InformerNext
<1> QED BY <1>1, <1>2, Moves

(* The invariant holds at first and is kept by every step; Informer's part *)
(* is kept as its own steps keep it.                                       *)
LEMMA IInvNext == IInv /\ [Next]_vars => IInv'
<1> SUFFICES ASSUME IInv, [Next]_vars PROVE IInv'
  OBVIOUS
<1>1. Base' /\ Lines' /\ ListingIn' /\ [P!InformerNext]_(P!informerVars)
  BY Moves, InformerMoves, BaseNext DEF IInv
<1>2. P!InformerInv' /\ P!UnseenLeadsToServer'
  BY <1>1, P!InformerInvNext, P!ReachedNext DEF IInv, P!InformerInv
<1> QED BY <1>1, <1>2 DEF IInv

LEMMA InitMoves == Init => IInv /\ P!InformerInit
<1> SUFFICES ASSUME Init PROVE IInv /\ P!InformerInit
  OBVIOUS
<1>1. Fresh
  BY InitFresh
<1>2. Base /\ Lines /\ ListingIn /\ P!Start
  BY <1>1, FreshIs DEF Fresh, Base
<1>3. api.tools \in [Keys -> P!State]
  BY <1>1, ApiType DEF Fresh, MemoryOK, TypesOK, P!State
<1>4. P!InformerInv /\ P!UnseenLeadsToServer
  BY <1>2, <1>3, P!StartInv, P!StartReached
<1> QED BY <1>2, <1>3, <1>4 DEF IInv, P!InformerInit

(* The informer that InformerProofs speaks of is the one ToolInformer is   *)
(* mapped to.                                                              *)
LEMMA SameInit == Abs!InformerInit <=> P!InformerInit
BY DEF Abs!InformerInit, P!InformerInit, Abs!Start, P!Start, Abs!State, P!State,
       Abs!Listed, P!Listed, Abs!Existing, P!Existing, Abs!Nothing, P!Nothing

(* The abstract specification that the module names is the one these       *)
(* proofs speak of.                                                        *)
LEMMA SameStep == [Abs!InformerNext]_Abs!informerVars <=> [P!InformerNext]_P!informerVars
BY DEF Abs!InformerNext, P!InformerNext, Abs!informerVars, P!informerVars,
       Abs!Restart, P!Restart, Abs!Relist, P!Relist, Abs!Deliver, P!Deliver,
       Abs!Observe, P!Observe, Abs!Overlook, P!Overlook, Abs!Resync, P!Resync,
       Abs!ServerWrite, P!ServerWrite, Abs!State, P!State, Abs!Listed, P!Listed,
       Abs!Existing, P!Existing, Abs!Nothing, P!Nothing, Abs!Relisted, P!Relisted,
       Abs!MayHaveReached, P!MayHaveReached, Abs!Deletion, P!Deletion, Abs!Note, P!Note

LEMMA SameChain == Chain <=> P!Chain
BY DEF Chain, Abs!Chain, P!Chain, Abs!Starts, P!Starts, Abs!Links, P!Links,
       Abs!Ends, P!Ends, Abs!Untouched, P!Untouched, Abs!NoneBetween, P!NoneBetween

LEMMA SameEnds == UnseenLeadsToServer <=> P!UnseenLeadsToServer
BY DEF UnseenLeadsToServer, Abs!UnseenLeadsToServer, P!UnseenLeadsToServer,
       Abs!Final, P!Final, Abs!Existing, P!Existing

LEMMA SameNotes == NotesMakeSense <=> P!NotesMakeSense
BY DEF NotesMakeSense, Abs!NotesMakeSense, P!NotesMakeSense,
       Abs!KnownBefore, P!KnownBefore, Abs!NoneBetween, P!NoneBetween

(* The reflector, DeltaFIFO, indexer and listener of the tools' informer   *)
(* implement Informer: each step under the mapping is one of Informer or   *)
(* leaves it as it is, also when a list meets deltas that are still queued *)
(* (reflector.go, delta_fifo.go, shared_informer.go).                      *)
THEOREM ToolImplementsInformer == Spec => ImplementsInformer
<1>1. Init => IInv /\ Abs!InformerInit
  BY InitMoves, SameInit
<1>2. IInv /\ [Next]_vars => IInv'
  BY IInvNext
<1>3. IInv /\ [Next]_vars => [Abs!InformerNext]_Abs!informerVars
  BY InformerMoves, SameStep
<1> QED BY <1>1, <1>2, <1>3, PTL DEF Spec, ImplementsInformer, Abs!InformerSpec

(* The invariant holds always.                                             *)
LEMMA ToolIInv == Spec => []IInv
BY InitMoves, IInvNext, PTL DEF Spec

(* What handlers were told, what they are yet to be told and what the      *)
(* store holds fit together without a gap; of tombstones only the new      *)
(* object counts, for the old one may be stale (processorListener and      *)
(* HandleDeltas of shared_informer.go, Replace of delta_fifo.go).          *)
THEOREM ToolChainUnbroken == Spec => []Chain
<1>1. IInv => Chain
  BY SameChain DEF IInv, P!InformerInv
<1> QED BY <1>1, ToolIInv, PTL

(* Behind the last delta and the last event of a tool that exists is what  *)
(* the server has: none of its changes is lost for good (ListAndWatch of   *)
(* reflector.go, Replace of delta_fifo.go).                                *)
THEOREM ToolServerReached == Spec => []UnseenLeadsToServer
<1>1. IInv => UnseenLeadsToServer
  BY SameEnds DEF IInv
<1> QED BY <1>1, ToolIInv, PTL

(* No deletion is told twice: handlers are told of it only when they know  *)
(* the tool by then (dedupDeltas and Replace of delta_fifo.go, HandleDeltas *)
(* of shared_informer.go).                                                 *)
THEOREM ToolNotesMakeSense == Spec => []NotesMakeSense
<1>1. Spec => P!InformerSpec
  <2>1. Init => IInv /\ P!InformerInit
    BY InitMoves
  <2>2. IInv /\ [Next]_vars => [P!InformerNext]_P!informerVars
    BY InformerMoves
  <2> QED BY <2>1, <2>2, IInvNext, PTL DEF Spec, P!InformerSpec
<1> QED BY <1>1, P!NotesAlwaysMakeSense, SameNotes, PTL

(* What is overlooked after a step: a list did it, or it was so before.    *)
LEMMA OverlookedMoves ==
    ASSUME IInv, [Next]_vars, NEW k \in Keys, P!Overlooked(k)'
    PROVE  IF ListAgain THEN fifo.items[k] # <<>> /\ indexer[k] = Nil ELSE P!Overlooked(k)
<1>1. P!InformerTypeOK
  BY DEF IInv, P!InformerInv
<1>2. CASE ListAgain
  <2> DEFINE n == Len(News(Line(k)))
             r == Unseen'[k]
  <2>1. Base /\ Lines /\ ListingIn /\ MemoryOK /\ FifoStaysConsistent
    BY DEF IInv, Base
  <2>2. handling = NoDeltas /\ api'.tools = api.tools /\ Store'[k] = Store[k]
    <3>1. /\ handling = NoDeltas /\ Kept /\ UNCHANGED indexer
          /\ api' = [tools |-> api.tools, revision |-> api.revision, wire |-> <<>>]
      BY <1>2, <2>1, RelistIs
    <3>2. api'.tools = api.tools
      BY <3>1
    <3> QED BY <2>1, <3>1, <3>2, StoreSame
  <2>3. r = P!Relisted(k, n) /\ n \in P!MayHaveReached(k)
    BY <1>2, <2>1, <2>2, RelistKey, ReachedIs
  <2>4. k \notin P!Existing /\ (IF r = <<>> THEN Store[k] ELSE r[Len(r)].obj) # NoTool
    BY <2>2 DEF P!Overlooked, P!Final, P!Existing
  <2> HIDE DEF r, n
  <2>5. Store[k] = NoTool /\ n > 0
    BY <1>1, <2>3, <2>4, P!RelistedEnds
  <2>6. indexer[k] = Nil
    BY <2>1, <2>5, NilStore
  <2>7. Line(k) = fifo.items[k]
    BY <2>1, <2>2, RestLine DEF NoDeltas
  <2>8. News(<<>>) = <<>> /\ Len(<<>>) = 0
    BY DEF News
  <2>9. fifo.items[k] # <<>>
    BY <2>5, <2>7, <2>8 DEF n
  <2> QED BY <1>2, <2>6, <2>9
<1>3. CASE ~ListAgain
  <2>1. \/ P!Restart \/ P!Deliver \/ UNCHANGED P!informerVars
        \/ \E j \in Keys : \/ P!Observe(j) \/ P!Overlook(j) \/ P!Resync(j)
                          \/ \E o : P!ServerWrite(j, o)
    BY <1>3, Moves DEF Move
  <2>2. P!Overlooked(k)
    BY <1>1, <2>1, P!OverlookedBefore
  <2> QED BY <1>3, <2>2
<1> QED BY <1>2, <1>3

(* A tool that is gone is overlooked by a list only if it was queued and   *)
(* not yet in the indexer when the list came, and nothing else makes the   *)
(* informer lose a deletion (Replace of delta_fifo.go looks for vanished   *)
(* tools only in the indexer).                                             *)
THEOREM OnlyQueuedIsOverlooked == Spec => OverlookedOnlyWhenQueued
<1> DEFINE OnlyQueued ==
        \A k \in Keys : Overlooked(k)' => IF ListAgain THEN fifo.items[k] # <<>> /\ indexer[k] = Nil
                                          ELSE Overlooked(k)
<1>1. \A k \in Keys : /\ Overlooked(k) <=> P!Overlooked(k)
                      /\ Overlooked(k)' <=> P!Overlooked(k)'
  BY DEF Overlooked, Abs!Overlooked, P!Overlooked, Abs!Final, P!Final
<1>2. IInv /\ [Next]_vars => OnlyQueued
  BY <1>1, OverlookedMoves
<1>3. Spec => [][OnlyQueued]_vars
  <2> HIDE DEF OnlyQueued
  <2> QED BY <1>2, ToolIInv, PTL DEF Spec
<1> QED BY <1>3 DEF OverlookedOnlyWhenQueued

(* When the informer says that it has synced, every tool of the first list *)
(* went through the indexer (HasSynced of delta_fifo.go; Run of            *)
(* controller.go waits for it).                                            *)
THEOREM ToolSyncedMeansListed == Spec => []SyncedMeansListed
<1>1. IInv => SyncedMeansListed
  <2> SUFFICES ASSUME IInv, HasSynced PROVE listing = {}
    BY DEF SyncedMeansListed
  <2>1. fifo.initialPopulationCount = 0 /\ handling = NoDeltas
    BY DEF HasSynced, F!HasPopped, FifoIsFree
  <2>2. listing \subseteq Keys
    BY DEF IInv, Base, MemoryOK, TypesOK, ListenersOK
  <2>3. \A k \in listing : handling[k] # <<>> \/ \E n \in 1..fifo.initialPopulationCount : fifo.queue[n] = k
    BY DEF IInv, ListingIn
  <2> QED BY <2>1, <2>2, <2>3 DEF NoDeltas
<1> QED BY <1>1, ToolIInv, PTL

-----------------------------------------------------------------------------
(* The states of a tool come in the order in which the server wrote them,  *)
(* and so do the objects of a notification.                                *)
Forward == \A k \in Keys : Rising(Store[k], Unseen[k], api.revision)

(* The old object of a notification is not younger than the new one.       *)
NotesForward == \A n \in 1..Len(Notices) : Older(Notices[n].old, Notices[n].new)

(* The types of the mapped variables.                                      *)
LEMMA MappedTypes ==
    ASSUME IInv
    PROVE  /\ Store \in [Keys -> Tools \cup {NoTool}] /\ Unseen \in [Keys -> Seq(StateSet)]
           /\ Notices \in Seq(P!Notes) /\ api.tools \in [Keys -> Tools \cup {NoTool}]
           /\ api.revision \in Nat
           /\ \A k \in Keys : Under(api.tools[k], api.revision)
<1>1. P!InformerTypeOK /\ MemoryOK /\ ServerOK
  BY DEF IInv, P!InformerInv, Base, MemoryOK, TypesOK
<1>2. Unseen \in [Keys -> Seq(StateSet)]
  BY <1>1 DEF P!InformerTypeOK, StateSet, P!State
<1>3. api.revision \in Nat
  BY <1>1, ApiType, ToolInformerAssumption
<1>4. \A k \in Keys : Under(api.tools[k], api.revision)
  BY <1>1 DEF MemoryOK, EachOnce, World, Under
<1> QED BY <1>1, <1>2, <1>3, <1>4 DEF P!InformerTypeOK, P!State

(* Of a tool that exists, the end of what is unseen is what the server has. *)
LEMMA ServerAtEnd ==
    ASSUME IInv, NEW k \in Keys, api.tools[k] # NoTool
    PROVE  IF Unseen[k] = <<>> THEN Store[k] = api.tools[k]
           ELSE Unseen[k][Len(Unseen[k])].obj = api.tools[k]
BY DEF IInv, P!UnseenLeadsToServer, P!Existing, P!Final

(* What the server has of a key is as young as the Lister's object.        *)
LEMMA ServerYounger ==
    ASSUME IInv, Forward, NEW k \in Keys PROVE Older(Store[k], api.tools[k]) /\ Under(Store[k], api.revision)
<1>1. Rising(Store[k], Unseen[k], api.revision)
  BY DEF Forward
<1>2. Unseen[k] \in Seq(StateSet)
  BY MappedTypes
<1>3. Store[k] \in Tools \cup {NoTool} /\ Under(Store[k], api.revision)
  BY <1>1, MappedTypes DEF Rising
<1>4. CASE api.tools[k] = NoTool
  BY <1>3, <1>4 DEF Older
<1>5. CASE api.tools[k] # NoTool /\ Unseen[k] = <<>>
  <2>1. Store[k] = api.tools[k]
    BY <1>5, ServerAtEnd
  <2> QED BY <1>3, <2>1 DEF Older, Tools
<1>6. CASE api.tools[k] # NoTool /\ Unseen[k] # <<>>
  <2> DEFINE s == Unseen[k]
  <2>1. s[Len(s)].obj = api.tools[k]
    BY <1>6, ServerAtEnd
  <2>2. Len(s) \in 1..Len(s)
    <3> HIDE DEF s
    <3>1. s \in Seq(StateSet) /\ s # <<>>
      BY <1>2, <1>6 DEF s
    <3> QED BY <3>1, EmptySeq
  <2> QED BY <1>1, <1>3, <2>1, <2>2 DEF Rising
<1> QED BY <1>4, <1>5, <1>6

(* States and notifications stay in order at every step.                   *)
LEMMA ForwardNext ==
    ASSUME IInv, Forward, [Next]_vars PROVE Forward'
<1> SUFFICES ASSUME NEW k \in Keys PROVE Rising(Store'[k], Unseen'[k], api'.revision)
  BY DEF Forward
<1> DEFINE top == api.revision
<1>1. /\ Store \in [Keys -> Tools \cup {NoTool}] /\ Unseen \in [Keys -> Seq(StateSet)]
      /\ api.tools \in [Keys -> Tools \cup {NoTool}] /\ top \in Nat
      /\ Under(api.tools[k], top) /\ Rising(Store[k], Unseen[k], top)
  BY MappedTypes DEF Forward
<1>2. P!InformerTypeOK
  BY DEF IInv, P!InformerInv
<1>3. Older(Store[k], api.tools[k]) /\ Under(Store[k], top)
  BY ServerYounger
<1>4. Under(NoTool, top) /\ \A t : Older(NoTool, t) /\ Older(t, NoTool)
  BY DEF Under, Older
<1>5. k \in P!Existing => P!Listed(k) = <<[obj |-> api.tools[k], lost |-> FALSE]>>
  BY DEF P!Listed
<1>6. k \notin P!Existing => P!Listed(k) = <<>>
  BY DEF P!Listed
<1>7. ASSUME P!Restart PROVE Rising(Store'[k], Unseen'[k], top)
  <2>1. Store'[k] = NoTool /\ Unseen'[k] = P!Listed(k)
    BY <1>7 DEF P!Restart, P!Nothing
  <2>2. Rising(NoTool, P!Listed(k), top)
    BY <1>1, <1>4, <1>5, <1>6, RisingOne, RisingNone
  <2> QED BY <2>1, <2>2
<1>8. ASSUME P!Relist PROVE Rising(Store'[k], Unseen'[k], top)
  <2> DEFINE was == Store[k]
             s == Unseen[k]
             r == Unseen'[k]
             now == api.tools[k]
  <2>1. Store'[k] = was
    BY <1>8 DEF P!Relist
  <2>2. PICK n \in P!MayHaveReached(k) : r = P!Relisted(k, n)
    BY <1>2, <1>8, P!RelistUnseen
  <2>3. /\ n \in 0..Len(s) /\ \A i \in 1..n : r[i] = s[i]
        /\ Len(r) = n \/ (Len(r) = n + 1 /\ r[n + 1].obj \in {now, NoTool})
    BY <1>2, <2>2, P!RelistedShape
  <2>4. now # NoTool => IF s = <<>> THEN was = now ELSE s[Len(s)].obj = now
    BY ServerAtEnd
  <2>5. /\ was \in Tools \cup {NoTool} /\ s \in Seq(StateSet) /\ now \in Tools \cup {NoTool}
        /\ Rising(was, s, top) /\ Under(now, top)
    BY <1>1
  <2> HIDE DEF was, s, r, now, top
  <2>6. Rising(was, r, top)
    BY <2>3, <2>4, <2>5, RisingRelisted
  <2> QED BY <2>1, <2>6 DEF r
<1>9. ASSUME UNCHANGED <<Store, Unseen>> PROVE Rising(Store'[k], Unseen'[k], top)
  BY <1>1, <1>9
<1>10. ASSUME NEW j \in Keys, P!Observe(j) \/ P!Overlook(j) PROVE Rising(Store'[k], Unseen'[k], top)
  <2>1. /\ Unseen[j] # <<>> /\ Unseen'[j] = Tail(Unseen[j]) /\ Store'[j] = Unseen[j][1].obj
        /\ \A i \in Keys : i # j => Unseen'[i] = Unseen[i] /\ Store'[i] = Store[i]
    BY <1>2, <1>10, P!ObserveUnseen
  <2>2. CASE k = j
    <3> DEFINE was == Store[k]
               s == Unseen[k]
    <3>1. s \in Seq(StateSet) /\ s # <<>> /\ Rising(was, s, top)
      BY <1>1, <2>1, <2>2
    <3> HIDE DEF was, s, top
    <3>2. Rising(s[1].obj, Tail(s), top)
      BY <1>1, <3>1, RisingTail
    <3> QED BY <2>1, <2>2, <3>2 DEF s
  <2>3. CASE k # j
    BY <1>1, <2>1, <2>3
  <2> QED BY <2>2, <2>3
<1>11. ASSUME UNCHANGED api.revision, Move PROVE Rising(Store'[k], Unseen'[k], top)
  <2>1. CASE P!Deliver
    BY <1>9, <2>1 DEF P!Deliver
  <2>2. CASE UNCHANGED P!informerVars
    BY <1>9, <2>2 DEF P!informerVars
  <2>3. ASSUME NEW j \in Keys, P!Resync(j) PROVE Rising(Store'[k], Unseen'[k], top)
    BY <1>9, <2>3 DEF P!Resync
  <2> HIDE DEF top
  <2> QED BY <1>7, <1>8, <1>10, <1>11, <2>1, <2>2, <2>3 DEF Move
<1>12. ASSUME NEW j \in Keys, NEW e, Written(j, e), P!ServerWrite(j, EventState(e).obj)
       PROVE  Rising(Store'[k], Unseen'[k], api'.revision)
  <2> DEFINE o == EventState(e).obj
             x == [obj |-> o, lost |-> FALSE]
             new == api'.revision
  <2>1. Store' = Store /\ Unseen' = [Unseen EXCEPT ![j] = Append(@, x)]
    BY <1>12 DEF P!ServerWrite
  <2>2. new \in Nat /\ top <= new /\ x \in StateSet /\ (x.obj # NoTool => top <= x.obj.rv /\ x.obj.rv <= new)
    BY <1>1, <1>12, ToolInformerAssumption DEF Written, EventState, EventSet, StateSet
  <2>3. Rising(Store[k], Append(Unseen[k], x), new)
    <3> DEFINE was == Store[k]
               s == Unseen[k]
    <3>1. was \in Tools \cup {NoTool} /\ s \in Seq(StateSet) /\ Rising(was, s, top) /\ top \in Nat
      BY <1>1
    <3> HIDE DEF was, s, x, new, top
    <3>2. Rising(was, Append(s, x), new)
      BY <2>2, <3>1, RisingAppended
    <3> QED BY <3>2 DEF was, s
  <2>4. CASE k = j
    <3>1. Unseen'[k] = Append(Unseen[k], x)
      BY <1>1, <2>1, <2>4
    <3> HIDE DEF x
    <3> QED BY <2>1, <2>3, <3>1
  <2>5. CASE k # j
    <3>1. Unseen'[k] = Unseen[k] /\ Store'[k] = Store[k]
      BY <1>1, <2>1, <2>5
    <3>2. Rising(Store[k], Unseen[k], new)
      <4>1. Store[k] \in Tools \cup {NoTool} /\ Unseen[k] \in Seq(StateSet)
        BY <1>1
      <4>2. \A n \in 1..Len(Unseen[k]) : Unseen[k][n].obj \in Tools \cup {NoTool}
        <5>1. \A n \in 1..Len(Unseen[k]) : Unseen[k][n] \in StateSet
          BY <4>1, ElementOfSeq
        <5> QED BY <5>1 DEF StateSet
      <4>3. \A t \in Tools \cup {NoTool} : Under(t, top) => Under(t, new)
        BY <1>1, <2>2 DEF Under, Tools
      <4> HIDE DEF top, new
      <4> QED BY <1>1, <4>1, <4>2, <4>3 DEF Rising
    <3> QED BY <3>1, <3>2
  <2> QED BY <2>4, <2>5
<1> QED BY <1>11, <1>12, Moves

LEMMA NotesForwardNext ==
    ASSUME IInv, Forward, NotesForward, [Next]_vars PROVE NotesForward'
<1>1. /\ Store \in [Keys -> Tools \cup {NoTool}] /\ Unseen \in [Keys -> Seq(StateSet)]
      /\ Notices \in Seq(P!Notes) /\ api.revision \in Nat
  BY MappedTypes
<1>2. ASSUME NEW x \in P!Notes, Notices' = Append(Notices, x), Older(x.old, x.new) PROVE NotesForward'
  <2> DEFINE p == Notices
             q == Append(p, x)
  <2>1. p \in Seq(P!Notes) /\ \A n \in 1..Len(p) : Older(p[n].old, p[n].new)
    BY <1>1 DEF NotesForward
  <2> HIDE DEF p
  <2>2. /\ Len(q) = Len(p) + 1 /\ q[Len(p) + 1] = x /\ Len(p) \in Nat
        /\ \A n \in 1..Len(p) : q[n] = p[n]
    BY <2>1
  <2> HIDE DEF q
  <2>3. \A n \in 1..Len(q) : n \in 1..Len(p) \/ n = Len(p) + 1
    BY <2>2
  <2>4. \A n \in 1..Len(q) : Older(q[n].old, q[n].new)
    BY <1>2, <2>1, <2>2, <2>3
  <2> QED BY <1>2, <2>4 DEF NotesForward, p, q
<1>3. ASSUME Notices # <<>>, Notices' = Tail(Notices) PROVE NotesForward'
  <2> DEFINE p == Notices
             q == Tail(p)
  <2>1. p \in Seq(P!Notes) /\ p # <<>> /\ \A n \in 1..Len(p) : Older(p[n].old, p[n].new)
    BY <1>1, <1>3 DEF NotesForward
  <2> HIDE DEF p
  <2>2. Len(p) \in Nat \ {0} /\ Len(q) = Len(p) - 1 /\ \A n \in 1..Len(p) - 1 : q[n] = p[n + 1]
    BY <2>1, EmptySeq, HeadTailProperties
  <2> HIDE DEF q
  <2>3. \A n \in 1..Len(q) : n \in 1..Len(p) - 1 /\ n + 1 \in 1..Len(p)
    BY <2>2
  <2>4. \A n \in 1..Len(q) : Older(q[n].old, q[n].new)
    BY <2>1, <2>2, <2>3
  <2> QED BY <1>3, <2>4 DEF NotesForward, p, q
<1>4. ASSUME Notices' = <<>> PROVE NotesForward'
  BY <1>4 DEF NotesForward
<1>5. ASSUME UNCHANGED Notices PROVE NotesForward'
  BY <1>5 DEF NotesForward
<1>6. ASSUME NEW k \in Keys, P!Observe(k) PROVE NotesForward'
  <2> DEFINE s == Unseen[k]
             x == [key |-> k, old |-> IF Head(s).lost THEN NoTool ELSE Store[k],
                   new |-> Head(s).obj, tombstone |-> Head(s).lost]
  <2>1. s \in Seq(StateSet) /\ s # <<>> /\ Rising(Store[k], s, api.revision)
    BY <1>1, <1>6 DEF P!Observe, Forward
  <2>2. Notices' = Append(Notices, x)
    BY <1>6 DEF P!Observe
  <2>3. Older(Store[k], Head(s).obj) /\ Head(s) \in StateSet
    <3> DEFINE was == Store[k]
               top == api.revision
    <3>1. s \in Seq(StateSet) /\ s # <<>> /\ Rising(was, s, top) /\ top \in Nat
      BY <1>1, <2>1
    <3> HIDE DEF s, was, top
    <3>2. Older(was, s[1].obj) /\ Head(s) = s[1]
      BY ONLY <3>1, RisingTail
    <3>3. Head(s) \in StateSet
      BY <3>1, HeadTailProperties
    <3> QED BY <3>2, <3>3 DEF was
  <2>4. x \in P!Notes /\ x.old \in {NoTool, Store[k]} /\ x.new = Head(s).obj
    <3> HIDE DEF s
    <3> QED BY <1>1, <2>3 DEF P!Notes, P!State, StateSet
  <2>5. \A t : Older(NoTool, t)
    BY DEF Older
  <2> HIDE DEF s, x
  <2> QED BY <1>2, <2>2, <2>3, <2>4, <2>5
<1>7. ASSUME NEW k \in Keys, P!Resync(k) PROVE NotesForward'
  <2> DEFINE x == [key |-> k, old |-> Store[k], new |-> Store[k], tombstone |-> FALSE]
  <2>1. Notices' = Append(Notices, x)
    BY <1>7 DEF P!Resync
  <2>2. x \in P!Notes /\ Older(x.old, x.new)
    BY <1>1 DEF P!Notes, P!State, Older, Tools
  <2> HIDE DEF x
  <2> QED BY <1>2, <2>1, <2>2
<1>8. ASSUME Move PROVE NotesForward'
  <2>1. CASE P!Restart
    BY <1>4, <2>1 DEF P!Restart
  <2>2. CASE P!Relist
    BY <1>5, <2>2 DEF P!Relist
  <2>3. CASE P!Deliver
    BY <1>3, <2>3 DEF P!Deliver
  <2>4. CASE UNCHANGED P!informerVars
    BY <1>5, <2>4 DEF P!informerVars
  <2>5. ASSUME NEW k \in Keys, P!Overlook(k) PROVE NotesForward'
    BY <1>5, <2>5 DEF P!Overlook
  <2> QED BY <1>6, <1>7, <1>8, <2>1, <2>2, <2>3, <2>4, <2>5 DEF Move
<1>9. ASSUME NEW k \in Keys, NEW e, P!ServerWrite(k, EventState(e).obj) PROVE NotesForward'
  BY <1>5, <1>9 DEF P!ServerWrite
<1> QED BY <1>8, <1>9, Moves

(* Within one life of the process the handlers never see a tool turn into  *)
(* an older one: events, deltas and notifications keep the order of the    *)
(* server's writes (Replace and syncKeyLocked of delta_fifo.go,            *)
(* HandleDeltas of shared_informer.go).                                    *)
THEOREM ToldGoesForward == Spec => ToldMovesForward
<1> DEFINE OnlyForward == \A k \in Keys : told[k] # Nil /\ told'[k] # Nil => told[k] <= told'[k]
<1>1. Init => IInv /\ Forward /\ NotesForward
  <2> SUFFICES ASSUME Init PROVE IInv /\ Forward /\ NotesForward
    OBVIOUS
  <2>1. IInv /\ P!Start
    BY InitMoves DEF P!InformerInit
  <2>2. NotesForward
    BY <2>1 DEF P!Start, NotesForward
  <2>3. ASSUME NEW k \in Keys PROVE Rising(Store[k], Unseen[k], api.revision)
    <3>1. Store[k] = NoTool /\ Unseen[k] = P!Listed(k)
      BY <2>1 DEF P!Start, P!Nothing
    <3>2. Under(api.tools[k], api.revision)
      BY <2>1, MappedTypes
    <3>3. Under(NoTool, api.revision) /\ Older(NoTool, api.tools[k])
      BY DEF Under, Older
    <3>4. CASE k \in P!Existing
      BY <3>1, <3>2, <3>3, <3>4, RisingOne DEF P!Listed
    <3>5. CASE k \notin P!Existing
      BY <3>1, <3>3, <3>5, RisingNone DEF P!Listed
    <3> QED BY <3>4, <3>5
  <2> QED BY <2>1, <2>2, <2>3 DEF Forward
<1>2. IInv /\ Forward /\ NotesForward /\ [Next]_vars => OnlyForward
  <2> SUFFICES ASSUME IInv, Forward, NotesForward, [Next]_vars,
                      NEW k \in Keys, told[k] # Nil, told'[k] # Nil
               PROVE  told[k] <= told'[k]
    OBVIOUS
  <2>1. MemoryOK /\ told \in [Keys -> Live \cup {Nil}]
    BY DEF IInv, Base, MemoryOK, TypesOK, ListenersOK
  <2>2. told[k] \in Live /\ told[k] \in Int
    BY <2>1 DEF Live, Cells
  <2>3. CASE UNCHANGED told
    BY <2>2, <2>3
  <2>4. CASE Restart
    BY <2>4 DEF Restart, Nowhere
  <2>5. CASE Deliver
    <3> DEFINE n == Head(pending)
    <3>1. pending # <<>> /\ pending \in Seq(NotesIn(Live)) /\ n \in NotesIn(Live)
      BY <2>1, <2>5, DeliverMemory
    <3>2. told' = [told EXCEPT ![n.key] = n.new]
      BY <2>5 DEF Deliver
    <3>3. CASE k # n.key
      BY <2>1, <2>2, <3>2, <3>3
    <3>4. CASE k = n.key
      <4>1. told'[k] = n.new
        BY <2>1, <3>2, <3>4
      <4>2. Notices # <<>> /\ Head(Notices) = Notice(heap, n) /\ Notices \in Seq(P!Notes)
        BY <3>1, NoticesTail, NoticesIs, MappedTypes
      <4>3. n.new \in Live /\ n.unknown = FALSE
        BY <3>1, <4>1, CellsArePlaces DEF NotesIn
      <4>4. At(heap, n.old) = Told[k]
        <5>1. Notice(heap, n).tombstone = FALSE /\ Notice(heap, n).key = k
              /\ Notice(heap, n).old = At(heap, n.old)
          BY <3>4, <4>3 DEF Notice
        <5> QED BY <4>2, <5>1, P!NoteFollowsTold DEF IInv, P!Note
      <4>5. Older(At(heap, n.old), At(heap, n.new))
        <5> DEFINE p == Notices
        <5>1. p \in Seq(P!Notes) /\ p # <<>>
          BY <4>2
        <5>2. \A i \in 1..Len(p) : Older(p[i].old, p[i].new)
          BY DEF NotesForward
        <5> HIDE DEF p
        <5>3. Head(p) = p[1] /\ 1 \in 1..Len(p)
          BY <5>1, EmptySeq
        <5> QED BY <4>2, <4>3, <5>2, <5>3 DEF Notice, p
      <4>6. \A p \in Live : At(heap, p) = heap[p] /\ heap[p] # NoTool /\ heap[p].rv = p
        BY <2>1, CellsArePlaces DEF At, Live, MemoryOK, EachOnce
      <4>7. Told[k] = heap[told[k]]
        BY <2>2, <4>6 DEF Told
      <4> QED BY <2>2, <4>1, <4>4, <4>5, <4>3, <4>6, <4>7 DEF Older
    <3> QED BY <3>3, <3>4
  <2>6. Aside \/ WatchHandler \/ ListAgain \/ ResyncTimer \/ ProcessLoop \/ (\E j \in Keys : HandleDelta(j)) => UNCHANGED told
    BY DEF Aside, WatchHandler, ListAgain, ResyncTimer, ProcessLoop, HandleDelta
  <2>7. (\E j \in Keys : \E e : Written(j, e)) => Aside
    BY DEF Written
  <2> QED BY <2>3, <2>4, <2>5, <2>6, <2>7, Steps DEF IInv
<1>3. Spec => [][OnlyForward]_vars
  <2>1. IInv /\ Forward /\ NotesForward /\ [Next]_vars => (IInv /\ Forward /\ NotesForward)'
    BY IInvNext, ForwardNext, NotesForwardNext
  <2> HIDE DEF OnlyForward
  <2> QED BY <1>1, <1>2, <2>1, PTL DEF Spec
<1> QED BY <1>3 DEF ToldMovesForward
=============================================================================

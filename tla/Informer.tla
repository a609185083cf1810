------------------------------ MODULE Informer ------------------------------
(***************************************************************************)
(* What a shared informer of client-go gives the controller: a local copy  *)
(* (the store behind a Lister) of the API server's objects of one kind,    *)
(* and a stream of notifications to one set of event handlers.             *)
(*                                                                         *)
(*   server -> unseen -> store -> pending -> told                          *)
(*                                                                         *)
(* The states of one key reach the store and the handlers in order;        *)
(* nothing orders different keys.  A broken watch is repaired by a new     *)
(* list (Relist): the states in between are lost, and the deletion of what *)
(* the store holds is reported as DeletedFinalStateUnknown (a tombstone).  *)
(* What was on its way to the store but not in it yet stays there though   *)
(* the list lacks it, until a later list.                                  *)
(*                                                                         *)
(* The module is instantiated once for Podbuggertools and once for pods.   *)
(***************************************************************************)
EXTENDS Integers, Sequences, Functions

CONSTANTS
    Keys,            \* "namespace/name" of the objects of this kind
    Objects,         \* their possible contents
    NoObject         \* what a key without object maps to; not in Objects

VARIABLES
    server,    \* what the API server stores
    unseen,    \* unseen[k]: states of k that the store has yet to go through
    store,     \* the indexer behind the Lister
    pending,   \* notifications not yet handled by the event handlers
    told,      \* told[k]: the object the handlers were last told of (history)
    listing    \* keys of the first list that are not in the store yet

informerVars == <<server, unseen, store, pending, told, listing>>

State == Objects \cup {NoObject}
Notes == [key : Keys, old : State, new : State, tombstone : BOOLEAN]

Nothing == [k \in Keys |-> NoObject]
Existing == {k \in Keys : server[k] # NoObject}

(* What the reflector gets from a list: one state per existing object. *)
Listed(k) == IF k \in Existing THEN <<[obj |-> server[k], lost |-> FALSE]>> ELSE <<>>

(* Factory.Start: the stores are empty, the first list is on its way. *)
Start ==
    /\ unseen = [k \in Keys |-> Listed(k)]
    /\ store = Nothing
    /\ pending = <<>>
    /\ told = Nothing
    /\ listing = Existing

(* The process died and another one starts: only the server remembers. *)
Restart ==
    /\ UNCHANGED server
    /\ store' = Nothing
    /\ pending' = <<>>
    /\ told' = Nothing
    /\ listing' = Existing
    /\ unseen' = [k \in Keys |-> Listed(k)]

HasSynced == listing = {}

(* Somebody writes object o under key k, or deletes it (o = NoObject). *)
ServerWrite(k, o) ==
    /\ o # server[k]
    /\ server' = [server EXCEPT ![k] = o]
    /\ unseen' = [unseen EXCEPT ![k] = Append(@, [obj |-> o, lost |-> FALSE])]
    /\ UNCHANGED <<store, pending, told, listing>>

(* HandleDeltas: the next state of k enters the store, and the handlers    *)
(* are to be told of it together with the state it replaces; a tombstone   *)
(* brings some old state of the object, on which nobody may rely.          *)
Observe(k) ==
    /\ unseen[k] # <<>>
    /\ UNCHANGED <<server, told>>
    /\ LET state == Head(unseen[k])
       IN /\ pending' = Append(pending,
                 [key |-> k, old |-> IF state.lost THEN NoObject ELSE store[k],
                  new |-> state.obj, tombstone |-> state.lost])
          /\ store' = [store EXCEPT ![k] = state.obj]
    /\ unseen' = [unseen EXCEPT ![k] = Tail(@)]
    /\ listing' = listing \ {k}

(* A repeated list may bring an object the store has already: the handlers *)
(* are told of it only if a resync is due.                                 *)
Overlook(k) ==
    /\ unseen[k] # <<>>
    /\ store[k] # NoObject
    /\ Head(unseen[k]).obj = store[k]
    /\ unseen' = [unseen EXCEPT ![k] = Tail(@)]
    /\ UNCHANGED <<server, store, pending, told, listing>>

(* The resync timer: the handlers are told again of an object of the store. *)
Resync(k) ==
    /\ store[k] # NoObject
    /\ pending' = Append(pending,
           [key |-> k, old |-> store[k], new |-> store[k], tombstone |-> FALSE])
    /\ UNCHANGED <<server, unseen, store, told, listing>>

(* Of what is unseen of k, the first n had reached the informer when the   *)
(* watch broke.  A list adds what it has of k, or, if it lacks what the    *)
(* store has, a deletion, unless one is there already.                     *)
Deletion == [obj |-> NoObject, lost |-> TRUE]

Relisted(k, n) ==
    LET reached == SubSeq(unseen[k], 1, n)
    IN IF k \in Existing THEN reached \o Listed(k)
       ELSE IF store[k] = NoObject \/ (n > 0 /\ reached[n].obj = NoObject) THEN reached
       ELSE Append(reached, Deletion)

(* What the first list brought reached the informer at once. *)
MayHaveReached(k) == {n \in 0..Len(unseen[k]) : k \in listing => n > 0}

(* The watch broke and the list is repeated. *)
Relist ==
    /\ UNCHANGED <<server, store, pending, told, listing>>
    /\ \E reached \in [Keys -> UNION {MayHaveReached(k) : k \in Keys}] :
           /\ \A k \in Keys : reached[k] \in MayHaveReached(k)
           /\ unseen' = [k \in Keys |-> Relisted(k, reached[k])]

(* The handler of the oldest notification returns. *)
Note == Head(pending)
NoteIs(kind) ==
    /\ pending # <<>>
    /\ kind = IF Note.new = NoObject THEN (IF Note.tombstone THEN "tombstone" ELSE "delete")
              ELSE IF Note.old = NoObject THEN "add" ELSE "update"

Deliver ==
    /\ pending # <<>>
    /\ pending' = Tail(pending)
    /\ told' = [told EXCEPT ![Note.key] = Note.new]
    /\ UNCHANGED <<server, unseen, store, listing>>

(* The informer beside a server to which anything may be written, among    *)
(* the steps of others.                                                    *)
InformerInit == server \in [Keys -> State] /\ Start

InformerNext ==
    \/ UNCHANGED informerVars
    \/ Restart \/ Relist \/ Deliver
    \/ \E k \in Keys : Observe(k) \/ Overlook(k) \/ Resync(k) \/ \E o \in State : ServerWrite(k, o)

InformerSpec == InformerInit /\ [][InformerNext]_informerVars

-----------------------------------------------------------------------------
(* The types of the six variables. *)
InformerTypeOK ==
    /\ server \in [Keys -> State]
    /\ unseen \in [Keys -> Seq([obj : State, lost : BOOLEAN])]
    /\ store \in [Keys -> State]
    /\ pending \in Seq(Notes)
    /\ told \in [Keys -> State]
    /\ listing \subseteq Keys

(* No notification of key k lies strictly between positions m and n of p. *)
NoneBetween(p, k, m, n) == \A i \in 1..Len(p) : m < i /\ i < n => p[i].key # k

(* The notifications p form, for each key, an unbroken chain from the      *)
(* object in "from" to the object in "to"; only tombstones do not say what *)
(* was before.                                                             *)
Starts(from, p) ==
    \A n \in 1..Len(p) :
        ~p[n].tombstone /\ NoneBetween(p, p[n].key, 0, n) => p[n].old = from[p[n].key]

Links(p) ==
    \A m, n \in 1..Len(p) :
        ~p[n].tombstone /\ m < n /\ p[m].key = p[n].key /\ NoneBetween(p, p[n].key, m, n)
            => p[n].old = p[m].new

Ends(p, to) ==
    \A n \in 1..Len(p) :
        NoneBetween(p, p[n].key, n, Len(p) + 1) => p[n].new = to[p[n].key]

Untouched(from, p, to) ==
    \A k \in Keys : NoneBetween(p, k, 0, Len(p) + 1) => from[k] = to[k]

(* The "old" object of every notification but a tombstone is the one the   *)
(* handlers saw before, and when all are handled the handlers know what    *)
(* the Lister returns.                                                     *)
Chain ==
    /\ Starts(told, pending) /\ Links(pending)
    /\ Ends(pending, store) /\ Untouched(told, pending, store)

(* What the Lister will return for k when nothing more happens to it. *)
Final(k) == IF unseen[k] = <<>> THEN store[k] ELSE unseen[k][Len(unseen[k])].obj

(* An object that is gone has been overlooked by a list. *)
Overlooked(k) == server[k] = NoObject /\ Final(k) # NoObject

(* Nothing in between is missing at the end: what is still unseen of an    *)
(* object that exists ends in the server's state of it, and if nothing is, *)
(* the store is up to date.                                                *)
UnseenLeadsToServer == \A k \in Existing : Final(k) = server[k]

(* A handler is told of a deletion, also by a tombstone, only of an object *)
(* that it knows by then.                                                  *)
KnownBefore(from, p, n) ==
    /\ NoneBetween(p, p[n].key, 0, n) => from[p[n].key] # NoObject
    /\ \A m \in 1..Len(p) :
          m < n /\ p[m].key = p[n].key /\ NoneBetween(p, p[n].key, m, n)
              => p[m].new # NoObject

NotesMakeSense ==
    \A n \in 1..Len(pending) :
        pending[n].new = NoObject => KnownBefore(told, pending, n)
=============================================================================

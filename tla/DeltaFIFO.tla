----------------------------- MODULE DeltaFIFO -----------------------------
(***************************************************************************)
(* The queue between a reflector and its informer                          *)
(* (client-go/tools/cache/delta_fifo.go): for every key what has happened  *)
(* to its object, oldest first, and the keys in the order in which they    *)
(* are to be looked at.                                                    *)
(*                                                                         *)
(* A fifo is a record; the operators are its methods, from a record to a   *)
(* record.  "known" are the knownObjects: what the indexer holds, as a     *)
(* function on the keys it holds.                                          *)
(***************************************************************************)
EXTENDS Integers, Sequences, FiniteSets

CONSTANT Keys      \* "namespace/name"

Nil == 0           \* the pointer to nothing; the others are positive

Delta(type, obj, unknown) == [type |-> type, obj |-> obj, unknown |-> unknown]

(* Nothing was put into it yet. *)
NewDeltaFIFO ==
    [queue |-> <<>>, items |-> [k \in Keys |-> <<>>], initialPopulationCount |-> 0]

(* Mutants of DedupDeltas: nothing is merged; of two deltas of a type in a *)
(* row one is kept.                                                        *)
DedupNothing(deltas) == deltas

DedupSameType(deltas) ==
    LET n == Len(deltas)
    IN IF n > 1 /\ deltas[n].type = deltas[n - 1].type THEN SubSeq(deltas, 1, n - 1)
       ELSE deltas

(* Of two deletions in a row the one that knows the final state is kept. *)
DedupDeltas(deltas) ==
    LET n == Len(deltas)
    IN IF n < 2 THEN deltas
       ELSE IF deltas[n].type # "Deleted" \/ deltas[n - 1].type # "Deleted" THEN deltas
       ELSE IF deltas[n - 1].unknown THEN Append(SubSeq(deltas, 1, n - 2), deltas[n])
       ELSE SubSeq(deltas, 1, n - 1)

(* Mutant of ToQueue: a key is queued again for every delta. *)
ToQueueAnew(f, S) == S

(* Of the keys S, those that queueActionLocked puts into the queue. *)
ToQueue(f, S) == {k \in S : f.items[k] = <<>>}

(* queueActionLocked for each key of the function delta; those that are to *)
(* be queued come in the given order.                                      *)
QueueActions(f, delta, order) ==
    [f EXCEPT !.queue = @ \o order,
              !.items = [k \in Keys |-> IF k \in DOMAIN delta
                                        THEN DedupDeltas(Append(@[k], delta[k])) ELSE @[k]]]

QueueAction(f, k, delta) ==
    QueueActions(f, [j \in {k} |-> delta], IF k \in ToQueue(f, {k}) THEN <<k>> ELSE <<>>)

AddObject(f, k, obj) == QueueAction(f, k, Delta("Added", obj, FALSE))

UpdateObject(f, k, obj) == QueueAction(f, k, Delta("Updated", obj, FALSE))

(* Mutant of DeleteObject: what is only queued is not deleted. *)
DeleteKnownObject(f, k, obj, known) ==
    IF k \notin DOMAIN known THEN f ELSE QueueAction(f, k, Delta("Deleted", obj, FALSE))

(* A deletion of what is neither known nor queued is ignored. *)
DeleteObject(f, k, obj, known) ==
    IF k \notin DOMAIN known /\ f.items[k] = <<>> THEN f
    ELSE QueueAction(f, k, Delta("Deleted", obj, FALSE))

(* Mutant of Replaced: what the indexer has already is not replaced. *)
ReplacedUnknown(list, known) ==
    [k \in (DOMAIN list \ DOMAIN known) \cup (DOMAIN known \ DOMAIN list) |->
        IF k \in DOMAIN list THEN Delta("Replaced", list[k], FALSE)
        ELSE Delta("Deleted", known[k], TRUE)]

(* What a list does: it replaces the objects it has, and deletes those     *)
(* which the indexer has and it has not.                                   *)
Replaced(list, known) ==
    [k \in DOMAIN list \cup DOMAIN known |->
        IF k \in DOMAIN list THEN Delta("Replaced", list[k], FALSE)
        ELSE Delta("Deleted", known[k], TRUE)]

(* The first list also says how many keys are to be popped before the      *)
(* informer has synced.                                                    *)
FirstReplace(list, order) ==
    [QueueActions(NewDeltaFIFO, Replaced(list, <<>>), order)
        EXCEPT !.initialPopulationCount = Cardinality(DOMAIN list)]

Replace(f, list, known, order) == QueueActions(f, Replaced(list, known), order)

(* Mutant of Synced: it does not look whether something is queued. *)
SyncedAll(f, known) == [k \in DOMAIN known |-> Delta("Sync", known[k], FALSE)]

(* What the resync timer does: it repeats what is known of keys of which   *)
(* nothing is queued.                                                      *)
Synced(f, known) ==
    [k \in {j \in DOMAIN known : f.items[j] = <<>>} |-> Delta("Sync", known[k], FALSE)]

Resync(f, known, order) == QueueActions(f, Synced(f, known), order)

(* The oldest key with all its deltas is taken out. *)
Oldest(f) == Head(f.queue)

Pop(f) ==
    [f EXCEPT !.queue = Tail(@),
              !.items[Oldest(f)] = <<>>,
              !.initialPopulationCount = IF @ > 0 THEN @ - 1 ELSE 0]

HasPopped(f) == f.initialPopulationCount = 0

(* A key is queued, once, while it has deltas. *)
FifoConsistent(f) ==
    /\ \A k \in Keys : f.items[k] # <<>> <=> \E n \in DOMAIN f.queue : f.queue[n] = k
    /\ \A m, n \in DOMAIN f.queue : f.queue[m] = f.queue[n] => m = n
=============================================================================

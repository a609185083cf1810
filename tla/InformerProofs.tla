--------------------------- MODULE InformerProofs ---------------------------
(***************************************************************************)
(* The chain of notifications of Informer, for any keys and objects: each  *)
(* operation keeps it.  The lemmas are cited for an instance of Informer   *)
(* by the proofs about the controller.                                     *)
(***************************************************************************)
EXTENDS Informer, SequenceTheorems, TLAPS

InformerInv == InformerTypeOK /\ Chain

Unseen == Seq([obj : State, lost : BOOLEAN])

LEMMA OneState ==
    ASSUME NEW o \in State, NEW b \in BOOLEAN
    PROVE  <<[obj |-> o, lost |-> b]>> \in Unseen
<1>1. [obj |-> o, lost |-> b] \in [obj : State, lost : BOOLEAN]
  OBVIOUS
<1> QED BY <1>1 DEF Unseen

LEMMA ListedType ==
    ASSUME server \in [Keys -> State]
    PROVE  \A k \in Keys : Listed(k) \in Unseen
<1>1. \A k \in Keys : server[k] \in State
  OBVIOUS
<1>2. <<>> \in Unseen
  BY DEF Unseen
<1> QED BY <1>1, <1>2, OneState DEF Listed

LEMMA NothingType == Nothing \in [Keys -> State]
BY DEF Nothing, State

LEMMA NoNotes == <<>> \in Seq(Notes)
OBVIOUS

LEMMA StartInv ==
    ASSUME server \in [Keys -> State], Start
    PROVE  InformerInv
<1>1. unseen \in [Keys -> Unseen]
  BY ListedType DEF Start
<1>2. InformerTypeOK
  BY <1>1, NothingType, NoNotes DEF InformerTypeOK, Start, Existing, Unseen
<1>3. Chain
  BY DEF Chain, Starts, Links, Ends, Untouched, Start, Nothing
<1> QED BY <1>2, <1>3 DEF InformerInv

LEMMA RestartInv ==
    ASSUME InformerInv, Restart
    PROVE  InformerInv'
<1>1. unseen' \in [Keys -> Unseen]
  BY ListedType DEF Restart, InformerInv, InformerTypeOK
<1>2. InformerTypeOK'
  BY <1>1, NothingType, NoNotes DEF InformerInv, InformerTypeOK, Restart, Existing, Unseen
<1>3. Chain'
  BY DEF Chain, Starts, Links, Ends, Untouched, Restart, Nothing
<1> QED BY <1>2, <1>3 DEF InformerInv

(* Steps on the server's side of the store do not touch the chain. *)
LEMMA ChainUnchanged ==
    ASSUME Chain, UNCHANGED <<store, pending, told>>
    PROVE  Chain'
BY DEF Chain

LEMMA ServerWriteInv ==
    ASSUME InformerInv, NEW k \in Keys, NEW o \in State, ServerWrite(k, o)
    PROVE  InformerInv'
<1>1. unseen[k] \in Unseen /\ [obj |-> o, lost |-> FALSE] \in [obj : State, lost : BOOLEAN]
  BY DEF InformerInv, InformerTypeOK, Unseen
<1>2. Append(unseen[k], [obj |-> o, lost |-> FALSE]) \in Unseen
  BY <1>1 DEF Unseen
<1>3. InformerTypeOK'
  BY <1>2 DEF Unseen, InformerInv, InformerTypeOK, ServerWrite
<1>4. Chain'
  BY ChainUnchanged DEF InformerInv, ServerWrite
<1> QED BY <1>3, <1>4 DEF InformerInv

LEMMA OverlookInv ==
    ASSUME InformerInv, NEW k \in Keys, Overlook(k)
    PROVE  InformerInv'
<1>1. unseen[k] \in Unseen /\ unseen[k] # <<>>
  BY DEF InformerInv, InformerTypeOK, Overlook, Unseen
<1>2. Tail(unseen[k]) \in Unseen
  BY <1>1 DEF Unseen
<1>3. InformerTypeOK'
  BY <1>2 DEF Unseen, InformerInv, InformerTypeOK, Overlook
<1>4. Chain'
  BY ChainUnchanged DEF InformerInv, Overlook
<1> QED BY <1>3, <1>4 DEF InformerInv

(* The first n elements of a sequence. *)
LEMMA FirstOfSequence ==
    ASSUME NEW S, NEW s \in Seq(S), NEW n \in 0..Len(s)
    PROVE  /\ SubSeq(s, 1, n) \in Seq(S)
           /\ Len(SubSeq(s, 1, n)) = n
           /\ \A i \in 1..n : SubSeq(s, 1, n)[i] = s[i]
<1>1. Len(s) \in Nat /\ n \in Nat /\ n <= Len(s)
  OBVIOUS
<1>2. \A i \in 1..n : i \in 1..Len(s)
  BY <1>1
<1>3. \A i \in 1..Len(s) : s[i] \in S
  OBVIOUS
<1>4. SubSeq(s, 1, n) = [i \in 1..n |-> s[i]]
  BY <1>1
<1>5. SubSeq(s, 1, n) \in [1..n -> S]
  BY <1>2, <1>3, <1>4
<1> QED BY <1>1, <1>4, <1>5

LEMMA RelistUnseen ==
    ASSUME InformerTypeOK, Relist, NEW k \in Keys
    PROVE  \E n \in MayHaveReached(k) : unseen'[k] = Relisted(k, n)
BY DEF Relist

(* What a list leaves of the unseen states of k, and what it adds to them. *)
LEMMA RelistedShape ==
    ASSUME InformerTypeOK, NEW k \in Keys, NEW n \in MayHaveReached(k),
           NEW r, r = Relisted(k, n)
    PROVE  /\ r \in Unseen /\ n \in 0..Len(unseen[k]) /\ Len(unseen[k]) \in Nat
           /\ \A i \in 1..n : r[i] = unseen[k][i]
           /\ \/ k \in Existing /\ Len(r) = n + 1 /\ r[n + 1].obj = server[k]
              \/ k \notin Existing /\ Len(r) = n
              \/ /\ k \notin Existing /\ Len(r) = n + 1 /\ r[n + 1].obj = NoObject
                 /\ IF n = 0 THEN store[k] # NoObject ELSE unseen[k][n].obj # NoObject
<1> DEFINE reached == SubSeq(unseen[k], 1, n)
           R == [obj : State, lost : BOOLEAN]
<1>1. unseen[k] \in Seq(R) /\ server[k] \in State
  BY DEF InformerTypeOK
<1>2. n \in 0..Len(unseen[k]) /\ Len(unseen[k]) \in Nat
  BY <1>1 DEF MayHaveReached
<1>3. reached \in Seq(R) /\ Len(reached) = n /\ \A i \in 1..n : reached[i] = unseen[k][i]
  <2> HIDE DEF R
  <2> QED BY <1>1, <1>2, FirstOfSequence
<1>4. r = IF k \in Existing THEN reached \o Listed(k)
          ELSE IF store[k] = NoObject \/ (n > 0 /\ reached[n].obj = NoObject) THEN reached
          ELSE Append(reached, Deletion)
  BY DEF Relisted
<1>5. [obj |-> server[k], lost |-> FALSE] \in R /\ Deletion \in R /\ Deletion.obj = NoObject
  BY <1>1 DEF Deletion, State
<1> DEFINE found == [obj |-> server[k], lost |-> FALSE]
<1>6. found \in R /\ found.obj = server[k] /\ (k \in Existing => Listed(k) = <<found>>)
  BY <1>5 DEF Listed
<1> HIDE DEF reached, R, found
<1>7. CASE k \in Existing
  <2>1. r = reached \o <<found>>
    BY <1>4, <1>6, <1>7
  <2>2. /\ r \in Seq(R) /\ Len(r) = n + 1 /\ r[n + 1] = found
        /\ \A i \in 1..n : r[i] = reached[i]
    BY <2>1, <1>2, <1>3, <1>6
  <2> QED BY <2>2, <1>2, <1>3, <1>6, <1>7 DEF Unseen, R
<1>8. CASE k \notin Existing /\ (store[k] = NoObject \/ (n > 0 /\ reached[n].obj = NoObject))
  <2>1. r = reached
    BY <1>4, <1>8
  <2> QED BY <2>1, <1>2, <1>3, <1>8 DEF Unseen, R
<1>9. CASE k \notin Existing /\ ~(store[k] = NoObject \/ (n > 0 /\ reached[n].obj = NoObject))
  <2>1. r = Append(reached, Deletion)
    BY <1>4, <1>9
  <2>2. /\ r \in Seq(R) /\ Len(r) = n + 1 /\ r[n + 1] = Deletion
        /\ \A i \in 1..n : r[i] = reached[i]
    BY <2>1, <1>2, <1>3, <1>5
  <2>3. IF n = 0 THEN store[k] # NoObject ELSE unseen[k][n].obj # NoObject
    BY <1>2, <1>3, <1>9
  <2> QED BY <2>2, <2>3, <1>2, <1>3, <1>5, <1>9 DEF Unseen, R
<1> QED BY <1>7, <1>8, <1>9

LEMMA RelistInv ==
    ASSUME InformerInv, Relist
    PROVE  InformerInv'
<1>1. \A k \in Keys : unseen'[k] \in Unseen
  BY RelistUnseen, RelistedShape DEF InformerInv
<1>2. unseen' \in [Keys -> Unseen]
  <2>1. \E f : unseen' = [k \in Keys |-> f[k]]
    <3>1. PICK reached \in [Keys -> UNION {MayHaveReached(k) : k \in Keys}] :
              unseen' = [k \in Keys |-> Relisted(k, reached[k])]
      BY DEF Relist
    <3> DEFINE f == [k \in Keys |-> Relisted(k, reached[k])]
    <3>2. unseen' = [k \in Keys |-> f[k]]
      BY <3>1
    <3> QED BY <3>2
  <2> QED BY <1>1, <2>1
<1>3. InformerTypeOK'
  BY <1>2 DEF InformerInv, InformerTypeOK, Relist, Unseen
<1>4. Chain'
  BY ChainUnchanged DEF InformerInv, Relist
<1> QED BY <1>3, <1>4 DEF InformerInv

(* A notification that starts where the store was and ends where the store *)
(* is now extends the chain.                                               *)
LEMMA ChainExtended ==
    ASSUME InformerTypeOK, Chain, NEW note \in Notes,
           ~note.tombstone => note.old = store[note.key],
           store' = [store EXCEPT ![note.key] = note.new],
           pending' = Append(pending, note), UNCHANGED told
    PROVE  Chain'
<1> DEFINE p == pending
           q == Append(pending, note)
           N == Len(p)
<1>0. /\ p \in Seq(Notes)
      /\ \A x \in Notes : x.key \in Keys
      /\ store \in [Keys -> State]
      /\ told \in [Keys -> State]
  BY DEF InformerTypeOK, Notes
<1>1. /\ N \in Nat
      /\ Len(q) = N + 1
      /\ q[N + 1] = note
      /\ \A n \in 1..N : q[n] = p[n] /\ p[n].key \in Keys
      /\ note.key \in Keys /\ store \in [Keys -> State]
      /\ told \in [Keys -> State]
  BY <1>0
<1>2. \A n \in 1..N + 1 : n \in 1..N \/ n = N + 1
  BY <1>1
<1>3. ASSUME NEW k, NEW m \in Int, NEW n \in 1..N + 1, NoneBetween(q, k, m, n)
      PROVE  NoneBetween(p, k, m, n)
  BY <1>1, <1>3 DEF NoneBetween
<1>4. ASSUME NEW k, NEW m \in Int, m < N + 1, NoneBetween(q, k, m, N + 2)
      PROVE  NoneBetween(p, k, m, N + 1) /\ k # note.key
  <2>1. \A i \in 1..N + 1 : m < i => q[i].key # k
    BY <1>1, <1>4 DEF NoneBetween
  <2>2. \A i \in 1..N : i \in 1..N + 1
    BY <1>1
  <2>3. \A i \in 1..N : m < i => p[i].key # k
    BY <2>1, <2>2, <1>1
  <2>4. N + 1 \in 1..N + 1
    BY <1>1
  <2> QED BY <2>1, <2>3, <2>4, <1>1, <1>4 DEF NoneBetween
<1>5. Starts(told, p) /\ Links(p) /\ Ends(p, store) /\ Untouched(told, p, store)
  BY DEF Chain
<1> DEFINE new == [store EXCEPT ![note.key] = note.new]
<1>6. /\ new[note.key] = note.new
      /\ \A k \in Keys : k # note.key => new[k] = store[k]
  BY <1>1
<1> HIDE DEF N, p, q, new
<1>7. Starts(told, q)
  <2> SUFFICES ASSUME NEW n \in 1..N + 1, ~q[n].tombstone, NoneBetween(q, q[n].key, 0, n)
               PROVE  q[n].old = told[q[n].key]
    BY <1>1 DEF Starts
  <2>0. NoneBetween(p, q[n].key, 0, n)
    BY <1>3
  <2>1. CASE n \in 1..N
    BY <2>0, <2>1, <1>1, <1>5 DEF Starts, N
  <2>2. CASE n = N + 1
    BY <2>0, <2>2, <1>1, <1>5 DEF Untouched, N
  <2> QED BY <2>1, <2>2, <1>2
<1>8. Links(q)
  <2> SUFFICES ASSUME NEW m \in 1..N + 1, NEW n \in 1..N + 1, m < n, ~q[n].tombstone,
                      q[m].key = q[n].key, NoneBetween(q, q[n].key, m, n)
               PROVE  q[n].old = q[m].new
    BY <1>1 DEF Links
  <2>0. m \in 1..N /\ NoneBetween(p, q[n].key, m, n)
    BY <1>1, <1>3
  <2>1. CASE n \in 1..N
    BY <2>0, <2>1, <1>1, <1>5 DEF Links, N
  <2>2. CASE n = N + 1
    BY <2>0, <2>2, <1>1, <1>5 DEF Ends, N
  <2> QED BY <2>1, <2>2, <1>2
<1>9. Ends(q, new)
  <2> SUFFICES ASSUME NEW n \in 1..N + 1, NoneBetween(q, q[n].key, n, N + 2)
               PROVE  q[n].new = new[q[n].key]
    BY <1>1 DEF Ends
  <2>1. CASE n \in 1..N
    <3>1. NoneBetween(p, q[n].key, n, N + 1) /\ q[n].key # note.key
      BY <2>1, <1>1, <1>4
    <3> QED BY <3>1, <2>1, <1>1, <1>5, <1>6 DEF Ends, N
  <2>2. CASE n = N + 1
    BY <2>2, <1>1, <1>6
  <2> QED BY <2>1, <2>2, <1>2
<1>10. Untouched(told, q, new)
  <2> SUFFICES ASSUME NEW k \in Keys, NoneBetween(q, k, 0, N + 2)
               PROVE  told[k] = new[k]
    BY <1>1 DEF Untouched
  <2>1. NoneBetween(p, k, 0, N + 1) /\ k # note.key
    BY <1>1, <1>4
  <2> QED BY <2>1, <1>5, <1>6 DEF Untouched, N
<1>11. UNCHANGED told /\ pending' = q /\ store' = new
  BY DEF q, new
<1> QED BY <1>7, <1>8, <1>9, <1>10, <1>11 DEF Chain

LEMMA ObserveInv ==
    ASSUME InformerInv, NEW k \in Keys, Observe(k)
    PROVE  InformerInv'
<1> DEFINE state == Head(unseen[k])
           note == [key |-> k, old |-> IF state.lost THEN NoObject ELSE store[k],
                    new |-> state.obj, tombstone |-> state.lost]
<1>1. /\ unseen \in [Keys -> Unseen] /\ unseen[k] \in Unseen /\ unseen[k] # <<>>
      /\ store \in [Keys -> State] /\ store[k] \in State
  BY DEF InformerInv, InformerTypeOK, Observe, Unseen
<1>2. state \in [obj : State, lost : BOOLEAN] /\ Tail(unseen[k]) \in Unseen
  BY <1>1, HeadTailProperties DEF Unseen
<1>3. state.obj \in State /\ state.lost \in BOOLEAN
  BY <1>2
<1> HIDE DEF state
<1>4. /\ note \in Notes /\ note.key = k /\ note.new = state.obj
      /\ ~note.tombstone => note.old = store[k]
  BY <1>1, <1>3 DEF Notes, State
<1>5. /\ store' = [store EXCEPT ![k] = state.obj]
      /\ pending' = Append(pending, note)
      /\ unseen' = [unseen EXCEPT ![k] = Tail(unseen[k])]
      /\ UNCHANGED <<server, told>>
      /\ listing' = listing \ {k}
  BY DEF Observe, state
<1> HIDE DEF note
<1>6. Chain'
  BY <1>4, <1>5, ChainExtended DEF InformerInv
<1>7. pending' \in Seq(Notes)
  BY <1>4, <1>5 DEF InformerInv, InformerTypeOK
<1>8. unseen' \in [Keys -> Unseen] /\ store' \in [Keys -> State]
  BY <1>1, <1>2, <1>3, <1>5
<1>9. InformerTypeOK'
  BY <1>5, <1>7, <1>8 DEF InformerInv, InformerTypeOK, Unseen
<1> QED BY <1>6, <1>9 DEF InformerInv

LEMMA ResyncInv ==
    ASSUME InformerInv, NEW k \in Keys, Resync(k)
    PROVE  InformerInv'
<1> DEFINE note == [key |-> k, old |-> store[k], new |-> store[k], tombstone |-> FALSE]
<1>1. store \in [Keys -> State] /\ store[k] \in State
  BY DEF InformerInv, InformerTypeOK
<1>2. note \in Notes /\ note.key = k /\ note.old = store[k] /\ note.new = store[k]
  BY <1>1 DEF Notes
<1>3. pending' = Append(pending, note) /\ UNCHANGED <<server, unseen, store, told, listing>>
  BY DEF Resync
<1> HIDE DEF note
<1>4. store' = [store EXCEPT ![note.key] = note.new]
  BY <1>1, <1>2, <1>3
<1>5. Chain'
  BY <1>2, <1>3, <1>4, ChainExtended DEF InformerInv
<1>6. pending' \in Seq(Notes)
  BY <1>2, <1>3 DEF InformerInv, InformerTypeOK
<1>7. InformerTypeOK'
  BY <1>3, <1>6 DEF InformerInv, InformerTypeOK
<1> QED BY <1>5, <1>7 DEF InformerInv

(* Handling the oldest notification shortens the chain at its beginning.   *)
LEMMA ChainShortened ==
    ASSUME InformerTypeOK, Chain, Deliver
    PROVE  Chain'
<1> DEFINE p == pending
           q == Tail(pending)
           N == Len(q)
           from == [told EXCEPT ![Note.key] = Note.new]
<1>0. /\ p \in Seq(Notes) /\ p # <<>>
      /\ \A x \in Notes : x.key \in Keys
      /\ told \in [Keys -> State]
  BY DEF InformerTypeOK, Notes, Deliver
<1>1. /\ N \in Nat
      /\ Len(p) = N + 1
      /\ \A n \in 1..N : q[n] = p[n + 1]
      /\ \A n \in 1..N + 1 : p[n].key \in Keys
      /\ Note = p[1]
  BY <1>0 DEF Note
<1>2. /\ from[p[1].key] = p[1].new
      /\ \A k \in Keys : k # p[1].key => from[k] = told[k]
  BY <1>0, <1>1
<1>3. Starts(told, p) /\ Links(p) /\ Ends(p, store) /\ Untouched(told, p, store)
  BY DEF Chain
<1> HIDE DEF N, p, q, from
<1>4. \A i \in 1..N + 1 : i = 1 \/ i - 1 \in 1..N
  BY <1>1
<1>5. ASSUME NEW k, NEW m \in Nat, NEW n \in Nat, NoneBetween(q, k, m, n)
      PROVE  NoneBetween(p, k, m + 1, n + 1)
  <2> SUFFICES ASSUME NEW i \in 1..N + 1, m + 1 < i, i < n + 1 PROVE p[i].key # k
    BY <1>1 DEF NoneBetween
  <2>1. i - 1 \in 1..N /\ m < i - 1 /\ i - 1 < n
    BY <1>1, <1>4
  <2>2. q[i - 1].key # k
    BY <2>1, <1>5 DEF NoneBetween, N
  <2> QED BY <2>1, <2>2, <1>1
<1>6. ASSUME NEW k, NEW n \in Nat, NoneBetween(q, k, 0, n), p[1].key # k
      PROVE  NoneBetween(p, k, 0, n + 1)
  <2>1. NoneBetween(p, k, 1, n + 1)
    BY <1>5, <1>6
  <2> QED BY <2>1, <1>6, <1>1 DEF NoneBetween
<1>7. Starts(from, q)
  <2> SUFFICES ASSUME NEW n \in 1..N, ~q[n].tombstone, NoneBetween(q, q[n].key, 0, n)
               PROVE  q[n].old = from[q[n].key]
    BY DEF Starts, N
  <2>1. /\ n + 1 \in 1..N + 1 /\ 1 \in 1..N + 1 /\ 1 < n + 1 /\ n \in Nat
        /\ q[n] = p[n + 1] /\ p[n + 1].key \in Keys
    BY <1>1
  <2>2. CASE p[1].key = q[n].key
    <3>1. NoneBetween(p, q[n].key, 1, n + 1)
      BY <2>1, <1>5
    <3>2. p[n + 1].old = p[1].new
      BY <2>1, <2>2, <3>1, <1>1, <1>3 DEF Links
    <3> QED BY <3>2, <2>1, <2>2, <1>2
  <2>3. CASE p[1].key # q[n].key
    <3>1. NoneBetween(p, q[n].key, 0, n + 1)
      BY <2>1, <2>3, <1>6
    <3>2. p[n + 1].old = told[q[n].key]
      BY <2>1, <3>1, <1>1, <1>3 DEF Starts
    <3> QED BY <3>2, <2>1, <2>3, <1>2
  <2> QED BY <2>2, <2>3
<1>8. Links(q)
  <2> SUFFICES ASSUME NEW m \in 1..N, NEW n \in 1..N, m < n, ~q[n].tombstone,
                      q[m].key = q[n].key, NoneBetween(q, q[n].key, m, n)
               PROVE  q[n].old = q[m].new
    BY DEF Links, N
  <2>1. /\ n + 1 \in 1..N + 1 /\ m + 1 \in 1..N + 1 /\ m + 1 < n + 1
        /\ m \in Nat /\ n \in Nat
        /\ q[n] = p[n + 1] /\ q[m] = p[m + 1]
    BY <1>1
  <2>2. NoneBetween(p, q[n].key, m + 1, n + 1)
    BY <2>1, <1>5
  <2> QED BY <2>1, <2>2, <1>1, <1>3 DEF Links
<1>9. Ends(q, store)
  <2> SUFFICES ASSUME NEW n \in 1..N, NoneBetween(q, q[n].key, n, N + 1)
               PROVE  q[n].new = store[q[n].key]
    BY DEF Ends, N
  <2>1. n + 1 \in 1..N + 1 /\ n \in Nat /\ N + 1 \in Nat /\ q[n] = p[n + 1]
    BY <1>1
  <2>2. NoneBetween(p, q[n].key, n + 1, Len(p) + 1)
    BY <2>1, <1>1, <1>5
  <2> QED BY <2>1, <2>2, <1>1, <1>3 DEF Ends
<1>10. Untouched(from, q, store)
  <2> SUFFICES ASSUME NEW k \in Keys, NoneBetween(q, k, 0, N + 1)
               PROVE  from[k] = store[k]
    BY DEF Untouched, N
  <2>1. 1 \in 1..N + 1 /\ N + 1 \in Nat
    BY <1>1
  <2>2. CASE p[1].key = k
    <3>1. NoneBetween(p, k, 1, Len(p) + 1)
      BY <2>1, <1>1, <1>5
    <3>2. p[1].new = store[k]
      BY <2>1, <2>2, <3>1, <1>1, <1>3 DEF Ends
    <3> QED BY <3>2, <2>2, <1>2
  <2>3. CASE p[1].key # k
    <3>1. NoneBetween(p, k, 0, Len(p) + 1)
      BY <2>1, <2>3, <1>1, <1>6
    <3> QED BY <3>1, <2>3, <1>2, <1>3 DEF Untouched
  <2> QED BY <2>2, <2>3
<1>11. told' = from /\ pending' = q /\ store' = store
  BY DEF Deliver, from, q
<1> QED BY <1>7, <1>8, <1>9, <1>10, <1>11 DEF Chain

LEMMA DeliverInv ==
    ASSUME InformerInv, Deliver
    PROVE  InformerInv'
<1>1. Note \in Notes /\ Tail(pending) \in Seq(Notes)
  BY DEF InformerInv, InformerTypeOK, Deliver, Note
<1>2. Note.key \in Keys /\ Note.new \in State
  BY <1>1 DEF Notes
<1>3. InformerTypeOK'
  BY <1>1, <1>2 DEF InformerInv, InformerTypeOK, Deliver
<1>4. Chain'
  BY ChainShortened DEF InformerInv
<1> QED BY <1>3, <1>4 DEF InformerInv

(* The handlers see what they expect: the oldest notification tells them   *)
(* of a change from the object they were told of last.                     *)
LEMMA NoteFollowsTold ==
    ASSUME InformerInv, pending # <<>>
    PROVE  Note \in Notes /\ (~Note.tombstone => Note.old = told[Note.key])
<1>1. pending \in Seq(Notes) /\ Note = pending[1] /\ 1 \in 1..Len(pending)
  BY DEF InformerInv, InformerTypeOK, Note
<1>2. NoneBetween(pending, pending[1].key, 0, 1)
  BY DEF NoneBetween
<1> QED BY <1>1, <1>2 DEF InformerInv, Chain, Starts

-----------------------------------------------------------------------------
LEMMA InformerInvNext == InformerInv /\ [InformerNext]_informerVars => InformerInv'
<1> SUFFICES ASSUME InformerInv, [InformerNext]_informerVars
             PROVE  InformerInv'
  OBVIOUS
<1>1. CASE Restart
  BY <1>1, RestartInv
<1>2. CASE Relist
  BY <1>2, RelistInv
<1>3. CASE Deliver
  BY <1>3, DeliverInv
<1>4. ASSUME NEW k \in Keys, Observe(k) PROVE InformerInv'
  BY <1>4, ObserveInv
<1>5. ASSUME NEW k \in Keys, Resync(k) PROVE InformerInv'
  BY <1>5, ResyncInv
<1>6. ASSUME NEW k \in Keys, NEW o \in State, ServerWrite(k, o) PROVE InformerInv'
  BY <1>6, ServerWriteInv
<1>7. CASE UNCHANGED informerVars
  <2>1. Chain'
    BY <1>7, ChainUnchanged DEF informerVars, InformerInv
  <2> QED BY <1>7, <2>1 DEF informerVars, InformerInv, InformerTypeOK
<1>8. ASSUME NEW k \in Keys, Overlook(k) PROVE InformerInv'
  BY <1>8, OverlookInv
<1> QED BY <1>1, <1>2, <1>3, <1>4, <1>5, <1>6, <1>7, <1>8 DEF InformerNext

(* The handlers are never told of a change they cannot follow: in every    *)
(* state, the notifications lead without a gap from what the handlers were *)
(* told to what the Lister returns; only tombstones do not say what was    *)
(* before.                                                                 *)
THEOREM ChainNeverBreaks == InformerSpec => [](InformerTypeOK /\ Chain)
<1>1. InformerInit => InformerInv
  BY StartInv DEF InformerInit
<1> QED BY <1>1, InformerInvNext, PTL DEF InformerSpec, InformerInv

LEMMA SequenceEnds ==
    ASSUME NEW S, NEW s \in Seq(S), s # <<>>
    PROVE  /\ Head(s) \in S /\ Head(s) = s[1]
           /\ Len(Tail(s)) = Len(s) - 1 /\ Len(s) \in Nat /\ Len(s) # 0
           /\ \A n \in 1..Len(s) - 1 : Tail(s)[n] = s[n + 1]
<1>1. Len(s) \in Nat /\ Len(s) # 0
  BY EmptySeq
<1> QED BY <1>1

LEMMA TailKeepsLast ==
    ASSUME NEW S, NEW s \in Seq(S), s # <<>>
    PROVE  IF Tail(s) = <<>> THEN Len(s) = 1 ELSE Tail(s)[Len(Tail(s))] = s[Len(s)]
<1>1. Tail(s) \in Seq(S) /\ Len(Tail(s)) = Len(s) - 1 /\ Len(s) \in Nat /\ Len(s) # 0
  BY EmptySeq
<1>2. Tail(s) = <<>> <=> Len(Tail(s)) = 0
  BY <1>1, EmptySeq
<1>3. Len(s) > 1 => Tail(s)[Len(s) - 1] = s[Len(s)]
  BY <1>1
<1> QED BY <1>1, <1>2, <1>3

(* What an Observe(k) or Overlook(k) does to the two ends of what is unseen *)
(* of k.                                                                   *)
LEMMA ObserveUnseen ==
    ASSUME InformerTypeOK, NEW k \in Keys, Observe(k) \/ Overlook(k)
    PROVE  /\ unseen[k] \in Seq([obj : State, lost : BOOLEAN]) /\ unseen[k] # <<>>
           /\ unseen'[k] = Tail(unseen[k]) /\ store'[k] = unseen[k][1].obj
           /\ \A j \in Keys : j # k => unseen'[j] = unseen[j] /\ store'[j] = store[j]
           /\ UNCHANGED server
<1>1. /\ unseen \in [Keys -> Seq([obj : State, lost : BOOLEAN])] /\ store \in [Keys -> State]
      /\ unseen[k] # <<>>
  BY DEF Observe, Overlook, InformerTypeOK
<1>2. unseen[k] \in Seq([obj : State, lost : BOOLEAN])
  BY <1>1
<1>3. /\ store' = [store EXCEPT ![k] = Head(unseen[k]).obj]
      /\ unseen' = [unseen EXCEPT ![k] = Tail(unseen[k])]
      /\ UNCHANGED server
  <2>1. Overlook(k) => store = [store EXCEPT ![k] = Head(unseen[k]).obj]
    BY <1>1 DEF Overlook
  <2> QED BY <2>1 DEF Observe, Overlook
<1>4. Head(unseen[k]) = unseen[k][1]
  BY <1>1, <1>2, SequenceEnds
<1> QED BY <1>1, <1>2, <1>3, <1>4

LEMMA ReachedNext ==
    InformerTypeOK /\ UnseenLeadsToServer /\ [InformerNext]_informerVars
        => UnseenLeadsToServer'
<1> DEFINE Reached(k) == server[k] # NoObject =>
                             IF unseen[k] = <<>> THEN store[k] = server[k]
                             ELSE unseen[k][Len(unseen[k])].obj = server[k]
<1> SUFFICES ASSUME InformerTypeOK, UnseenLeadsToServer, [InformerNext]_informerVars,
                    NEW k \in Keys
             PROVE  Reached(k)'
  BY DEF UnseenLeadsToServer, Existing, Final
<1>1. Reached(k) /\ unseen[k] \in Seq([obj : State, lost : BOOLEAN])
  BY DEF UnseenLeadsToServer, InformerTypeOK, Existing, Final
<1>2. CASE Restart
  BY <1>2 DEF Restart, Listed, Existing, Nothing
<1>3. CASE Relist
  <2>1. PICK n \in MayHaveReached(k) : unseen'[k] = Relisted(k, n)
    BY <1>3, RelistUnseen
  <2>2. /\ n \in Nat /\ UNCHANGED server
        /\ server[k] # NoObject =>
               Len(unseen'[k]) = n + 1 /\ unseen'[k][n + 1].obj = server[k]
    BY <1>3, <2>1, RelistedShape DEF Existing, Relist
  <2>3. server[k] # NoObject => unseen'[k] # <<>>
    BY <2>2
  <2> QED BY <2>2, <2>3
<1>4. CASE Deliver
  BY <1>1, <1>4 DEF Deliver
<1>5. ASSUME NEW j \in Keys, Observe(j) \/ Overlook(j) PROVE Reached(k)'
  <2>1. CASE j # k
    BY <1>1, <1>5, <2>1, ObserveUnseen
  <2>2. CASE j = k
    <3>1. IF Tail(unseen[k]) = <<>> THEN Len(unseen[k]) = 1
          ELSE Tail(unseen[k])[Len(Tail(unseen[k]))] = unseen[k][Len(unseen[k])]
      BY <1>1, <1>5, <2>2, ObserveUnseen, TailKeepsLast
    <3> QED BY <1>1, <1>5, <2>2, <3>1, ObserveUnseen
  <2> QED BY <2>1, <2>2
<1>6. ASSUME NEW j \in Keys, Resync(j) PROVE Reached(k)'
  BY <1>1, <1>6 DEF Resync
<1>7. ASSUME NEW j \in Keys, NEW o \in State, ServerWrite(j, o) PROVE Reached(k)'
  <2>1. CASE j # k
    BY <1>1, <1>7, <2>1 DEF ServerWrite, InformerTypeOK
  <2>2. CASE j = k
    BY <1>1, <1>7, <2>2 DEF ServerWrite, InformerTypeOK
  <2> QED BY <2>1, <2>2
<1>8. CASE UNCHANGED informerVars
  BY <1>1, <1>8 DEF informerVars
<1> QED BY <1>2, <1>3, <1>4, <1>5, <1>6, <1>7, <1>8 DEF InformerNext

LEMMA StartReached == Start => UnseenLeadsToServer
BY DEF Start, Listed, Existing, Nothing, UnseenLeadsToServer, Final

(* What is still on its way to the store of an object that exists ends in  *)
(* what the server holds, so nothing the server has is missed for good,    *)
(* whatever the watch loses.                                               *)
THEOREM ServerIsReached == InformerSpec => []UnseenLeadsToServer
<1>1. InformerInit => UnseenLeadsToServer
  BY StartReached DEF InformerInit
<1> QED BY <1>1, ReachedNext, ChainNeverBreaks, PTL DEF InformerSpec

-----------------------------------------------------------------------------
(* Only a list overlooks that an object is gone, and only if that object   *)
(* had reached the informer and not yet the store.                         *)
LEMMA RelistedEnds ==
    ASSUME InformerTypeOK, NEW k \in Keys, k \notin Existing, NEW n \in MayHaveReached(k),
           NEW r, r = Relisted(k, n),
           (IF r = <<>> THEN store[k] ELSE r[Len(r)].obj) # NoObject
    PROVE  store[k] = NoObject /\ n > 0
<1> DEFINE reached == SubSeq(unseen[k], 1, n)
<1>1. /\ r \in Unseen /\ n \in 0..Len(unseen[k]) /\ Len(unseen[k]) \in Nat
      /\ \A i \in 1..n : r[i] = unseen[k][i]
      /\ Len(r) = n \/ (Len(r) = n + 1 /\ r[n + 1].obj = NoObject)
  BY RelistedShape
<1>2. Len(reached) = n /\ \A i \in 1..n : reached[i] = unseen[k][i]
  <2> DEFINE R == [obj : State, lost : BOOLEAN]
  <2>1. unseen[k] \in Seq(R)
    BY DEF InformerTypeOK
  <2> HIDE DEF R
  <2> QED BY <1>1, <2>1, FirstOfSequence
<1>3. r = <<>> <=> Len(r) = 0
  BY <1>1, EmptySeq DEF Unseen
<1>4. Len(r) = n
  <2>1. Len(r) # n + 1
    BY <1>1, <1>3
  <2> QED BY <1>1, <2>1
<1>5. n > 0 => unseen[k][n].obj # NoObject
  BY <1>1, <1>3, <1>4
<1>6. store[k] = NoObject
  <2> SUFFICES ASSUME store[k] # NoObject PROVE FALSE
    OBVIOUS
  <2>1. ~(n > 0 /\ reached[n].obj = NoObject)
    BY <1>1, <1>2, <1>5
  <2>2. r = Append(reached, Deletion)
    BY <2>1 DEF Relisted
  <2>3. Len(Append(reached, Deletion)) = Len(reached) + 1
    <3>1. reached \in Seq([obj : State, lost : BOOLEAN])
      <4> DEFINE R == [obj : State, lost : BOOLEAN]
      <4>1. unseen[k] \in Seq(R)
        BY DEF InformerTypeOK
      <4> HIDE DEF R
      <4>2. reached \in Seq(R)
        BY <1>1, <4>1, FirstOfSequence
      <4> QED BY <4>2 DEF R
    <3> HIDE DEF reached
    <3> QED BY <3>1
  <2> HIDE DEF reached
  <2> QED BY <1>1, <1>2, <1>4, <2>2, <2>3
<1> QED BY <1>1, <1>3, <1>4, <1>6

LEMMA OverlookedBefore ==
    ASSUME InformerTypeOK, NEW k \in Keys, Overlooked(k)',
           \/ Restart \/ Deliver \/ UNCHANGED informerVars
           \/ \E j \in Keys : \/ Observe(j) \/ Overlook(j) \/ Resync(j)
                             \/ \E o : ServerWrite(j, o)
    PROVE  Overlooked(k)
<1>1. unseen[k] \in Seq([obj : State, lost : BOOLEAN])
  BY DEF InformerTypeOK
<1>2. ASSUME UNCHANGED <<server, unseen, store>> PROVE Overlooked(k)
  BY <1>2 DEF Overlooked, Final
<1>3. CASE Restart
  BY <1>3 DEF Restart, Overlooked, Final, Listed, Existing, Nothing
<1>4. CASE Deliver
  BY <1>2, <1>4 DEF Deliver
<1>5. CASE UNCHANGED informerVars
  BY <1>2, <1>5 DEF informerVars
<1>6. ASSUME NEW j \in Keys, Observe(j) \/ Overlook(j) PROVE Overlooked(k)
  <2>1. CASE j # k
    <3>1. UNCHANGED server /\ unseen'[k] = unseen[k] /\ store'[k] = store[k]
      BY <1>6, <2>1, ObserveUnseen
    <3> QED BY <3>1 DEF Overlooked, Final
  <2>2. CASE j = k
    <3>1. /\ unseen[k] # <<>> /\ unseen'[k] = Tail(unseen[k])
          /\ store'[k] = unseen[k][1].obj /\ UNCHANGED server
      BY <1>6, <2>2, ObserveUnseen
    <3>2. IF Tail(unseen[k]) = <<>> THEN Len(unseen[k]) = 1
          ELSE Tail(unseen[k])[Len(Tail(unseen[k]))] = unseen[k][Len(unseen[k])]
      BY <1>1, <3>1, TailKeepsLast
    <3> QED BY <3>1, <3>2 DEF Overlooked, Final
  <2> QED BY <2>1, <2>2
<1>7. ASSUME NEW j \in Keys, Resync(j) PROVE Overlooked(k)
  BY <1>2, <1>7 DEF Resync
<1>8. ASSUME NEW j \in Keys, NEW o, ServerWrite(j, o) PROVE Overlooked(k)
  <2> DEFINE x == [obj |-> o, lost |-> FALSE]
  <2>1. /\ server' = [server EXCEPT ![j] = o] /\ UNCHANGED store
        /\ unseen' = [unseen EXCEPT ![j] = Append(unseen[j], x)]
        /\ server \in [Keys -> State]
        /\ unseen \in [Keys -> Seq([obj : State, lost : BOOLEAN])]
    BY <1>8 DEF ServerWrite, InformerTypeOK
  <2>2. CASE j # k
    <3>1. server'[k] = server[k] /\ unseen'[k] = unseen[k] /\ store'[k] = store[k]
      BY <2>1, <2>2
    <3> QED BY <3>1 DEF Overlooked, Final
  <2>3. CASE j = k
    <3>1. server'[k] = o /\ unseen'[k] = Append(unseen[k], x)
      BY <2>1, <2>3
    <3>2. /\ Len(unseen'[k]) = Len(unseen[k]) + 1 /\ Len(unseen[k]) \in Nat
          /\ unseen'[k][Len(unseen[k]) + 1] = x /\ unseen'[k] # <<>>
      <4> DEFINE s == unseen[k]
      <4>1. s \in Seq([obj : State, lost : BOOLEAN])
        BY <1>1
      <4> HIDE DEF s, x
      <4>2. /\ Len(Append(s, x)) = Len(s) + 1 /\ Len(s) \in Nat
            /\ Append(s, x)[Len(s) + 1] = x /\ Append(s, x) # <<>>
        BY <4>1
      <4> QED BY <3>1, <4>2 DEF s
    <3>3. FALSE
      BY <3>1, <3>2 DEF Overlooked, Final
    <3> QED BY <3>3
  <2> QED BY <2>2, <2>3
<1> QED BY <1>3, <1>4, <1>5, <1>6, <1>7, <1>8

-----------------------------------------------------------------------------
(* A deletion follows on an object: the states of a key that the store has *)
(* yet to go through are never "no object" twice in a row.                 *)
Alternates ==
    \A k \in Keys : \A n \in 1..Len(unseen[k]) :
        unseen[k][n].obj = NoObject =>
            IF n = 1 THEN store[k] # NoObject ELSE unseen[k][n - 1].obj # NoObject

LEMMA AlternatesNext ==
    /\ InformerTypeOK /\ UnseenLeadsToServer /\ Alternates
    /\ [InformerNext]_informerVars
    => Alternates'
<1> DEFINE Alternate(k) ==
        \A n \in 1..Len(unseen[k]) :
            unseen[k][n].obj = NoObject =>
                IF n = 1 THEN store[k] # NoObject ELSE unseen[k][n - 1].obj # NoObject
<1> SUFFICES ASSUME InformerTypeOK, UnseenLeadsToServer, Alternates,
                    [InformerNext]_informerVars, NEW k \in Keys
             PROVE  Alternate(k)'
  BY DEF Alternates
<1>1. Alternate(k) /\ unseen[k] \in Seq([obj : State, lost : BOOLEAN])
  BY DEF Alternates, InformerTypeOK
<1>2. CASE Restart
  BY <1>2 DEF Restart, Listed, Existing
<1>3. CASE Relist
  <2>1. PICK n \in MayHaveReached(k) : unseen'[k] = Relisted(k, n)
    BY <1>3, RelistUnseen
  <2>2. /\ n \in 0..Len(unseen[k]) /\ Len(unseen[k]) \in Nat
        /\ \A i \in 1..n : unseen'[k][i] = unseen[k][i]
        /\ \/ Len(unseen'[k]) = n
           \/ /\ Len(unseen'[k]) = n + 1
              /\ unseen'[k][n + 1].obj = NoObject =>
                     IF n = 0 THEN store[k] # NoObject ELSE unseen[k][n].obj # NoObject
    BY <2>1, RelistedShape DEF Existing
  <2>3. store' = store
    BY <1>3 DEF Relist
  <2> SUFFICES ASSUME NEW m \in 1..Len(unseen'[k]), unseen'[k][m].obj = NoObject
               PROVE  IF m = 1 THEN store'[k] # NoObject
                      ELSE unseen'[k][m - 1].obj # NoObject
    OBVIOUS
  <2>4. CASE m \in 1..n
    <3>1. m \in 1..Len(unseen[k]) /\ (m # 1 => m - 1 \in 1..n)
      BY <2>2, <2>4
    <3> QED BY <1>1, <2>2, <2>3, <2>4, <3>1
  <2>5. CASE m = n + 1 /\ Len(unseen'[k]) = n + 1
    <3>1. m # 1 => m - 1 = n /\ n \in 1..n
      BY <2>2, <2>5
    <3> QED BY <2>2, <2>3, <2>5, <3>1
  <2> QED BY <2>2, <2>4, <2>5
<1>4. CASE Deliver
  BY <1>1, <1>4 DEF Deliver
<1>5. ASSUME NEW j \in Keys, Observe(j) \/ Overlook(j) PROVE Alternate(k)'
  <2>1. CASE j # k
    BY <1>1, <1>5, <2>1, ObserveUnseen
  <2>2. CASE j = k
    <3>1. /\ unseen[k] # <<>> /\ unseen'[k] = Tail(unseen[k])
          /\ store'[k] = unseen[k][1].obj
      BY <1>5, <2>2, ObserveUnseen
    <3>2. /\ Len(unseen'[k]) = Len(unseen[k]) - 1 /\ Len(unseen[k]) \in Nat
          /\ \A n \in 1..Len(unseen[k]) - 1 : unseen'[k][n] = unseen[k][n + 1]
      BY <1>1, <3>1, SequenceEnds
    <3> SUFFICES ASSUME NEW n \in 1..Len(unseen'[k]), unseen'[k][n].obj = NoObject
                 PROVE  IF n = 1 THEN store'[k] # NoObject
                        ELSE unseen'[k][n - 1].obj # NoObject
      OBVIOUS
    <3>3. n + 1 \in 1..Len(unseen[k]) /\ unseen[k][n + 1].obj = NoObject /\ n + 1 # 1
      BY <3>2
    <3>4. unseen[k][n].obj # NoObject
      BY <1>1, <3>3
    <3>5. n # 1 => unseen'[k][n - 1] = unseen[k][n]
      <4>1. n \in Nat /\ n <= Len(unseen[k]) - 1
        BY <3>2
      <4>2. n # 1 => n - 1 \in 1..Len(unseen[k]) - 1 /\ (n - 1) + 1 = n
        BY <3>2, <4>1
      <4> QED BY <3>2, <4>2
    <3> QED BY <3>1, <3>4, <3>5
  <2> QED BY <2>1, <2>2
<1>6. ASSUME NEW j \in Keys, Resync(j) PROVE Alternate(k)'
  BY <1>1, <1>6 DEF Resync
<1>7. ASSUME NEW j \in Keys, NEW o \in State, ServerWrite(j, o) PROVE Alternate(k)'
  <2>1. CASE j # k
    BY <1>1, <1>7, <2>1 DEF ServerWrite, InformerTypeOK
  <2>2. CASE j = k
    <3>1. /\ o # server[k] /\ store' = store
          /\ unseen'[k] = Append(unseen[k], [obj |-> o, lost |-> FALSE])
      BY <1>7, <2>2 DEF ServerWrite, InformerTypeOK
    <3>2. /\ Len(unseen[k]) \in Nat /\ Len(unseen'[k]) = Len(unseen[k]) + 1
          /\ unseen'[k][Len(unseen[k]) + 1] = [obj |-> o, lost |-> FALSE]
          /\ \A n \in 1..Len(unseen[k]) : unseen'[k][n] = unseen[k][n]
      BY <1>1, <3>1
    <3>3. o = NoObject => IF Len(unseen[k]) = 0 THEN store[k] # NoObject
                          ELSE unseen[k][Len(unseen[k])].obj # NoObject
      BY <1>1, <3>1, EmptySeq DEF UnseenLeadsToServer, Existing, Final
    <3> SUFFICES ASSUME NEW n \in 1..Len(unseen'[k]), unseen'[k][n].obj = NoObject
                 PROVE  IF n = 1 THEN store'[k] # NoObject
                        ELSE unseen'[k][n - 1].obj # NoObject
      OBVIOUS
    <3>4. CASE n = Len(unseen[k]) + 1
      BY <3>1, <3>2, <3>3, <3>4
    <3>5. CASE n # Len(unseen[k]) + 1
      <4>1. n \in 1..Len(unseen[k]) /\ (n # 1 => n - 1 \in 1..Len(unseen[k]))
        BY <3>2, <3>5
      <4> QED BY <1>1, <3>1, <3>2, <4>1
    <3> QED BY <3>4, <3>5
  <2> QED BY <2>1, <2>2
<1>8. CASE UNCHANGED informerVars
  BY <1>1, <1>8 DEF informerVars
<1> QED BY <1>2, <1>3, <1>4, <1>5, <1>6, <1>7, <1>8 DEF InformerNext

LEMMA NoneBetweenAppended ==
    ASSUME NEW S, NEW p \in Seq(S), NEW note, NEW k, NEW m \in Int, NEW n \in 1..Len(p) + 1,
           NoneBetween(Append(p, note), k, m, n)
    PROVE  NoneBetween(p, k, m, n)
<1>1. Len(Append(p, note)) = Len(p) + 1 /\ Len(p) \in Nat
  OBVIOUS
<1>2. \A i \in 1..Len(p) : Append(p, note)[i] = p[i] /\ i \in 1..Len(p) + 1
  BY <1>1
<1> QED BY <1>1, <1>2 DEF NoneBetween

LEMMA NoneBetweenTail ==
    ASSUME NEW S, NEW p \in Seq(S), p # <<>>, NEW k, NEW m \in Nat, NEW n \in Nat,
           NoneBetween(Tail(p), k, m, n)
    PROVE  /\ NoneBetween(p, k, m + 1, n + 1)
           /\ m = 0 /\ p[1].key # k => NoneBetween(p, k, 0, n + 1)
<1>1. /\ Len(Tail(p)) = Len(p) - 1 /\ Len(p) \in Nat
      /\ \A i \in 1..Len(p) - 1 : Tail(p)[i] = p[i + 1]
  BY SequenceEnds
<1>2. ASSUME NEW i \in 1..Len(p), m + 1 < i, i < n + 1
      PROVE  p[i].key # k
  <2>1. i - 1 \in 1..Len(p) - 1 /\ m < i - 1 /\ i - 1 < n /\ (i - 1) + 1 = i
    BY <1>1, <1>2
  <2>2. Tail(p)[i - 1].key # k
    BY <1>1, <2>1 DEF NoneBetween
  <2> QED BY <1>1, <2>1, <2>2
<1>3. NoneBetween(p, k, m + 1, n + 1)
  BY <1>2 DEF NoneBetween
<1>4. ASSUME m = 0, p[1].key # k PROVE NoneBetween(p, k, 0, n + 1)
  <2>1. \A i \in 1..Len(p) : i = 1 \/ 0 + 1 < i
    BY <1>1
  <2> QED BY <1>2, <1>4, <2>1 DEF NoneBetween
<1> QED BY <1>3, <1>4

(* A notification that is added to an unbroken chain, and tells of a       *)
(* deletion only if the store had the object.                              *)
LEMMA SenseExtended ==
    ASSUME InformerTypeOK, Chain, NotesMakeSense, NEW note \in Notes,
           note.new = NoObject => store[note.key] # NoObject,
           pending' = Append(pending, note), UNCHANGED told
    PROVE  NotesMakeSense'
<1> DEFINE p == pending
           q == Append(pending, note)
           N == Len(p)
<1>1. /\ p \in Seq(Notes) /\ N \in Nat /\ Len(q) = N + 1 /\ q[N + 1] = note
      /\ \A n \in 1..N : q[n] = p[n]
      /\ note.key \in Keys
      /\ \A n \in 1..N + 1 : n \in 1..N \/ n = N + 1
  BY DEF InformerTypeOK, Notes
<1>2. \A k : \A m \in Int : \A n \in 1..N + 1 :
          NoneBetween(q, k, m, n) => NoneBetween(p, k, m, n)
  BY <1>1, NoneBetweenAppended
<1>3. \A n \in 1..N : p[n].new = NoObject => KnownBefore(told, p, n)
  BY DEF NotesMakeSense
<1>4. Ends(p, store) /\ Untouched(told, p, store)
  BY DEF Chain
<1> HIDE DEF p, q, N
<1>5. ASSUME NEW n \in 1..N + 1, q[n].new = NoObject
      PROVE  KnownBefore(told, q, n)
  <2>1. NoneBetween(q, q[n].key, 0, n) => told[q[n].key] # NoObject
    <3> SUFFICES ASSUME NoneBetween(q, q[n].key, 0, n) PROVE told[q[n].key] # NoObject
      OBVIOUS
    <3>1. NoneBetween(p, q[n].key, 0, n)
      BY <1>2
    <3>2. CASE n \in 1..N
      BY <3>1, <3>2, <1>1, <1>3, <1>5 DEF KnownBefore
    <3>3. CASE n = N + 1
      BY <3>1, <3>3, <1>1, <1>4, <1>5 DEF Untouched, N
    <3> QED BY <1>1, <3>2, <3>3
  <2>2. ASSUME NEW m \in 1..N + 1, m < n, q[m].key = q[n].key, NoneBetween(q, q[n].key, m, n)
        PROVE  q[m].new # NoObject
    <3>1. m \in 1..N /\ NoneBetween(p, q[n].key, m, n)
      BY <1>1, <1>2, <2>2
    <3>2. CASE n \in 1..N
      BY <3>1, <3>2, <1>1, <1>3, <1>5, <2>2 DEF KnownBefore, N
    <3>3. CASE n = N + 1
      <4>1. p[m].new = store[p[m].key]
        BY <3>1, <3>3, <2>2, <1>1, <1>4 DEF Ends, N
      <4> QED BY <4>1, <3>1, <3>3, <2>2, <1>1, <1>5
    <3> QED BY <1>1, <3>2, <3>3
  <2> QED BY <1>1, <2>1, <2>2 DEF KnownBefore
<1> QED BY <1>1, <1>5 DEF NotesMakeSense, q

(* The oldest notification is taken off. *)
LEMMA SenseShortened ==
    ASSUME InformerTypeOK, NotesMakeSense, Deliver
    PROVE  NotesMakeSense'
<1> DEFINE p == pending
           q == Tail(pending)
           N == Len(q)
           from == [told EXCEPT ![Note.key] = Note.new]
<1>1. /\ p \in Seq(Notes) /\ p # <<>> /\ told \in [Keys -> State]
      /\ \A x \in Notes : x.key \in Keys
  BY DEF InformerTypeOK, Deliver, Notes
<1>2. /\ N \in Nat /\ Len(p) = N + 1 /\ Note = p[1]
      /\ \A n \in 1..N : q[n] = p[n + 1] /\ n + 1 \in 1..Len(p)
      /\ \A n \in 1..Len(p) : p[n].key \in Keys
  BY <1>1, SequenceEnds DEF Note
<1>3. /\ from[p[1].key] = p[1].new
      /\ \A k \in Keys : k # p[1].key => from[k] = told[k]
  BY <1>1, <1>2
<1>4. \A n \in 1..Len(p) : p[n].new = NoObject => KnownBefore(told, p, n)
  BY DEF NotesMakeSense
<1>5. ASSUME NEW k, NEW m \in Nat, NEW n \in Nat, NoneBetween(q, k, m, n)
      PROVE  /\ NoneBetween(p, k, m + 1, n + 1)
             /\ m = 0 /\ p[1].key # k => NoneBetween(p, k, 0, n + 1)
  BY <1>1, <1>5, NoneBetweenTail
<1>6. told' = from /\ pending' = q
  BY DEF Deliver
<1> HIDE DEF p, q, N, from
<1>7. ASSUME NEW n \in 1..N, q[n].new = NoObject
      PROVE  KnownBefore(from, q, n)
  <2>1. /\ q[n] = p[n + 1] /\ n + 1 \in 1..Len(p) /\ 1 \in 1..Len(p) /\ n \in Nat
        /\ 1 < n + 1 /\ p[n + 1].key \in Keys
    BY <1>2
  <2>2. KnownBefore(told, p, n + 1)
    BY <1>4, <1>7, <2>1
  <2>3. NoneBetween(q, q[n].key, 0, n) => from[q[n].key] # NoObject
    <3> SUFFICES ASSUME NoneBetween(q, q[n].key, 0, n) PROVE from[q[n].key] # NoObject
      OBVIOUS
    <3>1. CASE p[1].key = q[n].key
      <4>1. NoneBetween(p, q[n].key, 1, n + 1)
        BY <1>5, <2>1
      <4> QED BY <4>1, <3>1, <2>1, <2>2, <1>3 DEF KnownBefore
    <3>2. CASE p[1].key # q[n].key
      <4>1. NoneBetween(p, q[n].key, 0, n + 1)
        BY <1>5, <2>1, <3>2
      <4> QED BY <4>1, <3>2, <2>1, <2>2, <1>3 DEF KnownBefore
    <3> QED BY <3>1, <3>2
  <2>4. ASSUME NEW m \in 1..N, m < n, q[m].key = q[n].key, NoneBetween(q, q[n].key, m, n)
        PROVE  q[m].new # NoObject
    <3>1. /\ m \in Nat /\ m + 1 < n + 1 /\ q[m] = p[m + 1] /\ m + 1 \in 1..Len(p)
      BY <1>2, <2>4
    <3>2. NoneBetween(p, q[n].key, m + 1, n + 1)
      BY <3>1, <2>1, <2>4, <1>5
    <3> QED BY <3>1, <3>2, <2>1, <2>2, <2>4 DEF KnownBefore
  <2> QED BY <2>3, <2>4 DEF KnownBefore, N
<1> QED BY <1>6, <1>7 DEF NotesMakeSense, N

(* A step of the informer adds at most one notification, or takes one off. *)
LEMMA NotesMakeSenseNext ==
    /\ InformerTypeOK /\ Chain /\ Alternates /\ NotesMakeSense
    /\ [InformerNext]_informerVars
    => NotesMakeSense'
<1> SUFFICES ASSUME InformerTypeOK, Chain, Alternates, NotesMakeSense,
                    [InformerNext]_informerVars
             PROVE  NotesMakeSense'
  OBVIOUS
<1>3. CASE Restart
  BY <1>3 DEF Restart, NotesMakeSense
<1>4. CASE Deliver
  BY <1>4, SenseShortened
<1>5. ASSUME NEW k \in Keys, Observe(k) PROVE NotesMakeSense'
  <2> DEFINE note == [key |-> k, old |-> IF Head(unseen[k]).lost THEN NoObject ELSE store[k],
                      new |-> Head(unseen[k]).obj, tombstone |-> Head(unseen[k]).lost]
  <2>1. /\ unseen[k] \in Seq([obj : State, lost : BOOLEAN]) /\ unseen[k] # <<>>
        /\ store[k] \in State
    BY <1>5, ObserveUnseen DEF InformerTypeOK
  <2>2. /\ 1 \in 1..Len(unseen[k]) /\ Head(unseen[k]) = unseen[k][1]
        /\ Head(unseen[k]) \in [obj : State, lost : BOOLEAN]
    <3> HIDE DEF note
    <3>1. /\ Len(unseen[k]) \in Nat /\ Len(unseen[k]) # 0 /\ Head(unseen[k]) = unseen[k][1]
          /\ Head(unseen[k]) \in [obj : State, lost : BOOLEAN]
      BY ONLY <2>1, SequenceEnds
    <3>2. 1 \in 1..Len(unseen[k])
      BY ONLY <3>1
    <3> QED BY ONLY <3>1, <3>2
  <2>3. unseen[k][1].obj = NoObject => store[k] # NoObject
    BY <2>2 DEF Alternates
  <2>4. note \in Notes /\ note.key = k /\ note.new = unseen[k][1].obj
    BY <2>1, <2>2 DEF Notes, State
  <2>5. pending' = Append(pending, note) /\ UNCHANGED told
    BY <1>5 DEF Observe
  <2> HIDE DEF note
  <2> QED BY <2>3, <2>4, <2>5, SenseExtended
<1>6. ASSUME NEW k \in Keys, Resync(k) PROVE NotesMakeSense'
  <2> DEFINE note == [key |-> k, old |-> store[k], new |-> store[k], tombstone |-> FALSE]
  <2>1. store[k] \in State /\ store[k] # NoObject
    BY <1>6 DEF Resync, InformerTypeOK
  <2>2. note \in Notes /\ note.key = k /\ note.new = store[k]
    BY <2>1 DEF Notes
  <2>3. pending' = Append(pending, note) /\ UNCHANGED told
    BY <1>6 DEF Resync
  <2> HIDE DEF note
  <2> QED BY <2>1, <2>2, <2>3, SenseExtended
<1>7. CASE UNCHANGED <<pending, told>>
  BY <1>7 DEF NotesMakeSense
<1> QED
  BY <1>3, <1>4, <1>5, <1>6, <1>7
  DEF InformerNext, Relist, Overlook, ServerWrite, informerVars

(* In particular of the oldest one. *)
LEMMA DeletedWasTold ==
    ASSUME InformerTypeOK, NotesMakeSense, pending # <<>>, Note.new = NoObject
    PROVE  told[Note.key] # NoObject
<1>1. pending \in Seq(Notes) /\ Note = pending[1] /\ 1 \in 1..Len(pending)
  BY DEF InformerTypeOK, Note
<1>2. NoneBetween(pending, pending[1].key, 0, 1)
  BY DEF NoneBetween
<1> QED BY <1>1, <1>2 DEF NotesMakeSense, KnownBefore

LEMMA StartMakesSense == Start => Alternates /\ NotesMakeSense
BY DEF Start, Listed, Existing, Alternates, NotesMakeSense

(* Handlers are told of a deletion only of an object that they know, also  *)
(* when a list meets what is still unseen.                                 *)
THEOREM NotesAlwaysMakeSense == InformerSpec => []NotesMakeSense
<1>1. InformerInit => Alternates /\ NotesMakeSense
  BY StartMakesSense DEF InformerInit
<1> QED
  BY <1>1, AlternatesNext, NotesMakeSenseNext, ChainNeverBreaks, ServerIsReached, PTL
  DEF InformerSpec

-----------------------------------------------------------------------------
(* What is lost is an object that is gone, so tombstones tell deletions.   *)
TombstonesDelete ==
    /\ \A k \in Keys : \A n \in 1..Len(unseen[k]) :
          unseen[k][n].lost => unseen[k][n].obj = NoObject
    /\ \A n \in 1..Len(pending) : pending[n].tombstone => pending[n].new = NoObject

LEMMA StartTombstones == Start => TombstonesDelete
BY DEF Start, Listed, Existing, TombstonesDelete

(* A state that is taken from the front leaves the others.                 *)
LEMMA LostShrinks ==
    ASSUME InformerTypeOK, NEW j \in Keys, Observe(j) \/ Overlook(j),
           \A k \in Keys : \A n \in 1..Len(unseen[k]) :
               unseen[k][n].lost => unseen[k][n].obj = NoObject
    PROVE  \A k \in Keys : \A n \in 1..Len(unseen'[k]) :
               unseen'[k][n].lost => unseen'[k][n].obj = NoObject
<1>1. /\ unseen[j] \in Seq([obj : State, lost : BOOLEAN]) /\ unseen[j] # <<>>
      /\ unseen'[j] = Tail(unseen[j])
      /\ \A k \in Keys : k # j => unseen'[k] = unseen[k]
  BY ObserveUnseen
<1>2. /\ Len(Tail(unseen[j])) = Len(unseen[j]) - 1 /\ Len(unseen[j]) \in Nat
      /\ \A n \in 1..Len(unseen[j]) - 1 : Tail(unseen[j])[n] = unseen[j][n + 1]
  BY <1>1, SequenceEnds
<1>3. \A n \in 1..Len(unseen'[j]) : n + 1 \in 1..Len(unseen[j]) /\ unseen'[j][n] = unseen[j][n + 1]
  BY <1>1, <1>2
<1>4. \A n \in 1..Len(unseen'[j]) : unseen'[j][n].lost => unseen'[j][n].obj = NoObject
  BY <1>3
<1> QED BY <1>1, <1>4

LEMMA TombstonesNext ==
    InformerTypeOK /\ TombstonesDelete /\ [InformerNext]_informerVars => TombstonesDelete'
<1> DEFINE Lost(k) == \A n \in 1..Len(unseen[k]) : unseen[k][n].lost => unseen[k][n].obj = NoObject
           Told == \A n \in 1..Len(pending) : pending[n].tombstone => pending[n].new = NoObject
<1> SUFFICES ASSUME InformerTypeOK, TombstonesDelete, [InformerNext]_informerVars
             PROVE  Told' /\ \A k \in Keys : Lost(k)'
  BY DEF TombstonesDelete
<1>1. /\ Told /\ pending \in Seq(Notes)
      /\ \A k \in Keys : Lost(k) /\ unseen[k] \in Seq([obj : State, lost : BOOLEAN])
  BY DEF TombstonesDelete, InformerTypeOK
<1>2. ASSUME NEW note \in Notes, pending' = Append(pending, note),
             note.tombstone => note.new = NoObject
      PROVE  Told'
  <2>1. /\ Len(pending') = Len(pending) + 1 /\ Len(pending) \in Nat
        /\ pending'[Len(pending) + 1] = note
        /\ \A n \in 1..Len(pending) : pending'[n] = pending[n]
    BY <1>1, <1>2
  <2>2. \A n \in 1..Len(pending') : n \in 1..Len(pending) \/ n = Len(pending) + 1
    BY <2>1
  <2> QED BY <1>1, <1>2, <2>1, <2>2
<1>3. CASE UNCHANGED informerVars
  BY <1>1, <1>3 DEF informerVars
<1>4. CASE Restart
  BY <1>4 DEF Restart, Listed, Existing
<1>5. CASE Relist
  <2>1. Told'
    BY <1>1, <1>5 DEF Relist
  <2>2. ASSUME NEW k \in Keys PROVE Lost(k)'
    <3>1. PICK n \in MayHaveReached(k) : unseen'[k] = Relisted(k, n)
      BY <1>5, RelistUnseen
    <3>2. /\ n \in 0..Len(unseen[k]) /\ Len(unseen[k]) \in Nat
          /\ \A i \in 1..n : unseen'[k][i] = unseen[k][i]
          /\ \/ k \in Existing /\ Len(unseen'[k]) = n + 1
             \/ Len(unseen'[k]) = n
             \/ Len(unseen'[k]) = n + 1 /\ unseen'[k][n + 1].obj = NoObject
      BY <3>1, RelistedShape
    <3>3. k \in Existing /\ Len(unseen'[k]) = n + 1 => ~unseen'[k][n + 1].lost
      <4> SUFFICES ASSUME k \in Existing PROVE ~unseen'[k][n + 1].lost
        OBVIOUS
      <4> DEFINE reached == SubSeq(unseen[k], 1, n)
                 x == [obj |-> server[k], lost |-> FALSE]
                 R == [obj : State, lost : BOOLEAN]
      <4>1. unseen'[k] = reached \o <<x>>
        BY <3>1 DEF Relisted, Listed
      <4>2. reached \in Seq(R) /\ Len(reached) = n
        <5>1. unseen[k] \in Seq(R)
          BY <1>1
        <5> HIDE DEF R
        <5> QED BY <3>2, <5>1, FirstOfSequence
      <4>3. ~x.lost
        OBVIOUS
      <4> HIDE DEF reached, x, R
      <4>4. (reached \o <<x>>)[n + 1] = x
        BY <3>2, <4>2
      <4> QED BY <4>1, <4>3, <4>4
    <3>4. \A i \in 1..Len(unseen'[k]) : i \in 1..n \/ (i = n + 1 /\ Len(unseen'[k]) = n + 1)
      BY <3>2
    <3>5. \A i \in 1..n : i \in 1..Len(unseen[k])
      BY <3>2
    <3>6. Lost(k)
      BY <1>1
    <3>7. Len(unseen'[k]) = n + 1 => ~unseen'[k][n + 1].lost \/ unseen'[k][n + 1].obj = NoObject
      BY <3>2, <3>3
    <3>8. \A i \in 1..n : unseen'[k][i].lost => unseen'[k][i].obj = NoObject
      BY <3>2, <3>5, <3>6
    <3>9. \A i \in 1..Len(unseen'[k]) : unseen'[k][i].lost => unseen'[k][i].obj = NoObject
      BY <3>4, <3>7, <3>8
    <3> QED BY <3>9
  <2> QED BY <2>1, <2>2
<1>6. CASE Deliver
  <2>1. /\ pending # <<>> /\ pending' = Tail(pending) /\ UNCHANGED unseen
    BY <1>6 DEF Deliver
  <2>2. \A n \in 1..Len(pending') : n + 1 \in 1..Len(pending) /\ pending'[n] = pending[n + 1]
    <3>1. /\ Len(Tail(pending)) = Len(pending) - 1 /\ Len(pending) \in Nat
          /\ \A n \in 1..Len(pending) - 1 : Tail(pending)[n] = pending[n + 1]
      BY <1>1, <2>1, SequenceEnds
    <3> QED BY <2>1, <3>1
  <2> QED BY <1>1, <2>1, <2>2
<1>7. ASSUME NEW j \in Keys, Observe(j) PROVE Told' /\ \A k \in Keys : Lost(k)'
  <2> DEFINE s == Head(unseen[j])
             note == [key |-> j, old |-> IF s.lost THEN NoObject ELSE store[j],
                      new |-> s.obj, tombstone |-> s.lost]
  <2>1. unseen[j] # <<>> /\ pending' = Append(pending, note)
    BY <1>7 DEF Observe
  <2>2. s \in [obj : State, lost : BOOLEAN] /\ s = unseen[j][1] /\ 1 \in 1..Len(unseen[j])
    <3> DEFINE R == [obj : State, lost : BOOLEAN]
    <3>1. unseen[j] \in Seq(R) /\ unseen[j] # <<>>
      BY <1>1, <2>1
    <3> HIDE DEF R
    <3>2. /\ Head(unseen[j]) \in R /\ Head(unseen[j]) = unseen[j][1]
          /\ Len(unseen[j]) \in Nat /\ Len(unseen[j]) # 0
      BY <3>1, SequenceEnds
    <3> QED BY <3>2 DEF R
  <2>3. s.lost => s.obj = NoObject
    BY <1>1, <2>2
  <2> HIDE DEF s
  <2>4. note \in Notes /\ note.tombstone = s.lost /\ note.new = s.obj
    BY <2>2 DEF InformerTypeOK, Notes, State
  <2> HIDE DEF note
  <2>5. Told'
    BY <1>2, <2>1, <2>3, <2>4
  <2> QED BY <1>1, <1>7, <2>5, LostShrinks DEF TombstonesDelete
<1>8. ASSUME NEW j \in Keys, Overlook(j) PROVE Told' /\ \A k \in Keys : Lost(k)'
  <2>1. UNCHANGED pending
    BY <1>8 DEF Overlook
  <2> QED BY <1>1, <1>8, <2>1, LostShrinks DEF TombstonesDelete
<1>9. ASSUME NEW j \in Keys, Resync(j) PROVE Told' /\ \A k \in Keys : Lost(k)'
  <2> DEFINE note == [key |-> j, old |-> store[j], new |-> store[j], tombstone |-> FALSE]
  <2>1. pending' = Append(pending, note) /\ UNCHANGED unseen
    BY <1>9 DEF Resync
  <2>2. note \in Notes /\ ~note.tombstone
    BY DEF InformerTypeOK, Notes
  <2> HIDE DEF note
  <2> QED BY <1>1, <1>2, <2>1, <2>2
<1>10. ASSUME NEW j \in Keys, NEW o \in State, ServerWrite(j, o)
       PROVE  Told' /\ \A k \in Keys : Lost(k)'
  <2> DEFINE x == [obj |-> o, lost |-> FALSE]
  <2>1. UNCHANGED pending /\ unseen' = [unseen EXCEPT ![j] = Append(unseen[j], x)]
    BY <1>10 DEF ServerWrite
  <2>2. unseen \in [Keys -> Seq([obj : State, lost : BOOLEAN])] /\ ~x.lost
    BY DEF InformerTypeOK
  <2>3. ASSUME NEW k \in Keys PROVE Lost(k)'
    <3> DEFINE s == unseen[k]
               R == [obj : State, lost : BOOLEAN]
    <3>1. s \in Seq(R) /\ \A n \in 1..Len(s) : s[n].lost => s[n].obj = NoObject
      BY <1>1
    <3>2. unseen'[k] = s \/ unseen'[k] = Append(s, x)
      BY <2>1, <2>2
    <3> HIDE DEF s, R, x
    <3>3. /\ Len(Append(s, x)) = Len(s) + 1 /\ Len(s) \in Nat /\ Append(s, x)[Len(s) + 1] = x
          /\ \A n \in 1..Len(s) : Append(s, x)[n] = s[n]
      BY <3>1
    <3>4. \A n \in 1..Len(Append(s, x)) : n \in 1..Len(s) \/ n = Len(s) + 1
      BY <3>3
    <3>5. \A n \in 1..Len(Append(s, x)) : Append(s, x)[n].lost => Append(s, x)[n].obj = NoObject
      BY <2>2, <3>1, <3>3, <3>4
    <3> QED BY <3>1, <3>2, <3>5
  <2> QED BY <1>1, <2>1, <2>3
<1> QED BY <1>3, <1>4, <1>5, <1>6, <1>7, <1>8, <1>9, <1>10 DEF InformerNext

(* The oldest notification, if it is no tombstone, is of a change from the *)
(* object the handlers were told of last; a deletion is of one they know.  *)
LEMMA NoteTells ==
    ASSUME InformerTypeOK, Chain, NotesMakeSense, TombstonesDelete, pending # <<>>
    PROVE  /\ Note \in Notes
           /\ Note.new # NoObject => ~Note.tombstone
           /\ ~Note.tombstone => Note.old = told[Note.key]
           /\ Note.new = NoObject => told[Note.key] # NoObject
<1>1. pending \in Seq(Notes) /\ Note = pending[1] /\ 1 \in 1..Len(pending)
  BY DEF InformerTypeOK, Note
<1>2. Note.tombstone => Note.new = NoObject
  BY <1>1 DEF TombstonesDelete
<1> QED BY <1>2, NoteFollowsTold, DeletedWasTold DEF InformerInv

-----------------------------------------------------------------------------
(* Everything that is anywhere in the informer about key k.                *)
Held(k) ==
    {NoObject, server[k], store[k], told[k]}
        \cup {unseen[k][n].obj : n \in 1..Len(unseen[k])}
        \cup {pending[n].old : n \in {m \in 1..Len(pending) : pending[m].key = k}}
        \cup {pending[n].new : n \in {m \in 1..Len(pending) : pending[m].key = k}}

InformerStep ==
    \/ Restart \/ Relist \/ Deliver
    \/ \E k \in Keys : Observe(k) \/ Resync(k)
    \/ UNCHANGED informerVars

(* A set that has each part of it has it all, also in the next state.      *)
LEMMA HeldInParts ==
    ASSUME NEW k \in Keys, NEW S,
           NoObject \in S, server'[k] \in S, store'[k] \in S, told'[k] \in S,
           \A n \in 1..Len(unseen'[k]) : unseen'[k][n].obj \in S,
           \A n \in 1..Len(pending') : pending'[n].key = k =>
               pending'[n].old \in S /\ pending'[n].new \in S
    PROVE  Held(k)' \subseteq S
BY DEF Held

(* A notification that is added. *)
LEMMA HeldAppended ==
    ASSUME InformerTypeOK, NEW note \in Notes, pending' = Append(pending, note),
           NEW k \in Keys, NEW n \in 1..Len(pending'), pending'[n].key = k
    PROVE  \/ note.key = k /\ pending'[n] = note
           \/ n \in 1..Len(pending) /\ pending'[n] = pending[n]
<1>1. pending \in Seq(Notes)
  BY DEF InformerTypeOK
<1> QED BY <1>1

(* The informer invents nothing: only a write brings in something new.     *)
LEMMA HeldShrinks ==
    ASSUME InformerTypeOK, InformerStep, NEW k \in Keys
    PROVE  Held(k)' \subseteq Held(k)
<1>1. CASE Restart
  BY <1>1 DEF Restart, Held, Listed, Nothing, Existing
<1>2. CASE Relist
  <2>1. PICK n \in MayHaveReached(k) : unseen'[k] = Relisted(k, n)
    BY <1>2, RelistUnseen
  <2>2. /\ n \in 0..Len(unseen[k]) /\ Len(unseen[k]) \in Nat
        /\ \A i \in 1..n : unseen'[k][i] = unseen[k][i]
        /\ Len(unseen'[k]) = n \/ Len(unseen'[k]) = n + 1
        /\ Len(unseen'[k]) = n + 1 => unseen'[k][n + 1].obj \in {server[k], NoObject}
    BY <2>1, RelistedShape
  <2>3. \A i \in 1..Len(unseen'[k]) : i \in 1..n \/ (i = n + 1 /\ Len(unseen'[k]) = n + 1)
    BY <2>2
  <2>4. \A i \in 1..n : i \in 1..Len(unseen[k])
    BY <2>2
  <2>5. \A i \in 1..Len(unseen'[k]) : unseen'[k][i].obj \in Held(k)
    BY <2>2, <2>3, <2>4 DEF Held
  <2> QED BY <1>2, <2>5 DEF Relist, Held
<1>3. CASE Deliver
  <2>1. /\ pending \in Seq(Notes) /\ pending # <<>> /\ told \in [Keys -> State]
    BY <1>3 DEF Deliver, InformerTypeOK
  <2>2. /\ Len(pending') = Len(pending) - 1 /\ Len(pending) \in Nat /\ Len(pending) # 0
        /\ \A n \in 1..Len(pending') : pending'[n] = pending[n + 1]
        /\ Note = pending[1]
    BY <1>3, <2>1, EmptySeq DEF Deliver, Note
  <2>3. \A n \in 1..Len(pending') : n + 1 \in 1..Len(pending)
    BY <2>2
  <2>4. told'[k] = IF k = pending[1].key THEN pending[1].new ELSE told[k]
    BY <1>3, <2>1, <2>2 DEF Deliver
  <2>5. 1 \in 1..Len(pending)
    BY <2>2
  <2>6. UNCHANGED <<server, unseen, store>>
    BY <1>3 DEF Deliver
  <2> DEFINE S == Held(k)
  <2>7. told'[k] \in S
    BY <2>4, <2>5 DEF Held
  <2>8. \A n \in 1..Len(pending') : pending'[n].key = k =>
            pending'[n].old \in S /\ pending'[n].new \in S
    BY <2>2, <2>3 DEF Held
  <2>9. NoObject \in S /\ server'[k] \in S /\ store'[k] \in S
    BY <2>6 DEF Held
  <2>10. \A n \in 1..Len(unseen'[k]) : unseen'[k][n].obj \in S
    BY <2>6 DEF Held
  <2> HIDE DEF S
  <2>11. Held(k)' \subseteq S
    BY <2>7, <2>8, <2>9, <2>10, HeldInParts
  <2> QED BY <2>11 DEF S
<1>4. ASSUME NEW j \in Keys, Observe(j) PROVE Held(k)' \subseteq Held(k)
  <2> DEFINE state == Head(unseen[j])
             note == [key |-> j, old |-> IF state.lost THEN NoObject ELSE store[j],
                      new |-> state.obj, tombstone |-> state.lost]
  <2>1. /\ unseen[j] \in Seq([obj : State, lost : BOOLEAN]) /\ unseen[j] # <<>>
        /\ store \in [Keys -> State] /\ unseen \in [Keys -> Seq([obj : State, lost : BOOLEAN])]
    BY <1>4 DEF InformerTypeOK, Observe
  <2>2. /\ state \in [obj : State, lost : BOOLEAN] /\ state = unseen[j][1]
        /\ Len(Tail(unseen[j])) = Len(unseen[j]) - 1 /\ Len(unseen[j]) \in Nat /\ Len(unseen[j]) # 0
        /\ \A n \in 1..Len(unseen[j]) - 1 : Tail(unseen[j])[n] = unseen[j][n + 1]
    BY <2>1, SequenceEnds
  <2>3. state.obj \in State /\ state.lost \in BOOLEAN
    BY <2>2
  <2> HIDE DEF state
  <2>4. /\ note \in Notes /\ note.key = j /\ note.old \in {NoObject, store[j]}
        /\ note.new = state.obj
    BY <2>1, <2>3 DEF Notes, State
  <2>5. /\ store' = [store EXCEPT ![j] = state.obj]
        /\ pending' = Append(pending, note)
        /\ unseen' = [unseen EXCEPT ![j] = Tail(unseen[j])]
        /\ UNCHANGED <<server, told>>
    BY <1>4 DEF Observe, state
  <2> HIDE DEF note
  <2>6. state.obj \in Held(j) /\ {NoObject, store[j]} \subseteq Held(j)
    <3>1. 1 \in 1..Len(unseen[j])
      BY <2>2
    <3> QED BY <2>2, <3>1 DEF Held
  <2>7. \A n \in 1..Len(pending') : pending'[n].key = k =>
            pending'[n].old \in Held(k) /\ pending'[n].new \in Held(k)
    <3> SUFFICES ASSUME NEW n \in 1..Len(pending'), pending'[n].key = k
                 PROVE  pending'[n].old \in Held(k) /\ pending'[n].new \in Held(k)
      OBVIOUS
    <3>1. \/ note.key = k /\ pending'[n] = note
          \/ n \in 1..Len(pending) /\ pending'[n] = pending[n]
      BY <2>4, <2>5, HeldAppended
    <3>2. CASE n \in 1..Len(pending) /\ pending'[n] = pending[n]
      BY <3>2 DEF Held
    <3> QED BY <3>1, <3>2, <2>4, <2>6
  <2>8. \A n \in 1..Len(unseen'[k]) : unseen'[k][n].obj \in Held(k)
    <3>1. CASE j = k
      <4>1. unseen'[k] = Tail(unseen[k])
        BY <2>1, <2>5, <3>1
      <4>2. \A n \in 1..Len(unseen[k]) - 1 : n + 1 \in 1..Len(unseen[k])
        BY <2>2, <3>1
      <4> QED BY <2>2, <3>1, <4>1, <4>2 DEF Held
    <3>2. CASE j # k
      BY <2>1, <2>5, <3>2 DEF Held
    <3> QED BY <3>1, <3>2
  <2>9. store'[k] \in Held(k)
    BY <2>1, <2>5, <2>6 DEF Held
  <2>10. NoObject \in Held(k) /\ server'[k] \in Held(k) /\ told'[k] \in Held(k)
    BY <2>5 DEF Held
  <2> QED BY <2>7, <2>8, <2>9, <2>10, HeldInParts
<1>5. ASSUME NEW j \in Keys, Resync(j) PROVE Held(k)' \subseteq Held(k)
  <2> DEFINE note == [key |-> j, old |-> store[j], new |-> store[j], tombstone |-> FALSE]
  <2>1. store \in [Keys -> State] /\ store[j] \in State
    BY DEF InformerTypeOK
  <2>2. note \in Notes /\ note.key = j /\ note.old = store[j] /\ note.new = store[j]
    BY <2>1 DEF Notes
  <2>3. pending' = Append(pending, note) /\ UNCHANGED <<server, unseen, store, told>>
    BY <1>5 DEF Resync
  <2> HIDE DEF note
  <2>4. \A n \in 1..Len(pending') : pending'[n].key = k =>
            pending'[n].old \in Held(k) /\ pending'[n].new \in Held(k)
    <3> SUFFICES ASSUME NEW n \in 1..Len(pending'), pending'[n].key = k
                 PROVE  pending'[n].old \in Held(k) /\ pending'[n].new \in Held(k)
      OBVIOUS
    <3>1. \/ note.key = k /\ pending'[n] = note
          \/ n \in 1..Len(pending) /\ pending'[n] = pending[n]
      BY <2>2, <2>3, HeldAppended
    <3> QED BY <3>1, <2>2 DEF Held
  <2>5. /\ NoObject \in Held(k) /\ server'[k] \in Held(k)
        /\ store'[k] \in Held(k) /\ told'[k] \in Held(k)
        /\ \A n \in 1..Len(unseen'[k]) : unseen'[k][n].obj \in Held(k)
    BY <2>3 DEF Held
  <2> QED BY <2>4, <2>5, HeldInParts
<1>6. CASE UNCHANGED informerVars
  BY <1>6 DEF informerVars, Held
<1> QED BY <1>1, <1>2, <1>3, <1>4, <1>5, <1>6 DEF InformerStep

LEMMA HeldWrite ==
    ASSUME InformerTypeOK, NEW j \in Keys, NEW o, ServerWrite(j, o), NEW k \in Keys
    PROVE  Held(k)' \subseteq IF j = k THEN Held(k) \cup {o} ELSE Held(k)
<1>1. /\ unseen \in [Keys -> Seq([obj : State, lost : BOOLEAN])]
      /\ server \in [Keys -> State]
  BY DEF InformerTypeOK
<1>2. UNCHANGED <<store, pending, told>>
  BY DEF ServerWrite
<1>3. CASE j # k
  BY <1>1, <1>2, <1>3 DEF ServerWrite, Held
<1>4. CASE j = k
  <2>1. /\ server'[k] = o
        /\ unseen'[k] = Append(unseen[k], [obj |-> o, lost |-> FALSE])
    BY <1>1, <1>4 DEF ServerWrite
  <2>2. \A n \in 1..Len(unseen'[k]) : unseen'[k][n].obj \in Held(k) \cup {o}
    <3>1. Len(unseen[k]) \in Nat /\ Len(unseen'[k]) = Len(unseen[k]) + 1
      BY <1>1, <2>1
    <3>2. \A n \in 1..Len(unseen'[k]) :
              unseen'[k][n] = IF n = Len(unseen[k]) + 1 THEN [obj |-> o, lost |-> FALSE]
                              ELSE unseen[k][n]
      BY <1>1, <2>1, <3>1
    <3> QED BY <3>1, <3>2 DEF Held
  <2> QED BY <1>2, <1>4, <2>1, <2>2 DEF Held
<1> QED BY <1>3, <1>4
=============================================================================

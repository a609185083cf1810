------------------------- MODULE ToolInformerLemmas -------------------------
(***************************************************************************)
(* Lemmas about the operators of ToolInformer: what a wire says of one     *)
(* key, how deltas and events become the states of Informer, and what the  *)
(* methods of the FIFO do to queue and deltas.                             *)
(***************************************************************************)
EXTENDS ToolInformer, SequenceTheorems, FiniteSetTheorems, NaturalsInduction, WellFoundedInduction,
        TLAPS

(* Induction over numbers, with a set in the place of a property. *)
LEMMA SetInduction ==
    ASSUME NEW S, 0 \in S, \A n \in Nat : n \in S => n + 1 \in S
    PROVE  Nat \subseteq S
<1> DEFINE T == Nat \ S
<1>1. SUFFICES ASSUME T # {} PROVE FALSE
  OBVIOUS
<1>2. PICK x \in T : \A y \in T : ~ (<<y, x>> \in OpToRel(<,Nat))
  <2> HIDE DEF T
  <2>1. T \subseteq Nat
    BY DEF T
  <2> QED BY <1>1, <2>1, WFMin, NatLessThanWellFounded
<1>3. x \in Nat /\ x # 0 /\ x - 1 \in Nat
  OBVIOUS
<1>4. x - 1 \in T
  <2>1. x - 1 \in S => x - 1 + 1 \in S
    BY <1>3
  <2> QED BY <1>3, <2>1
<1>5. <<x - 1, x>> \in OpToRel(<,Nat)
  BY <1>3 DEF OpToRel
<1> QED BY <1>2, <1>4, <1>5

(* The function by which EventsOf goes through the first N events. *)
Next1(f, wire, k, n) == IF wire[n + 1].key = k THEN Append(f[n], wire[n + 1]) ELSE f[n]

Among(f, wire, k, N) ==
    f = [n \in 0..N |->
            IF n = 0 THEN <<>>
            ELSE IF wire[n].key = k THEN Append(f[n - 1], wire[n]) ELSE f[n - 1]]

(* One more event of the wire is among those of k, or is skipped.          *)
LEMMA AmongSteps ==
    ASSUME NEW f, NEW wire, NEW k, NEW N \in Nat, Among(f, wire, k, N)
    PROVE  f[0] = <<>> /\ \A n \in Nat : n + 1 <= N => f[n + 1] = Next1(f, wire, k, n)
<1>1. f[0] = <<>>
  BY DEF Among
<1>2. ASSUME NEW n \in Nat, n + 1 <= N PROVE f[n + 1] = Next1(f, wire, k, n)
  <2>1. n + 1 \in 0..N /\ n + 1 # 0 /\ (n + 1) - 1 = n
    BY <1>2
  <2> DEFINE m == n + 1
  <2>2. f[m] = IF wire[m].key = k THEN Append(f[m - 1], wire[m]) ELSE f[m - 1]
    <3> HIDE DEF m
    <3>1. m \in 0..N /\ m # 0
      BY <2>1 DEF m
    <3> QED BY <3>1 DEF Among
  <2> QED BY <2>1, <2>2 DEF Next1
<1> QED BY <1>1, <1>2

(* Wires that start alike say the same at first. *)
LEMMA AmongAgree ==
    ASSUME NEW v, NEW w, NEW k, NEW M \in Nat, NEW N \in Nat, NEW f, NEW g,
           Among(f, v, k, M), Among(g, w, k, N), M <= N, \A n \in 1..M : v[n] = w[n]
    PROVE  \A n \in 0..M : f[n] = g[n]
<1> DEFINE S == {n \in Nat : n <= M => f[n] = g[n]}
<1>1. 0 \in S
  BY AmongSteps
<1>2. ASSUME NEW n \in Nat, n \in S PROVE n + 1 \in S
  <2> SUFFICES ASSUME n + 1 <= M PROVE f[n + 1] = g[n + 1]
    OBVIOUS
  <2>1. f[n] = g[n] /\ v[n + 1] = w[n + 1] /\ n + 1 <= N
    BY <1>2
  <2>2. f[n + 1] = Next1(f, v, k, n) /\ g[n + 1] = Next1(g, w, k, n)
    BY <2>1, AmongSteps
  <2> QED BY <2>1, <2>2 DEF Next1
<1> HIDE DEF S
<1>3. Nat \subseteq S
  BY <1>1, <1>2, SetInduction
<1> QED BY <1>3 DEF S

(* There is such a function for every wire: the induction is over its      *)
(* length.                                                                 *)
LEMMA AmongExists ==
    ASSUME NEW wire, NEW k PROVE \A N \in Nat : \E f : Among(f, wire, k, N)
<1> DEFINE S == {N \in Nat : \E f : Among(f, wire, k, N)}
<1>1. 0 \in S
  <2>1. Among([n \in 0..0 |-> <<>>], wire, k, 0)
    BY DEF Among
  <2> QED BY <2>1
<1>2. ASSUME NEW N \in Nat, N \in S PROVE N + 1 \in S
  <2>1. PICK f : Among(f, wire, k, N)
    BY <1>2
  <2> DEFINE g == [n \in 0..(N + 1) |->
                     IF n <= N THEN f[n]
                     ELSE IF wire[n].key = k THEN Append(f[N], wire[n]) ELSE f[N]]
  <2>2. ASSUME NEW n \in 0..(N + 1)
        PROVE g[n] = IF n = 0 THEN <<>>
                     ELSE IF wire[n].key = k THEN Append(g[n - 1], wire[n]) ELSE g[n - 1]
    <3>1. CASE n = 0
      BY <2>1, <3>1, AmongSteps
    <3>2. CASE n \in 1..N
      <4> DEFINE m == n - 1
      <4>1. m \in Nat /\ m + 1 <= N /\ n = m + 1
        BY <3>2
      <4>2. f[m + 1] = Next1(f, wire, k, m)
        BY <2>1, <4>1, AmongSteps
      <4>3. g[n] = f[n] /\ g[m] = f[m]
        BY <3>2
      <4> QED BY <3>2, <4>1, <4>2, <4>3 DEF Next1
    <3>3. CASE n = N + 1
      <4>1. n # 0 /\ ~(n <= N) /\ n - 1 = N /\ g[N] = f[N]
        BY <3>3
      <4>2. g[n] = IF wire[n].key = k THEN Append(f[N], wire[n]) ELSE f[N]
        BY <4>1
      <4> QED BY <4>1, <4>2
    <3> QED BY <3>1, <3>2, <3>3
  <2>3. Among(g, wire, k, N + 1)
    BY <2>2 DEF Among
  <2> QED BY <2>3
<1> HIDE DEF S
<1>3. Nat \subseteq S
  BY <1>1, <1>2, SetInduction
<1> QED BY <1>3 DEF S

(* EventsOf, as that function's last value.                                *)
LEMMA EventsOfIs ==
    ASSUME NEW wire, Len(wire) \in Nat, NEW k, NEW f, Among(f, wire, k, Len(wire))
    PROVE  EventsOf(wire, k) = f[Len(wire)]
<1> DEFINE g == CHOOSE g : Among(g, wire, k, Len(wire))
<1>1. EventsOf(wire, k) = g[Len(wire)]
  BY DEF EventsOf, Among
<1>2. Among(g, wire, k, Len(wire))
  BY AmongExists
<1> HIDE DEF g
<1>3. Len(wire) \in 0..Len(wire) /\ Len(wire) <= Len(wire)
  OBVIOUS
<1> QED BY <1>1, <1>2, <1>3, AmongAgree

(* A wire without events says nothing. *)
LEMMA NothingOf == ASSUME NEW k PROVE EventsOf(<<>>, k) = <<>>
<1>1. PICK f : Among(f, <<>>, k, 0)
  BY AmongExists
<1>2. Len(<<>>) = 0
  OBVIOUS
<1> QED BY <1>1, <1>2, EventsOfIs, AmongSteps

(* Another event at the end. *)
LEMMA EventsOfAppended ==
    ASSUME NEW E, NEW wire \in Seq(E), NEW e \in E, NEW k
    PROVE  EventsOf(Append(wire, e), k) =
               IF e.key = k THEN Append(EventsOf(wire, k), e) ELSE EventsOf(wire, k)
<1> DEFINE longer == Append(wire, e)
           N == Len(wire)
<1>1. N \in Nat /\ Len(longer) = N + 1 /\ longer[N + 1] = e /\ \A n \in 1..N : wire[n] = longer[n]
  OBVIOUS
<1> HIDE DEF longer, N
<1>2. PICK f : Among(f, wire, k, N)
  BY <1>1, AmongExists
<1>3. PICK g : Among(g, longer, k, N + 1)
  BY <1>1, AmongExists
<1>4. f[N] = g[N]
  BY <1>1, <1>2, <1>3, AmongAgree
<1>5. g[N + 1] = Next1(g, longer, k, N)
  BY <1>1, <1>3, AmongSteps
<1>6. EventsOf(wire, k) = f[N]
  BY <1>1, <1>2, EventsOfIs DEF N
<1>7. EventsOf(longer, k) = g[N + 1]
  BY <1>1, <1>3, EventsOfIs
<1> QED BY <1>1, <1>4, <1>5, <1>6, <1>7 DEF Next1, longer

(* What a wire says of a key is a sequence of events of the wire. *)
LEMMA EventsOfType ==
    ASSUME NEW E, NEW wire \in Seq(E), NEW k
    PROVE  EventsOf(wire, k) \in Seq(E)
<1> DEFINE N == Len(wire)
<1>1. N \in Nat /\ \A n \in 1..N : wire[n] \in E
  OBVIOUS
<1>2. PICK f : Among(f, wire, k, N)
  BY <1>1, AmongExists
<1> DEFINE S == {n \in Nat : n <= N => f[n] \in Seq(E)}
<1>3. 0 \in S
  <2>1. f[0] = <<>> /\ <<>> \in Seq(E)
    BY <1>1, <1>2, AmongSteps
  <2>2. f[0] \in Seq(E)
    BY <2>1
  <2> QED BY <2>2
<1>4. ASSUME NEW n \in Nat, n \in S PROVE n + 1 \in S
  <2> SUFFICES ASSUME n + 1 <= N PROVE f[n + 1] \in Seq(E)
    OBVIOUS
  <2>1. f[n] \in Seq(E) /\ wire[n + 1] \in E
    BY <1>1, <1>4
  <2>2. f[n + 1] = Next1(f, wire, k, n)
    BY <1>1, <1>2, AmongSteps
  <2> QED BY <2>1, <2>2 DEF Next1
<1> HIDE DEF S
<1>5. Nat \subseteq S
  BY <1>3, <1>4, SetInduction
<1>6. f[N] \in Seq(E)
  BY <1>1, <1>5 DEF S
<1> QED BY <1>1, <1>2, <1>6, EventsOfIs

(* The first event of a wire is the first of its key, and none of another. *)
LEMMA EventsOfShortened ==
    ASSUME NEW E, NEW wire \in Seq(E), wire # <<>>, NEW k
    PROVE  IF Head(wire).key = k
           THEN EventsOf(wire, k) = <<Head(wire)>> \o EventsOf(Tail(wire), k)
           ELSE EventsOf(wire, k) = EventsOf(Tail(wire), k)
<1> DEFINE rest == Tail(wire)
           N == Len(rest)
           first == IF wire[1].key = k THEN <<wire[1]>> ELSE <<>>
<1>1. /\ N \in Nat /\ Len(wire) = N + 1 /\ rest \in Seq(E) /\ Head(wire) = wire[1]
      /\ \A n \in 1..N : rest[n] = wire[n + 1]
  OBVIOUS
<1> HIDE DEF rest
<1>2. PICK f : Among(f, wire, k, N + 1)
  BY <1>1, AmongExists
<1>3. PICK g : Among(g, rest, k, N)
  BY <1>1, AmongExists
<1> DEFINE Fits(n) == g[n] \in Seq(E) /\ f[n + 1] = first \o g[n]
           S == {n \in Nat : n <= N => Fits(n)}
<1>4. first \in Seq(E)
  BY <1>1
<1>5. 0 \in S
  <2>1. g[0] = <<>> /\ f[0] = <<>> /\ f[0 + 1] = Next1(f, wire, k, 0)
    <3>1. 0 + 1 <= N + 1 /\ N + 1 \in Nat
      BY <1>1
    <3> QED BY <1>1, <1>2, <1>3, <3>1, AmongSteps
  <2>2. f[1] = first
    BY <2>1 DEF Next1
  <2>3. first \o <<>> = first /\ <<>> \in Seq(E)
    BY <1>4
  <2>4. Fits(0)
    <3> HIDE DEF first
    <3> QED BY <2>1, <2>2, <2>3
  <2> HIDE DEF Fits
  <2> QED BY <2>4
<1>6. ASSUME NEW n \in Nat, n \in S PROVE n + 1 \in S
  <2> SUFFICES ASSUME n + 1 <= N PROVE Fits(n + 1)
    <3> HIDE DEF Fits
    <3> QED OBVIOUS
  <2>1. g[n] \in Seq(E) /\ f[n + 1] = first \o g[n]
    <3>1. Fits(n)
      <4> HIDE DEF Fits
      <4> QED BY <1>1, <1>6
    <3> QED BY <3>1
  <2>2. g[n + 1] = Next1(g, rest, k, n)
    BY <1>1, <1>3, AmongSteps
  <2>3. f[(n + 1) + 1] = Next1(f, wire, k, n + 1)
    <3>1. (n + 1) + 1 <= N + 1 /\ n + 1 \in Nat /\ N + 1 \in Nat
      BY <1>1
    <3> QED BY <1>2, <3>1, AmongSteps
  <2>4. rest[n + 1] = wire[(n + 1) + 1] /\ rest[n + 1] \in E
    BY <1>1
  <2>5. Append(first \o g[n], rest[n + 1]) = first \o Append(g[n], rest[n + 1])
    <3> DEFINE h == g[n]
               e == rest[n + 1]
    <3>1. first \in Seq(E) /\ h \in Seq(E) /\ e \in E
      BY <1>4, <2>1, <2>4
    <3> HIDE DEF first, h, e
    <3>2. Append(first \o h, e) = first \o Append(h, e)
      BY ONLY <3>1
    <3> QED BY <3>2 DEF h, e
  <2>6. Append(g[n], rest[n + 1]) \in Seq(E)
    BY <2>1, <2>4
  <2> QED BY <2>1, <2>2, <2>3, <2>4, <2>5, <2>6 DEF Next1
<1> HIDE DEF S
<1>7. Nat \subseteq S
  BY <1>5, <1>6, SetInduction
<1>8. f[N + 1] = first \o g[N] /\ g[N] \in Seq(E)
  <2>1. Fits(N)
    <3> HIDE DEF Fits
    <3> QED BY <1>1, <1>7 DEF S
  <2> QED BY <2>1
<1>9. EventsOf(wire, k) = f[N + 1]
  BY <1>1, <1>2, EventsOfIs
<1>10. EventsOf(rest, k) = g[N]
  BY <1>1, <1>3, EventsOfIs
<1>11. <<>> \o g[N] = g[N]
  BY <1>8
<1> QED BY <1>1, <1>8, <1>9, <1>10, <1>11 DEF rest

-----------------------------------------------------------------------------
(* Deltas of objects in the cells L, and the states they stand for.        *)
DeltaTypes == {"Added", "Updated", "Deleted", "Replaced", "Sync"}

(* Deltas whose objects are in L, and what else the wires and the memory   *)
(* hold.                                                                   *)
DeltasIn(L) == [type : DeltaTypes, obj : L, unknown : BOOLEAN]

Cells == 1..MaxRevision

Memories == [1..CopyCell -> Tools \cup {NoTool}]

StateSet == [obj : Tools \cup {NoTool}, lost : BOOLEAN]

EventSet == [type : {"ADDED", "MODIFIED", "DELETED"}, key : Keys, tool : Tools]

LEMMA CellsArePlaces == Cells \subseteq 1..CopyCell /\ CopyCell \notin Cells /\ Nil \notin 1..CopyCell
BY ToolInformerAssumption DEF Cells, CopyCell, Nil, F!Nil

(* Where a pointer leads, and what deltas and events stand for, are        *)
(* states.                                                                 *)
LEMMA AtType ==
    ASSUME NEW h \in Memories, NEW p \in Cells \cup {Nil}
    PROVE  At(h, p) \in Tools \cup {NoTool}
BY CellsArePlaces DEF At, Memories

LEMMA DeltaStateType ==
    ASSUME NEW h \in Memories, NEW d \in DeltasIn(Cells)
    PROVE  DeltaState(h, d) \in StateSet
<1>1. d.obj \in Cells /\ d.unknown \in BOOLEAN
  BY DEF DeltasIn
<1>2. At(h, d.obj) \in Tools \cup {NoTool}
  BY <1>1, AtType
<1> QED BY <1>1, <1>2 DEF DeltaState, StateSet

LEMMA DeltaStatesType ==
    ASSUME NEW h \in Memories, NEW s \in Seq(DeltasIn(Cells))
    PROVE  /\ DeltaStates(h, s) \in Seq(StateSet) /\ Len(DeltaStates(h, s)) = Len(s)
           /\ \A n \in 1..Len(s) : DeltaStates(h, s)[n] = DeltaState(h, s[n])
<1>1. DOMAIN s = 1..Len(s) /\ Len(s) \in Nat /\ \A n \in 1..Len(s) : s[n] \in DeltasIn(Cells)
  BY LenProperties, ElementOfSeq
<1>2. \A n \in 1..Len(s) : DeltaState(h, s[n]) \in StateSet
  BY <1>1, DeltaStateType
<1> QED BY <1>1, <1>2 DEF DeltaStates

LEMMA EventStateType == \A e \in EventSet : EventState(e) \in StateSet
BY DEF EventState, EventSet, StateSet

LEMMA EventStatesType ==
    ASSUME NEW s \in Seq(EventSet)
    PROVE  /\ EventStates(s) \in Seq(StateSet) /\ Len(EventStates(s)) = Len(s)
           /\ \A n \in 1..Len(s) : EventStates(s)[n] = EventState(s[n])
<1>1. DOMAIN s = 1..Len(s) /\ Len(s) \in Nat /\ \A n \in 1..Len(s) : s[n] \in EventSet
  BY LenProperties, ElementOfSeq
<1>2. \A n \in 1..Len(s) : EventState(s[n]) \in StateSet
  BY <1>1, EventStateType
<1> QED BY <1>1, <1>2 DEF EventStates

(* What a memory holds in other cells does not matter. *)
LEMMA DeltaStatesSame ==
    ASSUME NEW g, NEW h, NEW L, NEW s \in Seq(DeltasIn(L)), \A p \in L : g[p] = h[p]
    PROVE  DeltaStates(g, s) = DeltaStates(h, s)
<1>1. DOMAIN s = 1..Len(s) /\ \A n \in 1..Len(s) : s[n] \in DeltasIn(L)
  BY LenProperties, ElementOfSeq
<1>2. \A n \in DOMAIN s : DeltaState(g, s[n]) = DeltaState(h, s[n])
  BY <1>1 DEF DeltaState, At, DeltasIn
<1> QED BY <1>2 DEF DeltaStates

-----------------------------------------------------------------------------
(* What is new in deltas. *)
LEMMA NewsType ==
    ASSUME NEW L, NEW s \in Seq(DeltasIn(L)) PROVE News(s) \in Seq(DeltasIn(L))
BY HeadTailProperties DEF News

(* What a delta at the end, and the oldest delta's leaving, do to the      *)
(* news.                                                                   *)
LEMMA NewsAppended ==
    ASSUME NEW L, NEW s \in Seq(DeltasIn(L)), NEW d \in DeltasIn(L), d.type # "Sync"
    PROVE  News(Append(s, d)) = Append(News(s), d)
<1>1. CASE s = <<>>
  BY <1>1 DEF News
<1>2. CASE s # <<>>
  <2>1. Append(s, d) # <<>> /\ Append(s, d)[1] = s[1] /\ Tail(Append(s, d)) = Append(Tail(s), d)
    BY <1>2
  <2> QED BY <1>2, <2>1 DEF News
<1> QED BY <1>1, <1>2

LEMMA NewsTail ==
    ASSUME NEW L, NEW s \in Seq(DeltasIn(L)), s # <<>>, \A n \in 1..Len(s) : s[n].type = "Sync" => n = 1
    PROVE  /\ Head(s) = s[1]
           /\ News(s) = IF s[1].type = "Sync" THEN Tail(s) ELSE s
           /\ News(Tail(s)) = Tail(s)
<1>1. Head(s) = s[1] /\ News(s) = IF s[1].type = "Sync" THEN Tail(s) ELSE s
  BY DEF News
<1>2. ASSUME Tail(s) # <<>> PROVE Tail(s)[1].type # "Sync"
  <2>1. Len(s) \in Nat /\ 2 \in 1..Len(s) /\ Tail(s)[1] = s[2]
    BY <1>2, HeadTailProperties, EmptySeq
  <2> QED BY <2>1
<1>3. News(Tail(s)) = Tail(s)
  BY <1>2 DEF News
<1> QED BY <1>1, <1>3

(* Deltas are merged only if two deletions follow each other. *)
LEMMA NotMerged ==
    ASSUME NEW L, NEW s \in Seq(DeltasIn(L)), NEW d \in DeltasIn(L),
           s # <<>> /\ d.type = "Deleted" => s[Len(s)].type # "Deleted"
    PROVE  F!DedupDeltas(Append(s, d)) = Append(s, d)
<1>1. Len(s) \in Nat /\ Len(Append(s, d)) = Len(s) + 1 /\ Append(s, d)[Len(s) + 1] = d
  OBVIOUS
<1>2. ASSUME Len(s) + 1 >= 2 PROVE s # <<>> /\ Append(s, d)[(Len(s) + 1) - 1] = s[Len(s)]
  BY <1>1, <1>2
<1> QED BY <1>1, <1>2 DEF F!DedupDeltas

-----------------------------------------------------------------------------
(* A FIFO whose objects are in L; it is one of more objects too.           *)
FifoIn(L) ==
    [queue : Seq(Keys), items : [Keys -> Seq(DeltasIn(L))], initialPopulationCount : Nat]

LEMMA MoreDeltas ==
    ASSUME NEW L, NEW M, L \subseteq M
    PROVE  Seq(DeltasIn(L)) \subseteq Seq(DeltasIn(M))
<1>1. DeltasIn(L) \subseteq DeltasIn(M)
  BY DEF DeltasIn
<1> QED BY <1>1

LEMMA MoreFifo ==
    ASSUME NEW L, NEW M, L \subseteq M PROVE FifoIn(L) \subseteq FifoIn(M)
<1>1. Seq(DeltasIn(L)) \subseteq Seq(DeltasIn(M))
  BY MoreDeltas
<1> QED BY <1>1 DEF FifoIn

(* order puts each of the keys S in line once. *)
InOrder(order, S) ==
    /\ order \in Seq(Keys)
    /\ \A n \in 1..Len(order) : order[n] \in S
    /\ \A k \in S : \E n \in 1..Len(order) : order[n] = k
    /\ \A m, n \in 1..Len(order) : order[m] = order[n] => m = n

(* An order of finitely many keys puts each of them in line once.          *)
LEMMA FiniteKeys == IsFiniteSet(Keys)
BY FS_Product, ToolInformerAssumption DEF Keys

LEMMA OrdersAre ==
    ASSUME NEW S, S \subseteq Keys, NEW order \in Orders(S)
    PROVE  InOrder(order, S) /\ Len(order) = Cardinality(S)
<1> DEFINE N == Cardinality(S)
<1>1. IsFiniteSet(S) /\ N \in Nat
  BY FiniteKeys, FS_Subset, FS_CardinalityType
<1>2. order \in [1..N -> S] /\ \A m, n \in 1..N : m # n => order[m] # order[n]
  BY DEF Orders, SetToSeqs
<1>3. order \in Injection(1..N, S)
  BY <1>2 DEF Injection, IsInjective
<1>4. Cardinality(1..N) = N
  BY <1>1, FS_Interval
<1>5. order \in Surjection(1..N, S)
  BY <1>1, <1>3, <1>4, FS_Injection
<1> HIDE DEF N
<1>6. \A k \in S : \E n \in 1..N : order[n] = k
  BY <1>5 DEF Surjection
<1>7. order \in Seq(Keys) /\ Len(order) = N
  BY <1>1, <1>2
<1> QED BY <1>2, <1>6, <1>7 DEF InOrder, N

(* Merging two deletions changes no type.                                  *)
LEMMA DedupType ==
    ASSUME NEW D, NEW s \in Seq(D), s # <<>>
    PROVE  F!DedupDeltas(s) \in Seq(D) /\ F!DedupDeltas(s) # <<>>
<1> DEFINE n == Len(s)
<1>1. n \in Nat /\ n # 0 /\ \A i \in 1..n : s[i] \in D
  BY EmptySeq
<1>2. CASE n < 2
  BY <1>2 DEF F!DedupDeltas
<1>3. CASE n >= 2
  <2>1. SubSeq(s, 1, n - 1) \in Seq(D) /\ Len(SubSeq(s, 1, n - 1)) = n - 1
    BY <1>1, <1>3, SubSeqProperties
  <2>2. SubSeq(s, 1, n - 2) \in Seq(D)
    BY <1>1, <1>3, SubSeqProperties
  <2>3. s[n] \in D
    BY <1>1
  <2> DEFINE p == SubSeq(s, 1, n - 1)
             q == SubSeq(s, 1, n - 2)
             e == s[n]
  <2> HIDE DEF p, q, n, e
  <2>4. p # <<>>
    BY <1>1, <1>3, <2>1 DEF p
  <2>5. q \in Seq(D) /\ e \in D
    BY <2>2, <2>3 DEF q, e
  <2>6. Append(q, e) \in Seq(D) /\ Append(q, e) # <<>>
    BY ONLY <2>5
  <2> QED BY <1>1, <1>3, <2>1, <2>4, <2>6 DEF F!DedupDeltas, n, p, q, e
<1> QED BY <1>1, <1>2, <1>3

(* What queueActionLocked does to the parts of a FIFO. *)
LEMMA QueueActionsIs ==
    ASSUME NEW L, NEW f \in FifoIn(L), NEW delta, DOMAIN delta \subseteq Keys,
           \A k \in DOMAIN delta : delta[k] \in DeltasIn(L),
           NEW order \in Seq(Keys)
    PROVE  LET g == F!QueueActions(f, delta, order)
           IN  /\ g \in FifoIn(L)
               /\ g.queue = f.queue \o order
               /\ g.initialPopulationCount = f.initialPopulationCount
               /\ \A k \in DOMAIN delta : g.items[k] = F!DedupDeltas(Append(f.items[k], delta[k]))
               /\ \A k \in DOMAIN delta : g.items[k] # <<>>
               /\ \A k \in Keys \ DOMAIN delta : g.items[k] = f.items[k]
<1> DEFINE items == [k \in Keys |-> IF k \in DOMAIN delta
                          THEN F!DedupDeltas(Append(f.items[k], delta[k])) ELSE f.items[k]]
           g == F!QueueActions(f, delta, order)
<1>1. /\ f.queue \in Seq(Keys) /\ f.items \in [Keys -> Seq(DeltasIn(L))]
      /\ f.initialPopulationCount \in Nat
      /\ f = [queue |-> f.queue, items |-> f.items, initialPopulationCount |-> f.initialPopulationCount]
  BY DEF FifoIn
<1>2. \A k \in DOMAIN delta :
        /\ F!DedupDeltas(Append(f.items[k], delta[k])) \in Seq(DeltasIn(L))
        /\ F!DedupDeltas(Append(f.items[k], delta[k])) # <<>>
  <2> TAKE k \in DOMAIN delta
  <2> DEFINE s == f.items[k]
             d == delta[k]
             D == DeltasIn(L)
  <2>1. s \in Seq(D) /\ d \in D
    BY <1>1
  <2> HIDE DEF s, d, D
  <2>2. Append(s, d) \in Seq(D) /\ Append(s, d) # <<>>
    BY ONLY <2>1
  <2>3. F!DedupDeltas(Append(s, d)) \in Seq(D) /\ F!DedupDeltas(Append(s, d)) # <<>>
    BY <2>2, DedupType
  <2> QED BY <2>3 DEF s, d, D
<1>3. items \in [Keys -> Seq(DeltasIn(L))]
  BY <1>1, <1>2
<1>4. g = [f EXCEPT !.queue = f.queue \o order, !.items = items]
  BY DEF F!QueueActions
<1>5. \A k \in DOMAIN delta : items[k] = F!DedupDeltas(Append(f.items[k], delta[k]))
  OBVIOUS
<1>6. \A k \in Keys \ DOMAIN delta : items[k] = f.items[k]
  OBVIOUS
<1> HIDE DEF items, g
<1>7. f.queue \o order \in Seq(Keys)
  BY <1>1
<1> DEFINE line == f.queue \o order
<1>8. /\ g.queue = line /\ g.items = items /\ g.initialPopulationCount = f.initialPopulationCount
      /\ g = [queue |-> line, items |-> items, initialPopulationCount |-> f.initialPopulationCount]
  <2> HIDE DEF line
  <2>1. g = [f EXCEPT !.queue = line, !.items = items]
    BY <1>4 DEF line
  <2> QED BY <1>1, <2>1
<1>9. g \in FifoIn(L)
  BY <1>1, <1>3, <1>7, <1>8 DEF FifoIn
<1> QED BY <1>2, <1>5, <1>6, <1>8, <1>9 DEF g

(* Queueing a set of keys leaves each queued key with deltas, and each     *)
(* delta queued.                                                           *)
LEMMA FifoConsistentQueued ==
    ASSUME NEW L, NEW f \in FifoIn(L), F!FifoConsistent(f),
           NEW delta, DOMAIN delta \subseteq Keys,
           \A k \in DOMAIN delta : delta[k] \in DeltasIn(L),
           NEW order, InOrder(order, F!ToQueue(f, DOMAIN delta))
    PROVE  F!FifoConsistent(F!QueueActions(f, delta, order))
<1> DEFINE g == F!QueueActions(f, delta, order)
           M == Len(f.queue)
           N == Len(order)
<1>1. order \in Seq(Keys) /\ f.queue \in Seq(Keys)
  BY DEF InOrder, FifoIn
<1>2. /\ g.queue = f.queue \o order
      /\ \A k \in DOMAIN delta : g.items[k] # <<>>
      /\ \A k \in Keys \ DOMAIN delta : g.items[k] = f.items[k]
  BY <1>1, QueueActionsIs
<1>3. /\ M \in Nat /\ N \in Nat /\ DOMAIN f.queue = 1..M
      /\ DOMAIN g.queue = 1..M + N
      /\ \A n \in 1..M : g.queue[n] = f.queue[n] /\ f.queue[n] \in Keys
      /\ \A n \in 1..N : g.queue[M + n] = order[n] /\ order[n] \in Keys
  BY <1>1, <1>2
<1>4. /\ \A k \in Keys : f.items[k] # <<>> <=> \E n \in 1..M : f.queue[n] = k
      /\ \A m, n \in 1..M : f.queue[m] = f.queue[n] => m = n
  BY <1>3 DEF F!FifoConsistent
<1>5. /\ \A n \in 1..N : order[n] \in DOMAIN delta /\ f.items[order[n]] = <<>>
      /\ \A k \in DOMAIN delta : f.items[k] = <<>> => \E n \in 1..N : order[n] = k
      /\ \A m, n \in 1..N : order[m] = order[n] => m = n
  BY DEF InOrder, F!ToQueue
<1> HIDE DEF g, M, N
<1>6. ASSUME NEW n \in 1..M + N
      PROVE  \/ n \in 1..M /\ g.queue[n] = f.queue[n]
             \/ \E i \in 1..N : n = M + i /\ g.queue[n] = order[i]
  <2>1. CASE n <= M
    BY <1>3, <2>1
  <2>2. CASE n > M
    <3>1. n - M \in 1..N /\ n = M + (n - M)
      BY <1>3, <2>2
    <3> QED BY <1>3, <3>1
  <2> QED BY <1>3, <2>1, <2>2
<1>7. ASSUME NEW k \in Keys, g.items[k] # <<>> PROVE \E n \in 1..M + N : g.queue[n] = k
  <2>1. CASE f.items[k] # <<>>
    <3>1. PICK n \in 1..M : f.queue[n] = k
      BY <1>4, <2>1
    <3>2. n \in 1..M + N
      BY <1>3
    <3> QED BY <1>3, <3>1, <3>2
  <2>2. CASE f.items[k] = <<>>
    <3>1. k \in DOMAIN delta
      BY <1>2, <1>7, <2>2
    <3>2. PICK n \in 1..N : order[n] = k
      BY <1>5, <2>2, <3>1
    <3>3. M + n \in 1..M + N
      BY <1>3
    <3> QED BY <1>3, <3>2, <3>3
  <2> QED BY <2>1, <2>2
<1>8. ASSUME NEW k \in Keys, NEW n \in 1..M + N, g.queue[n] = k PROVE g.items[k] # <<>>
  <2>1. CASE n \in 1..M /\ g.queue[n] = f.queue[n]
    BY <1>2, <1>4, <1>8, <2>1
  <2>2. CASE \E i \in 1..N : n = M + i /\ g.queue[n] = order[i]
    BY <1>2, <1>5, <1>8, <2>2
  <2> QED BY <1>6, <2>1, <2>2
<1>9. ASSUME NEW m \in 1..M + N, NEW n \in 1..M + N, g.queue[m] = g.queue[n] PROVE m = n
  <2>1. \A i \in 1..M, j \in 1..N : f.queue[i] # order[j]
    BY <1>3, <1>4, <1>5
  <2>2. CASE m \in 1..M /\ g.queue[m] = f.queue[m]
    <3>1. n \in 1..M /\ g.queue[n] = f.queue[n]
      BY <1>6, <1>9, <2>1, <2>2
    <3> QED BY <1>4, <1>9, <2>2, <3>1
  <2>3. CASE \E i \in 1..N : m = M + i /\ g.queue[m] = order[i]
    <3>1. \E i \in 1..N : n = M + i /\ g.queue[n] = order[i]
      BY <1>6, <1>9, <2>1, <2>3
    <3> QED BY <1>5, <1>9, <2>3, <3>1
  <2> QED BY <1>6, <2>2, <2>3
<1> QED BY <1>3, <1>7, <1>8, <1>9 DEF F!FifoConsistent, g

(* One key and its delta. *)
LEMMA QueueActionIs ==
    ASSUME NEW L, NEW f \in FifoIn(L), NEW k \in Keys, NEW d \in DeltasIn(L)
    PROVE  LET g == F!QueueAction(f, k, d)
           IN  /\ g \in FifoIn(L)
               /\ g.initialPopulationCount = f.initialPopulationCount
               /\ g.queue \in {f.queue, f.queue \o <<k>>}
               /\ g.items[k] = F!DedupDeltas(Append(f.items[k], d))
               /\ \A j \in Keys \ {k} : g.items[j] = f.items[j]
               /\ F!FifoConsistent(f) => F!FifoConsistent(g)
<1> DEFINE order == IF k \in F!ToQueue(f, {k}) THEN <<k>> ELSE <<>>
           delta == [j \in {k} |-> d]
<1>1. DOMAIN delta = {k} /\ DOMAIN delta \subseteq Keys /\ delta[k] = d /\ \A j \in DOMAIN delta : delta[j] \in DeltasIn(L)
  OBVIOUS
<1>2. InOrder(order, F!ToQueue(f, {k}))
  BY DEF InOrder, F!ToQueue
<1>3. order \in {<<>>, <<k>>} /\ order \in Seq(Keys)
  OBVIOUS
<1>4. F!QueueAction(f, k, d) = F!QueueActions(f, delta, order)
  BY DEF F!QueueAction
<1>5. f.queue \o <<>> = f.queue
  BY DEF FifoIn
<1> HIDE DEF order, delta
<1>6. F!FifoConsistent(f) => F!FifoConsistent(F!QueueActions(f, delta, order))
  BY <1>1, <1>2, FifoConsistentQueued
<1> DEFINE g == F!QueueActions(f, delta, order)
<1>7. /\ g \in FifoIn(L)
      /\ g.queue = f.queue \o order
      /\ g.initialPopulationCount = f.initialPopulationCount
      /\ g.items[k] = F!DedupDeltas(Append(f.items[k], delta[k]))
      /\ \A j \in Keys \ {k} : g.items[j] = f.items[j]
  BY <1>1, <1>3, QueueActionsIs
<1>8. g.queue \in {f.queue, f.queue \o <<k>>}
  BY <1>3, <1>5, <1>7
<1> QED BY <1>1, <1>4, <1>6, <1>7, <1>8

(* Pop takes the oldest key out, with its deltas, and counts it if it was  *)
(* among the first.                                                        *)
LEMMA PopIs ==
    ASSUME NEW L, NEW f \in FifoIn(L), f.queue # <<>>
    PROVE  LET g == F!Pop(f)
               k == F!Oldest(f)
           IN  /\ k \in Keys /\ k = f.queue[1]
               /\ g \in FifoIn(L)
               /\ g.initialPopulationCount =
                    IF f.initialPopulationCount > 0 THEN f.initialPopulationCount - 1 ELSE 0
               /\ g.queue = Tail(f.queue)
               /\ g.items[k] = <<>>
               /\ \A j \in Keys \ {k} : g.items[j] = f.items[j]
               /\ F!FifoConsistent(f) => F!FifoConsistent(g) /\ f.items[k] # <<>>
<1> DEFINE k == F!Oldest(f)
           items == [f.items EXCEPT ![k] = <<>>]
           count == IF f.initialPopulationCount > 0 THEN f.initialPopulationCount - 1 ELSE 0
           line == Tail(f.queue)
           g == F!Pop(f)
           N == Len(f.queue)
<1>1. /\ f.queue \in Seq(Keys) /\ f.items \in [Keys -> Seq(DeltasIn(L))]
      /\ f.initialPopulationCount \in Nat
      /\ f = [queue |-> f.queue, items |-> f.items, initialPopulationCount |-> f.initialPopulationCount]
  BY DEF FifoIn
<1>2. /\ k \in Keys /\ k = f.queue[1] /\ line \in Seq(Keys)
      /\ N \in Nat \ {0} /\ DOMAIN f.queue = 1..N /\ DOMAIN line = 1..N - 1
      /\ \A n \in 1..N - 1 : line[n] = f.queue[n + 1]
      /\ \A n \in 1..N : f.queue[n] \in Keys
  BY <1>1, EmptySeq, HeadTailProperties DEF F!Oldest
<1>3. count \in Nat
  BY <1>1
<1>4. items \in [Keys -> Seq(DeltasIn(L))] /\ items[k] = <<>> /\ \A j \in Keys \ {k} : items[j] = f.items[j]
  BY <1>1, <1>2
<1>5. g = [f EXCEPT !.queue = line, !.items = items, !.initialPopulationCount = count]
  BY <1>1 DEF F!Pop
<1> HIDE DEF items, count, line, g, k, N
<1>6. g = [queue |-> line, items |-> items, initialPopulationCount |-> count]
  BY <1>1, <1>5
<1>7. g \in FifoIn(L) /\ g.queue = line /\ g.items = items /\ g.initialPopulationCount = count
  BY <1>2, <1>3, <1>4, <1>6 DEF FifoIn
<1>8. ASSUME F!FifoConsistent(f) PROVE F!FifoConsistent(g) /\ f.items[k] # <<>>
  <2>1. /\ \A j \in Keys : f.items[j] # <<>> <=> \E n \in 1..N : f.queue[n] = j
        /\ \A m, n \in 1..N : f.queue[m] = f.queue[n] => m = n
    BY <1>2, <1>8 DEF F!FifoConsistent
  <2>2. 1 \in 1..N /\ \A n \in 1..N - 1 : n + 1 \in 1..N /\ n + 1 # 1
    <3>1. N \in Nat \ {0}
      BY <1>2
    <3> QED BY ONLY <3>1
  <2>3. f.items[k] # <<>>
    BY <1>2, <2>1, <2>2
  <2>4. \A m, n \in 1..N - 1 : line[m] = line[n] => m = n
    <3> SUFFICES ASSUME NEW m \in 1..N - 1, NEW n \in 1..N - 1, line[m] = line[n] PROVE m = n
      OBVIOUS
    <3>1. f.queue[m + 1] = f.queue[n + 1] /\ m \in Int /\ n \in Int
      BY <1>2
    <3>2. m + 1 = n + 1
      BY <2>1, <2>2, <3>1
    <3> QED BY <3>1, <3>2
  <2>5. ASSUME NEW j \in Keys, items[j] # <<>> PROVE \E n \in 1..N - 1 : line[n] = j
    <3>1. j # k /\ f.items[j] # <<>>
      BY <1>4, <2>5
    <3>2. PICK n \in 1..N : f.queue[n] = j
      BY <2>1, <3>1
    <3>3. n # 1 /\ n - 1 \in 1..N - 1 /\ (n - 1) + 1 = n
      BY <1>2, <3>1, <3>2
    <3> QED BY <1>2, <3>2, <3>3
  <2>6. ASSUME NEW n \in 1..N - 1 PROVE items[line[n]] # <<>>
    <3>1. line[n] = f.queue[n + 1] /\ n + 1 \in 1..N /\ 1 \in 1..N /\ n + 1 # 1
      BY <1>2, <2>2
    <3>2. f.queue[n + 1] \in Keys /\ f.queue[n + 1] # k
      BY <1>2, <2>1, <3>1
    <3>3. f.items[f.queue[n + 1]] # <<>>
      BY <2>1, <3>1, <3>2
    <3> QED BY <1>4, <3>1, <3>2, <3>3
  <2>7. \A j \in Keys : items[j] # <<>> <=> \E n \in DOMAIN line : line[n] = j
    BY <1>2, <2>5, <2>6
  <2>8. F!FifoConsistent(g)
    BY <1>2, <1>7, <2>4, <2>7 DEF F!FifoConsistent
  <2> QED BY <2>3, <2>8
<1> QED BY <1>2, <1>4, <1>7, <1>8 DEF k, g, count, line

(* The reflector receives an event. *)
LEMMA DeltaIn ==
    ASSUME NEW L, NEW type \in DeltaTypes, NEW p \in L, NEW u \in BOOLEAN
    PROVE  F!Delta(type, p, u) \in DeltasIn(L)
BY DEF F!Delta, DeltasIn

(* A single delta stays as it is, and a new FIFO is empty.                 *)
LEMMA OneDelta == \A d : F!DedupDeltas(Append(<<>>, d)) = <<d>>
BY DEF F!DedupDeltas

(* What a list puts into the FIFO. *)
LEMMA ReplacedIs ==
    ASSUME NEW L, NEW list, NEW known,
           \A k \in DOMAIN list : list[k] \in L, \A k \in DOMAIN known : known[k] \in L
    PROVE  LET delta == F!Replaced(list, known)
           IN  /\ DOMAIN delta = DOMAIN list \cup DOMAIN known
               /\ \A k \in DOMAIN delta : delta[k] \in DeltasIn(L)
               /\ \A k \in DOMAIN list : delta[k] = F!Delta("Replaced", list[k], FALSE)
               /\ \A k \in DOMAIN known \ DOMAIN list : delta[k] = F!Delta("Deleted", known[k], TRUE)
<1> DEFINE delta == F!Replaced(list, known)
<1>1. /\ DOMAIN delta = DOMAIN list \cup DOMAIN known
      /\ \A k \in DOMAIN list : delta[k] = F!Delta("Replaced", list[k], FALSE)
      /\ \A k \in DOMAIN known \ DOMAIN list : delta[k] = F!Delta("Deleted", known[k], TRUE)
  BY DEF F!Replaced
<1>2. "Replaced" \in DeltaTypes /\ "Deleted" \in DeltaTypes
  BY DEF DeltaTypes
<1>3. \A k \in DOMAIN list : F!Delta("Replaced", list[k], FALSE) \in DeltasIn(L)
  BY <1>2, DeltaIn
<1>4. \A k \in DOMAIN known : F!Delta("Deleted", known[k], TRUE) \in DeltasIn(L)
  BY <1>2, DeltaIn
<1> QED BY <1>1, <1>3, <1>4

LEMMA CardinalitySame == \A S : F!Cardinality(S) = Cardinality(S)
BY DEF F!Cardinality, Cardinality

LEMMA NewFifo == \A L : F!NewDeltaFIFO \in FifoIn(L) /\ F!FifoConsistent(F!NewDeltaFIFO)
BY DEF F!NewDeltaFIFO, FifoIn, F!FifoConsistent

-----------------------------------------------------------------------------
LEMMA NoToolIsNone == NoTool \notin Tools
BY ToolInformerAssumption DEF Tools

(* The states that the deltas ds and the events es of a key stand for.     *)
St(h, ds, es) == DeltaStates(h, ds) \o EventStates(es)

(* What comes before the nth of the states s, if there was "was" at first. *)
Prev(was, s, n) == IF n = 1 THEN was ELSE s[n - 1].obj

(* A delta or an event that deletes holds the object that was there; only  *)
(* a tombstone may hold an older one.                                      *)
Gone(h, was, ds, es) ==
    /\ \A n \in 1..Len(ds) : ds[n].type = "Deleted" /\ ~ds[n].unknown => At(h, ds[n].obj) = Prev(was, St(h, ds, es), n)
    /\ \A m \in 1..Len(es) : es[m].type = "DELETED" => es[m].tool = Prev(was, St(h, ds, es), Len(ds) + m)

(* The states of deltas and events, one by one.                            *)
LEMMA StIs ==
    ASSUME NEW h \in Memories, NEW ds \in Seq(DeltasIn(Cells)), NEW es \in Seq(EventSet)
    PROVE  /\ St(h, ds, es) \in Seq(StateSet)
           /\ Len(St(h, ds, es)) = Len(ds) + Len(es) /\ Len(ds) \in Nat /\ Len(es) \in Nat
           /\ \A n \in 1..Len(ds) : St(h, ds, es)[n] = DeltaState(h, ds[n])
           /\ \A m \in 1..Len(es) : St(h, ds, es)[Len(ds) + m] = EventState(es[m])
<1> DEFINE a == DeltaStates(h, ds)
           b == EventStates(es)
<1>1. /\ a \in Seq(StateSet) /\ Len(a) = Len(ds)
      /\ \A n \in 1..Len(ds) : a[n] = DeltaState(h, ds[n])
  BY DeltaStatesType
<1>2. /\ b \in Seq(StateSet) /\ Len(b) = Len(es)
      /\ \A n \in 1..Len(es) : b[n] = EventState(es[n])
  BY EventStatesType
<1> HIDE DEF a, b
<1>3. Len(ds) \in Nat /\ Len(es) \in Nat
  OBVIOUS
<1>4. /\ a \o b \in Seq(StateSet) /\ Len(a \o b) = Len(a) + Len(b)
      /\ \A n \in 1..Len(a) : (a \o b)[n] = a[n]
      /\ \A n \in 1..Len(b) : (a \o b)[Len(a) + n] = b[n]
  BY <1>1, <1>2
<1> QED BY <1>1, <1>2, <1>3, <1>4 DEF St, a, b

(* Two ways of putting the same states together. *)
LEMMA StSame ==
    ASSUME NEW h \in Memories, NEW ds \in Seq(DeltasIn(Cells)), NEW es \in Seq(EventSet),
           NEW s \in Seq(StateSet), Len(s) = Len(ds) + Len(es),
           \A n \in 1..Len(ds) : s[n] = DeltaState(h, ds[n]),
           \A m \in 1..Len(es) : s[Len(ds) + m] = EventState(es[m])
    PROVE  s = St(h, ds, es)
<1> DEFINE t == St(h, ds, es)
           N == Len(ds)
<1>1. /\ t \in Seq(StateSet) /\ Len(t) = Len(s) /\ N \in Nat /\ Len(es) \in Nat /\ Len(s) = N + Len(es)
      /\ \A n \in 1..N : t[n] = DeltaState(h, ds[n])
      /\ \A m \in 1..Len(es) : t[N + m] = EventState(es[m])
  BY StIs
<1> HIDE DEF t, N
<1>2. \A n \in 1..Len(s) : s[n] = t[n]
  <2> TAKE n \in 1..Len(s)
  <2>1. CASE n \in 1..N
    BY <1>1, <2>1 DEF N
  <2>2. CASE n > N
    <3> DEFINE m == n - N
    <3>1. m \in 1..Len(es) /\ n = N + m
      BY <1>1, <2>2
    <3> HIDE DEF m
    <3> QED BY <1>1, <3>1 DEF N
  <2> QED BY <1>1, <2>1, <2>2
<1> QED BY <1>1, <1>2, SeqEqual DEF t

(* Another event. *)
LEMMA StAppended ==
    ASSUME NEW h \in Memories, NEW ds \in Seq(DeltasIn(Cells)), NEW es \in Seq(EventSet),
           NEW e \in EventSet
    PROVE  St(h, ds, Append(es, e)) = Append(St(h, ds, es), EventState(e))
<1> DEFINE t == Append(es, e)
           a == St(h, ds, es)
           x == EventState(e)
           s == Append(a, x)
<1>1. /\ a \in Seq(StateSet)
      /\ Len(a) = Len(ds) + Len(es) /\ Len(ds) \in Nat /\ Len(es) \in Nat
      /\ \A n \in 1..Len(ds) : a[n] = DeltaState(h, ds[n])
      /\ \A m \in 1..Len(es) : a[Len(ds) + m] = EventState(es[m])
      /\ x \in StateSet
  BY StIs, EventStateType
<1>2. /\ t \in Seq(EventSet) /\ Len(t) = Len(es) + 1
      /\ \A n \in 1..Len(es) : t[n] = es[n]
      /\ t[Len(es) + 1] = e
  OBVIOUS
<1> HIDE DEF t, a, x
<1>3. /\ s \in Seq(StateSet) /\ Len(s) = Len(a) + 1
      /\ \A n \in 1..Len(a) : s[n] = a[n]
      /\ s[Len(a) + 1] = x
  <2>1. a \in Seq(StateSet) /\ x \in StateSet
    BY <1>1
  <2> QED BY ONLY <2>1
<1> HIDE DEF s
<1>4. \A n \in 1..Len(ds) : s[n] = DeltaState(h, ds[n])
  BY <1>1, <1>3
<1>5. \A m \in 1..Len(t) : s[Len(ds) + m] = EventState(t[m])
  <2> TAKE m \in 1..Len(t)
  <2>1. CASE m \in 1..Len(es)
    <3>1. Len(ds) + m \in 1..Len(a)
      BY <1>1, <2>1
    <3> QED BY <1>1, <1>2, <1>3, <2>1, <3>1
  <2>2. CASE m = Len(es) + 1
    BY <1>1, <1>2, <1>3, <2>2 DEF x
  <2> QED BY <1>1, <1>2, <2>1, <2>2
<1>6. s = St(h, ds, t)
  <2>1. Len(s) = Len(ds) + Len(t)
    BY <1>1, <1>2, <1>3
  <2> QED BY <1>2, <1>3, <1>4, <1>5, <2>1, StSame
<1> QED BY <1>6 DEF s, t, a, x

(* If the deletion at the end holds the last object, all do.               *)
LEMMA GoneAppended ==
    ASSUME NEW h \in Memories, NEW ds \in Seq(DeltasIn(Cells)), NEW es \in Seq(EventSet),
           NEW e \in EventSet, NEW was, Gone(h, was, ds, es),
           e.type = "DELETED" =>
               e.tool = IF St(h, ds, es) = <<>> THEN was ELSE St(h, ds, es)[Len(St(h, ds, es))].obj
    PROVE  Gone(h, was, ds, Append(es, e))
<1> DEFINE t == Append(es, e)
           a == St(h, ds, es)
           s == St(h, ds, t)
           N == Len(ds)
           M == Len(es)
<1>1. a \in Seq(StateSet) /\ Len(a) = N + M /\ N \in Nat /\ M \in Nat
  BY StIs
<1>2. /\ t \in Seq(EventSet) /\ Len(t) = M + 1
      /\ \A n \in 1..M : t[n] = es[n]
      /\ t[M + 1] = e
  OBVIOUS
<1>3. s = Append(a, EventState(e))
  BY StAppended
<1>4. \A n \in 1..N : ds[n].type = "Deleted" /\ ~ds[n].unknown => At(h, ds[n].obj) = Prev(was, a, n)
  BY DEF Gone
<1>5. \A m \in 1..M : es[m].type = "DELETED" => es[m].tool = Prev(was, a, N + m)
  BY DEF Gone
<1>6. e.type = "DELETED" => e.tool = IF a = <<>> THEN was ELSE a[Len(a)].obj
  OBVIOUS
<1> HIDE DEF t, a, s, N, M
<1>7. \A n \in 1..N + M : s[n] = a[n]
  BY <1>1, <1>3
<1>8. \A n \in 1..N + M + 1 : Prev(was, s, n) = Prev(was, a, n)
  <2> TAKE n \in 1..N + M + 1
  <2>1. n # 1 => n - 1 \in 1..N + M
    BY <1>1
  <2> QED BY <1>7, <2>1 DEF Prev
<1>9. \A n \in 1..N : ds[n].type = "Deleted" /\ ~ds[n].unknown => At(h, ds[n].obj) = Prev(was, s, n)
  <2>1. \A n \in 1..N : n \in 1..N + M + 1
    BY <1>1
  <2> QED BY <1>4, <1>8, <2>1
<1>10. ASSUME NEW m \in 1..M + 1, t[m].type = "DELETED" PROVE t[m].tool = Prev(was, s, N + m)
  <2>1. N + m \in 1..N + M + 1
    BY <1>1
  <2>2. CASE m \in 1..M
    BY <1>2, <1>5, <1>8, <1>10, <2>1, <2>2
  <2>3. CASE m = M + 1
    <3>1. e.tool = IF a = <<>> THEN was ELSE a[Len(a)].obj
      BY <1>2, <1>6, <1>10, <2>3
    <3>2. a = <<>> <=> N + m = 1
      BY <1>1, <2>3, EmptySeq
    <3>3. (N + m) - 1 = Len(a)
      BY <1>1, <2>3
    <3>4. e.tool = Prev(was, a, N + m)
      <4> DEFINE i == N + m
      <4>1. (a = <<>> <=> i = 1) /\ i - 1 = Len(a)
        BY <3>2, <3>3
      <4> HIDE DEF i
      <4>2. e.tool = Prev(was, a, i)
        BY <3>1, <4>1 DEF Prev
      <4> QED BY <4>2 DEF i
    <3> QED BY <1>2, <1>8, <2>1, <2>3, <3>4
  <2> QED BY <1>1, <2>2, <2>3
<1> QED BY <1>2, <1>9, <1>10 DEF Gone, t, s, N

(* An event becomes a delta. *)
LEMMA StMoved ==
    ASSUME NEW h \in Memories, NEW ds \in Seq(DeltasIn(Cells)), NEW es \in Seq(EventSet),
           NEW e \in EventSet, NEW d \in DeltasIn(Cells), DeltaState(h, d) = EventState(e)
    PROVE  St(h, Append(ds, d), es) = St(h, ds, <<e>> \o es)
<1> DEFINE t == <<e>> \o es
           u == Append(ds, d)
           s == St(h, ds, t)
           N == Len(ds)
<1>1. /\ t \in Seq(EventSet) /\ Len(t) = Len(es) + 1 /\ Len(es) \in Nat
      /\ \A n \in 1..Len(es) : t[n + 1] = es[n]
      /\ t[1] = e
  OBVIOUS
<1>2. /\ u \in Seq(DeltasIn(Cells)) /\ Len(u) = N + 1 /\ N \in Nat
      /\ \A n \in 1..N : u[n] = ds[n]
      /\ u[N + 1] = d
  OBVIOUS
<1> HIDE DEF t, u
<1>3. /\ s \in Seq(StateSet) /\ Len(s) = N + Len(t)
      /\ \A n \in 1..N : s[n] = DeltaState(h, ds[n])
      /\ \A m \in 1..Len(t) : s[N + m] = EventState(t[m])
  BY <1>1, StIs
<1> HIDE DEF s, N
<1>4. \A n \in 1..Len(u) : s[n] = DeltaState(h, u[n])
  <2> TAKE n \in 1..Len(u)
  <2>1. CASE n \in 1..N
    BY <1>2, <1>3, <2>1
  <2>2. CASE n = N + 1
    <3>1. 1 \in 1..Len(t)
      BY <1>1
    <3> QED BY <1>1, <1>2, <1>3, <2>2, <3>1
  <2> QED BY <1>2, <2>1, <2>2
<1>5. \A m \in 1..Len(es) : s[Len(u) + m] = EventState(es[m])
  <2> TAKE m \in 1..Len(es)
  <2>1. m + 1 \in 1..Len(t) /\ Len(u) + m = N + (m + 1)
    BY <1>1, <1>2
  <2> QED BY <1>1, <1>3, <2>1
<1>6. s = St(h, u, es)
  <2>1. Len(s) = Len(u) + Len(es)
    BY <1>1, <1>2, <1>3
  <2> QED BY <1>2, <1>3, <1>4, <1>5, <2>1, StSame
<1> QED BY <1>6 DEF s, t, u

(* A deletion that becomes a delta holds what it held, so none is merged   *)
(* into another.                                                           *)
LEMMA GoneMoved ==
    ASSUME NEW h \in Memories, NEW ds \in Seq(DeltasIn(Cells)), NEW es \in Seq(EventSet),
           NEW e \in EventSet, NEW d \in DeltasIn(Cells), DeltaState(h, d) = EventState(e),
           NEW was, Gone(h, was, ds, <<e>> \o es),
           d.type = "Deleted" => e.type = "DELETED" /\ At(h, d.obj) = e.tool
    PROVE  /\ Gone(h, was, Append(ds, d), es)
           /\ e.type = "DELETED" =>
                /\ ds # <<>> => ds[Len(ds)].type # "Deleted"
                /\ ds = <<>> => was # NoTool
<1> DEFINE t == <<e>> \o es
           u == Append(ds, d)
           s == St(h, ds, t)
           N == Len(ds)
<1>1. /\ t \in Seq(EventSet) /\ Len(t) = Len(es) + 1 /\ Len(es) \in Nat
      /\ \A n \in 1..Len(es) : t[n + 1] = es[n]
      /\ t[1] = e
  OBVIOUS
<1>2. /\ u \in Seq(DeltasIn(Cells)) /\ Len(u) = N + 1 /\ N \in Nat
      /\ \A n \in 1..N : u[n] = ds[n]
      /\ u[N + 1] = d
  OBVIOUS
<1>3. s = St(h, u, es)
  BY StMoved
<1>4. /\ \A n \in 1..N : ds[n].type = "Deleted" /\ ~ds[n].unknown => At(h, ds[n].obj) = Prev(was, s, n)
      /\ \A m \in 1..Len(t) : t[m].type = "DELETED" => t[m].tool = Prev(was, s, N + m)
  BY DEF Gone
<1>5. \A n \in 1..N : s[n] = DeltaState(h, ds[n])
  <2> HIDE DEF t
  <2> QED BY <1>1, StIs
<1>6. e.tool # NoTool
  BY NoToolIsNone DEF EventSet
<1>7. ds = <<>> <=> N = 0
  BY EmptySeq
<1> HIDE DEF t, u, s, N
<1>8. e.type = "DELETED" => e.tool = Prev(was, s, N + 1)
  <2>1. 1 \in 1..Len(t)
    BY <1>1
  <2> QED BY <1>1, <1>4, <2>1
<1>9. \A n \in 1..Len(u) : u[n].type = "Deleted" /\ ~u[n].unknown => At(h, u[n].obj) = Prev(was, s, n)
  <2> TAKE n \in 1..Len(u)
  <2>1. CASE n \in 1..N
    BY <1>2, <1>4, <2>1
  <2>2. CASE n = N + 1
    BY <1>2, <1>8, <2>2
  <2> QED BY <1>2, <2>1, <2>2
<1>10. \A m \in 1..Len(es) : es[m].type = "DELETED" => es[m].tool = Prev(was, s, Len(u) + m)
  <2> TAKE m \in 1..Len(es)
  <2>1. m + 1 \in 1..Len(t) /\ Len(u) + m = N + (m + 1)
    BY <1>1, <1>2
  <2> QED BY <1>1, <1>4, <2>1
<1>11. Gone(h, was, u, es)
  BY <1>3, <1>9, <1>10 DEF Gone
<1>12. ASSUME e.type = "DELETED", N # 0 PROVE ds[N].type # "Deleted"
  <2>1. N \in 1..N /\ N + 1 # 1 /\ (N + 1) - 1 = N
    BY <1>2, <1>12
  <2>2. e.tool = s[N].obj /\ s[N] = DeltaState(h, ds[N])
    BY <1>5, <1>8, <1>12, <2>1 DEF Prev
  <2> QED BY <1>6, <2>2 DEF DeltaState
<1>13. ASSUME e.type = "DELETED", N = 0 PROVE was # NoTool
  BY <1>6, <1>8, <1>13 DEF Prev
<1> QED BY <1>7, <1>11, <1>12, <1>13 DEF u, N

(* The oldest delta is looked at. *)
LEMMA StTail ==
    ASSUME NEW h \in Memories, NEW ds \in Seq(DeltasIn(Cells)), NEW es \in Seq(EventSet), ds # <<>>
    PROVE  /\ St(h, ds, es) # <<>> /\ Head(St(h, ds, es)) = DeltaState(h, ds[1])
           /\ St(h, Tail(ds), es) = Tail(St(h, ds, es))
<1> DEFINE u == Tail(ds)
           a == St(h, ds, es)
           s == Tail(a)
           N == Len(ds)
<1>1. /\ a \in Seq(StateSet)
      /\ Len(a) = N + Len(es) /\ N \in Nat /\ Len(es) \in Nat /\ N # 0
      /\ \A n \in 1..N : a[n] = DeltaState(h, ds[n])
      /\ \A m \in 1..Len(es) : a[N + m] = EventState(es[m])
  BY StIs, EmptySeq
<1>2. /\ u \in Seq(DeltasIn(Cells)) /\ Len(u) = N - 1
      /\ \A n \in 1..N - 1 : u[n] = ds[n + 1]
  BY HeadTailProperties
<1> HIDE DEF u, a, N
<1>3. a # <<>>
  BY <1>1, EmptySeq
<1>4. /\ s \in Seq(StateSet) /\ Len(s) = Len(a) - 1
      /\ \A n \in 1..Len(a) - 1 : s[n] = a[n + 1]
      /\ Head(a) = a[1]
  BY <1>1, <1>3, HeadTailProperties
<1> HIDE DEF s
<1>5. \A n \in 1..Len(u) : s[n] = DeltaState(h, u[n])
  <2> TAKE n \in 1..Len(u)
  <2>1. n + 1 \in 1..N /\ n \in 1..Len(a) - 1 /\ n \in 1..N - 1
    BY <1>1, <1>2
  <2> QED BY <1>1, <1>2, <1>4, <2>1
<1>6. \A m \in 1..Len(es) : s[Len(u) + m] = EventState(es[m])
  <2> TAKE m \in 1..Len(es)
  <2>1. Len(u) + m \in 1..Len(a) - 1 /\ (Len(u) + m) + 1 = N + m
    BY <1>1, <1>2
  <2> QED BY <1>1, <1>4, <2>1
<1>7. s = St(h, u, es)
  <2>1. Len(s) = Len(u) + Len(es)
    BY <1>1, <1>2, <1>4
  <2> QED BY <1>2, <1>4, <1>5, <1>6, <2>1, StSame
<1>8. Head(a) = DeltaState(h, ds[1])
  <2>1. 1 \in 1..N
    BY <1>1
  <2> QED BY <1>1, <1>4, <2>1
<1> QED BY <1>3, <1>7, <1>8 DEF a, s, u

(* The oldest delta's object is what was there for those behind it.        *)
LEMMA GoneTail ==
    ASSUME NEW h \in Memories, NEW ds \in Seq(DeltasIn(Cells)), NEW es \in Seq(EventSet), ds # <<>>,
           NEW was, Gone(h, was, ds, es)
    PROVE  /\ Gone(h, DeltaState(h, ds[1]).obj, Tail(ds), es)
           /\ ds[1].type = "Deleted" /\ ~ds[1].unknown => At(h, ds[1].obj) = was
<1> DEFINE u == Tail(ds)
           a == St(h, ds, es)
           s == St(h, u, es)
           N == Len(ds)
           now == DeltaState(h, ds[1]).obj
<1>1. /\ a \in Seq(StateSet)
      /\ Len(a) = N + Len(es) /\ N \in Nat /\ Len(es) \in Nat /\ N # 0
  BY StIs, EmptySeq
<1>2. /\ u \in Seq(DeltasIn(Cells)) /\ Len(u) = N - 1
      /\ \A n \in 1..N - 1 : u[n] = ds[n + 1]
  BY HeadTailProperties
<1>3. a # <<>> /\ Head(a).obj = now /\ s = Tail(a)
  BY StTail
<1>4. /\ \A n \in 1..N : ds[n].type = "Deleted" /\ ~ds[n].unknown => At(h, ds[n].obj) = Prev(was, a, n)
      /\ \A m \in 1..Len(es) : es[m].type = "DELETED" => es[m].tool = Prev(was, a, N + m)
  BY DEF Gone
<1> HIDE DEF u, a, s, N, now
<1>5. a[1].obj = now /\ \A n \in 1..Len(a) - 1 : s[n] = a[n + 1]
  BY <1>1, <1>3, HeadTailProperties
<1>6. ASSUME NEW n \in 1..Len(a) - 1 PROVE Prev(now, s, n) = Prev(was, a, n + 1)
  <2>1. CASE n = 1
    BY <1>5, <2>1 DEF Prev
  <2>2. CASE n # 1
    <3>1. n - 1 \in 1..Len(a) - 1 /\ (n - 1) + 1 = n /\ (n + 1) - 1 = n /\ n + 1 # 1
      BY <1>1, <2>2
    <3>2. s[n - 1] = a[n]
      BY <1>5, <3>1
    <3> QED BY <2>2, <3>1, <3>2 DEF Prev
  <2> QED BY <2>1, <2>2
<1>7. \A n \in 1..Len(u) : u[n].type = "Deleted" /\ ~u[n].unknown => At(h, u[n].obj) = Prev(now, s, n)
  <2> TAKE n \in 1..Len(u)
  <2>1. n + 1 \in 1..N /\ n \in 1..N - 1 /\ n \in 1..Len(a) - 1
    BY <1>1, <1>2
  <2> QED BY <1>2, <1>4, <1>6, <2>1
<1>8. \A m \in 1..Len(es) : es[m].type = "DELETED" => es[m].tool = Prev(now, s, Len(u) + m)
  <2> TAKE m \in 1..Len(es)
  <2>1. Len(u) + m \in 1..Len(a) - 1 /\ (Len(u) + m) + 1 = N + m
    BY <1>1, <1>2
  <2>2. Prev(now, s, Len(u) + m) = Prev(was, a, N + m)
    BY <1>6, <2>1
  <2> QED BY <1>4, <2>2
<1>9. Gone(h, now, u, es)
  BY <1>7, <1>8 DEF Gone, s
<1>10. ds[1].type = "Deleted" /\ ~ds[1].unknown => At(h, ds[1].obj) = was
  <2>1. 1 \in 1..N
    BY <1>1
  <2> QED BY <1>4, <2>1 DEF Prev
<1> QED BY <1>9, <1>10 DEF now, u

(* A key with nothing, and with one delta. *)
LEMMA GoneNothing == \A h, was : Gone(h, was, <<>>, <<>>) /\ St(h, <<>>, <<>>) = <<>>
BY DEF Gone, St, DeltaStates, EventStates

(* A line of one delta is told by that delta.                              *)
LEMMA GoneOne ==
    ASSUME NEW h, NEW was, NEW d, d.type = "Deleted" /\ ~d.unknown => At(h, d.obj) = was
    PROVE  Gone(h, was, <<d>>, <<>>) /\ St(h, <<d>>, <<>>) = <<DeltaState(h, d)>>
<1>1. St(h, <<d>>, <<>>) = <<DeltaState(h, d)>>
  <2>1. DeltaStates(h, <<d>>) = <<DeltaState(h, d)>> /\ EventStates(<<>>) = <<>>
    BY DEF DeltaStates, EventStates
  <2> DEFINE x == DeltaState(h, d)
  <2> HIDE DEF x
  <2>2. <<x>> \o <<>> = <<x>>
    OBVIOUS
  <2> QED BY <2>1, <2>2 DEF St, x
<1>2. Len(<<d>>) = 1 /\ Len(<<>>) = 0 /\ <<d>>[1] = d
  OBVIOUS
<1> QED BY <1>1, <1>2 DEF Gone, Prev

(* The inductive invariant: beside Base, the deltas of a key are those the *)
(* FIFO holds or those HandleDeltas goes through; a repetition comes first *)
(* and repeats what the indexer has; a deletion holds what was there; and  *)
(* the keys of the first list are at the front of the queue.               *)
SoundIn(deltas, was) ==
    \A n \in 1..Len(deltas) :
        /\ deltas[n].unknown => deltas[n].type = "Deleted"
        /\ deltas[n].type = "Sync" => n = 1 /\ deltas[n].obj = was

(* The last of what is new is the last of all, unless nothing is new.      *)
LEMMA NewsEnds ==
    ASSUME NEW L, NEW s \in Seq(DeltasIn(L)), s # <<>>
    PROVE  IF News(s) = <<>> THEN s[Len(s)].type = "Sync"
           ELSE s[Len(s)] = News(s)[Len(News(s))]
<1>1. Len(s) \in Nat /\ Len(s) # 0 /\ DOMAIN s = 1..Len(s)
  BY EmptySeq, LenProperties
<1>2. CASE s[1].type = "Sync"
  <2>1. News(s) = Tail(s)
    BY <1>2 DEF News
  <2> DEFINE t == Tail(s)
  <2>2. /\ t \in Seq(DeltasIn(L)) /\ Len(t) = Len(s) - 1
        /\ \A n \in 1..Len(s) - 1 : t[n] = s[n + 1]
    BY HeadTailProperties
  <2> HIDE DEF t
  <2>3. CASE Len(s) = 1
    <3>1. t = <<>>
      BY <2>2, <2>3, EmptySeq
    <3> QED BY <1>2, <2>1, <2>3, <3>1 DEF t
  <2>4. CASE Len(s) # 1
    <3>1. Len(s) - 1 \in 1..Len(s) - 1 /\ (Len(s) - 1) + 1 = Len(s) /\ Len(t) # 0
      BY <1>1, <2>2, <2>4
    <3>2. t # <<>>
      BY <2>2, <3>1, EmptySeq
    <3> QED BY <2>1, <2>2, <3>1, <3>2 DEF t
  <2> QED BY <2>3, <2>4
<1>3. CASE s[1].type # "Sync"
  BY <1>3 DEF News
<1> QED BY <1>2, <1>3

(* A key with one delta that is not a repetition, and one with nothing.    *)
LEMMA OneLine ==
    ASSUME NEW h, NEW was, NEW p, NEW d, d.type # "Sync", d.unknown => d.type = "Deleted",
           d.type = "Deleted" /\ ~d.unknown => At(h, d.obj) = was
    PROVE  /\ St(h, News(<<d>>), <<>>) = <<DeltaState(h, d)>>
           /\ Gone(h, was, News(<<d>>), <<>>)
           /\ SoundIn(<<d>>, p)
<1>1. News(<<d>>) = <<d>>
  BY DEF News
<1>2. Len(<<d>>) = 1 /\ <<d>>[1] = d /\ 1..1 = {1}
  OBVIOUS
<1>3. SoundIn(<<d>>, p)
  BY <1>2 DEF SoundIn
<1> QED BY <1>1, <1>3, GoneOne

(* A line of nothing is of one mind with any store.                        *)
LEMMA EmptyLine ==
    /\ \A h, was : Gone(h, was, News(<<>>), <<>>) /\ St(h, News(<<>>), <<>>) = <<>>
    /\ \A p : SoundIn(<<>>, p)
<1>1. News(<<>>) = <<>>
  BY DEF News
<1>2. \A p : SoundIn(<<>>, p)
  BY DEF SoundIn
<1> QED BY <1>1, <1>2, GoneNothing

(* A tool that a list brought, and one that it did not bring.              *)
LEMMA ListedLine ==
    ASSUME NEW h, NEW was, NEW p, NEW tool \in Tools, h[tool.rv] = tool
    PROVE  LET s == <<F!Delta("Replaced", tool.rv, FALSE)>>
           IN  /\ St(h, News(s), <<>>) = <<[obj |-> tool, lost |-> FALSE]>>
               /\ Gone(h, was, News(s), <<>>) /\ SoundIn(s, p)
<1> DEFINE d == F!Delta("Replaced", tool.rv, FALSE)
<1>1. d.type = "Replaced" /\ d.obj = tool.rv /\ d.unknown = FALSE
  BY DEF F!Delta
<1>2. tool.rv # Nil
  BY ToolInformerAssumption DEF Tools, Nil, F!Nil
<1>3. DeltaState(h, d) = [obj |-> tool, lost |-> FALSE]
  BY <1>1, <1>2 DEF DeltaState, At
<1> HIDE DEF d
<1>4. St(h, News(<<d>>), <<>>) = <<DeltaState(h, d)>> /\ Gone(h, was, News(<<d>>), <<>>) /\ SoundIn(<<d>>, p)
  BY <1>1, OneLine
<1> QED BY <1>3, <1>4 DEF d

(* A repetition of what the indexer has is no news.                        *)
LEMMA SyncLine ==
    ASSUME NEW p
    PROVE  LET s == <<F!Delta("Sync", p, FALSE)>>
           IN  News(s) = <<>> /\ SoundIn(s, p)
<1> DEFINE d == F!Delta("Sync", p, FALSE)
<1>1. d.type = "Sync" /\ d.obj = p /\ d.unknown = FALSE
  BY DEF F!Delta
<1> HIDE DEF d
<1>2. Len(<<d>>) = 1 /\ <<d>>[1] = d /\ 1..1 = {1} /\ Tail(<<d>>) = <<>> /\ <<d>> # <<>>
  OBVIOUS
<1>3. News(<<d>>) = <<>> /\ SoundIn(<<d>>, p)
  BY <1>1, <1>2 DEF News, SoundIn
<1> QED BY <1>3 DEF d

(* The states of deltas alone.                                             *)
LEMMA StOfDeltas ==
    ASSUME NEW h \in Memories, NEW ds \in Seq(DeltasIn(Cells))
    PROVE  /\ St(h, ds, <<>>) \in Seq(StateSet)
           /\ Len(St(h, ds, <<>>)) = Len(ds) /\ Len(ds) \in Nat
           /\ \A n \in 1..Len(ds) : St(h, ds, <<>>)[n] = DeltaState(h, ds[n])
<1> DEFINE es == <<>>
<1>1. es \in Seq(EventSet) /\ Len(es) = 0
  OBVIOUS
<1> HIDE DEF es
<1>2. /\ St(h, ds, es) \in Seq(StateSet)
      /\ Len(St(h, ds, es)) = Len(ds) + Len(es) /\ Len(ds) \in Nat
      /\ \A n \in 1..Len(ds) : St(h, ds, es)[n] = DeltaState(h, ds[n])
  BY <1>1, StIs
<1> QED BY <1>1, <1>2 DEF es

LEMMA SameDeltas ==
    ASSUME NEW h \in Memories, NEW ds \in Seq(DeltasIn(Cells)), NEW s \in Seq(StateSet),
           Len(s) = Len(ds), \A n \in 1..Len(ds) : s[n] = DeltaState(h, ds[n])
    PROVE  s = St(h, ds, <<>>)
BY StOfDeltas, SeqEqual

(* What is told of deltas does not depend on the events behind them.       *)
LEMMA GoneAlone ==
    ASSUME NEW h \in Memories, NEW ds \in Seq(DeltasIn(Cells)), NEW es \in Seq(EventSet),
           NEW was, Gone(h, was, ds, es)
    PROVE  Gone(h, was, ds, <<>>)
<1> DEFINE a == St(h, ds, es)
           b == St(h, ds, <<>>)
           N == Len(ds)
<1>1. N \in Nat /\ \A n \in 1..N : a[n] = DeltaState(h, ds[n])
  BY StIs
<1>2. \A n \in 1..N : b[n] = DeltaState(h, ds[n])
  BY StOfDeltas
<1>3. \A n \in 1..N : ds[n].type = "Deleted" /\ ~ds[n].unknown => At(h, ds[n].obj) = Prev(was, a, n)
  BY DEF Gone
<1> HIDE DEF a, b, N
<1>4. ASSUME NEW n \in 1..N PROVE Prev(was, a, n) = Prev(was, b, n)
  <2>1. n # 1 => n - 1 \in 1..N
    BY <1>1
  <2> QED BY <1>1, <1>2, <2>1 DEF Prev
<1>5. Len(<<>>) = 0
  OBVIOUS
<1> QED BY <1>3, <1>4, <1>5 DEF Gone, b, N

(* An answer of a list, which tells of no deletion but by a tombstone.     *)
LEMMA AnswerAppended ==
    ASSUME NEW h \in Memories, NEW ds \in Seq(DeltasIn(Cells)), NEW d \in DeltasIn(Cells),
           d.type = "Deleted" => d.unknown, NEW was, Gone(h, was, ds, <<>>)
    PROVE  /\ Gone(h, was, Append(ds, d), <<>>)
           /\ St(h, Append(ds, d), <<>>) = Append(St(h, ds, <<>>), DeltaState(h, d))
<1> DEFINE u == Append(ds, d)
           a == St(h, ds, <<>>)
           b == St(h, u, <<>>)
           x == DeltaState(h, d)
           c == Append(a, x)
           N == Len(ds)
<1>1. u \in Seq(DeltasIn(Cells)) /\ Len(u) = N + 1 /\ N \in Nat /\ u[N + 1] = d /\ \A n \in 1..N : u[n] = ds[n]
  OBVIOUS
<1>2. Len(<<>>) = 0
  OBVIOUS
<1>3. a \in Seq(StateSet) /\ Len(a) = N /\ \A n \in 1..N : a[n] = DeltaState(h, ds[n])
  BY StOfDeltas
<1>4. x \in StateSet
  BY DeltaStateType
<1> HIDE DEF u
<1>5. b \in Seq(StateSet) /\ \A n \in 1..N + 1 : b[n] = DeltaState(h, u[n])
  BY <1>1, StOfDeltas
<1>6. \A n \in 1..N : ds[n].type = "Deleted" /\ ~ds[n].unknown => At(h, ds[n].obj) = Prev(was, a, n)
  BY DEF Gone
<1> HIDE DEF a, x, N
<1>7. c \in Seq(StateSet) /\ Len(c) = N + 1 /\ c[N + 1] = x /\ \A n \in 1..N : c[n] = a[n]
  BY <1>3, <1>4
<1> HIDE DEF b, c
<1>8. ASSUME NEW n \in 1..N + 1 PROVE c[n] = DeltaState(h, u[n])
  <2>1. n \in 1..N \/ n = N + 1
    BY <1>1
  <2> QED BY <1>1, <1>3, <1>7, <2>1 DEF x
<1>9. c = St(h, u, <<>>)
  BY <1>1, <1>7, <1>8, SameDeltas
<1>10. ASSUME NEW n \in 1..N + 1, u[n].type = "Deleted", ~u[n].unknown
       PROVE At(h, u[n].obj) = Prev(was, b, n)
  <2>1. n \in 1..N /\ u[n] = ds[n]
    <3>1. n \in 1..N \/ n = N + 1
      BY <1>1
    <3> QED BY <1>1, <1>10, <3>1
  <2>2. n # 1 => n - 1 \in 1..N /\ n - 1 \in 1..N + 1
    BY <1>1, <2>1
  <2>3. Prev(was, a, n) = Prev(was, b, n)
    BY <1>1, <1>3, <1>5, <2>2 DEF Prev
  <2> QED BY <1>6, <1>10, <2>1, <2>3
<1>11. Gone(h, was, u, <<>>)
  BY <1>1, <1>2, <1>10 DEF Gone, b
<1> QED BY <1>9, <1>11 DEF a, b, c, u, x

(* Lines that differ in the objects of tombstones only stand for the same. *)
Alike(s, t) ==
    /\ Len(s) = Len(t)
    /\ \A n \in 1..Len(s) :
          \/ s[n] = t[n]
          \/ s[n].type = "Deleted" /\ t[n].type = "Deleted" /\ s[n].unknown /\ t[n].unknown

LEMMA AlikeNews ==
    ASSUME NEW s \in Seq(DeltasIn(Cells)), NEW t \in Seq(DeltasIn(Cells)), Alike(s, t)
    PROVE  Alike(News(s), News(t))
<1>1. /\ Len(s) \in Nat /\ Len(t) = Len(s) /\ (s = <<>> <=> Len(s) = 0) /\ (t = <<>> <=> Len(t) = 0)
      /\ Len(s) > 0 => (s[1].type = "Sync" <=> t[1].type = "Sync")
  <2>1. Len(s) > 0 => 1 \in 1..Len(s)
    OBVIOUS
  <2> QED BY <2>1, EmptySeq DEF Alike
<1>2. CASE s # <<>> /\ s[1].type = "Sync"
  <2>1. News(s) = Tail(s) /\ News(t) = Tail(t) /\ t # <<>>
    BY <1>1, <1>2 DEF News
  <2> DEFINE u == Tail(s)
             v == Tail(t)
  <2>2. /\ Len(u) = Len(s) - 1 /\ \A n \in 1..Len(s) - 1 : u[n] = s[n + 1]
        /\ Len(v) = Len(t) - 1 /\ \A n \in 1..Len(t) - 1 : v[n] = t[n + 1]
    BY <1>1, <1>2, <2>1, HeadTailProperties
  <2> HIDE DEF u, v
  <2>3. \A n \in 1..Len(u) : n + 1 \in 1..Len(s) /\ n \in 1..Len(s) - 1
    BY <1>1, <2>2
  <2>4. Alike(u, v)
    BY <1>1, <2>2, <2>3 DEF Alike
  <2> QED BY <2>1, <2>4 DEF u, v
<1>3. CASE ~(s # <<>> /\ s[1].type = "Sync")
  <2>1. News(s) = s /\ News(t) = t
    BY <1>1, <1>3 DEF News
  <2> QED BY <2>1
<1> QED BY <1>2, <1>3

LEMMA AlikeStates ==
    ASSUME NEW h \in Memories, NEW s \in Seq(DeltasIn(Cells)), NEW t \in Seq(DeltasIn(Cells)), Alike(s, t),
           NEW was, Gone(h, was, s, <<>>)
    PROVE  Gone(h, was, t, <<>>) /\ St(h, t, <<>>) = St(h, s, <<>>)
<1> DEFINE a == St(h, s, <<>>)
<1>1. Len(<<>>) = 0 /\ Len(s) \in Nat /\ Len(s) = Len(t)
  BY DEF Alike
<1>2. a \in Seq(StateSet) /\ Len(a) = Len(s) /\ \A n \in 1..Len(s) : a[n] = DeltaState(h, s[n])
  BY StOfDeltas
<1>3. \A n \in 1..Len(s) : s[n].type = "Deleted" /\ ~s[n].unknown => At(h, s[n].obj) = Prev(was, a, n)
  BY DEF Gone
<1> HIDE DEF a
<1>4. ASSUME NEW n \in 1..Len(s) PROVE DeltaState(h, s[n]) = DeltaState(h, t[n])
  <2>1. s[n].unknown \in BOOLEAN /\ t[n].unknown \in BOOLEAN
    <3>1. s[n] \in DeltasIn(Cells) /\ t[n] \in DeltasIn(Cells)
      BY <1>1, ElementOfSeq
    <3> QED BY <3>1 DEF DeltasIn
  <2>2. \/ s[n] = t[n]
        \/ s[n].type = "Deleted" /\ t[n].type = "Deleted" /\ s[n].unknown /\ t[n].unknown
    BY DEF Alike
  <2> QED BY <2>1, <2>2 DEF DeltaState
<1>5. a = St(h, t, <<>>)
  BY <1>1, <1>2, <1>4, SameDeltas
<1>6. \A n \in 1..Len(t) : t[n].type = "Deleted" /\ ~t[n].unknown => At(h, t[n].obj) = Prev(was, a, n)
  BY <1>1, <1>3 DEF Alike
<1>7. Gone(h, was, t, <<>>)
  BY <1>1, <1>5, <1>6 DEF Gone
<1> QED BY <1>5, <1>7 DEF a

(* A tombstone behind a deletion is merged with it.                        *)
LEMMA TombstoneMerged ==
    ASSUME NEW D, NEW ds \in Seq(D), NEW d \in D, ds # <<>>,
           ds[Len(ds)].type = "Deleted", d.type = "Deleted", d.unknown
    PROVE  F!DedupDeltas(Append(ds, d)) \in Seq(D) /\ Alike(ds, F!DedupDeltas(Append(ds, d)))
<1> DEFINE N == Len(ds)
           u == Append(ds, d)
           first == SubSeq(u, 1, N - 1)
           line == F!DedupDeltas(u)
<1>1. N \in Nat \ {0} /\ u \in Seq(D) /\ Len(u) = N + 1 /\ u[N + 1] = d /\ \A n \in 1..N : u[n] = ds[n]
  BY EmptySeq
<1> HIDE DEF u, N
<1>2. /\ first \in Seq(D) /\ Len(first) = N - 1 /\ \A n \in 1..N - 1 : first[n] = u[n]
      /\ SubSeq(u, 1, N) \in Seq(D) /\ Len(SubSeq(u, 1, N)) = N /\ \A n \in 1..N : SubSeq(u, 1, N)[n] = u[n]
  BY ONLY <1>1
<1> HIDE DEF first
<1>3. /\ Append(first, d) \in Seq(D) /\ Len(Append(first, d)) = N /\ Append(first, d)[N] = d
      /\ \A n \in 1..N - 1 : Append(first, d)[n] = first[n]
  BY <1>1, <1>2
<1>4. line = IF u[N].unknown THEN Append(first, d) ELSE SubSeq(u, 1, N)
  <2>1. N + 1 >= 2 /\ (N + 1) - 1 = N /\ (N + 1) - 2 = N - 1 /\ N \in 1..N
    BY <1>1
  <2> QED BY <1>1, <2>1 DEF F!DedupDeltas, first, N
<1> HIDE DEF line
<1>5. CASE u[N].unknown
  <2>1. line = Append(first, d) /\ ds[N].unknown /\ ds[N].type = "Deleted"
    BY <1>1, <1>4, <1>5 DEF N
  <2>2. \A n \in 1..N : n \in 1..N - 1 \/ n = N
    BY <1>1
  <2>3. Alike(ds, line)
    BY <1>1, <1>2, <1>3, <2>1, <2>2 DEF Alike, N
  <2> QED BY <1>3, <2>1, <2>3 DEF line, u
<1>6. CASE ~u[N].unknown
  <2>1. Alike(ds, line)
    BY <1>1, <1>2, <1>4, <1>6 DEF Alike, N
  <2> QED BY <1>2, <1>4, <1>6, <2>1 DEF line, u
<1> QED BY <1>5, <1>6

LEMMA SoundAlike ==
    ASSUME NEW s, NEW t, NEW w, SoundIn(s, w), Alike(s, t) PROVE SoundIn(t, w)
BY DEF SoundIn, Alike

(* A list's answer joins a line: it comes last, unless it is a deletion    *)
(* behind another.                                                         *)
LEMMA RelistedLine ==
    ASSUME NEW h \in Memories, NEW L, L \subseteq Cells, \A p \in L : h[p] # NoTool,
           NEW ds \in Seq(DeltasIn(L)), NEW d \in DeltasIn(L), d.type # "Sync", d.type = "Deleted" <=> d.unknown,
           NEW w, SoundIn(ds, w), NEW was, NEW es \in Seq(EventSet), Gone(h, was, News(ds), es)
    PROVE  LET line == F!DedupDeltas(Append(ds, d))
               a == St(h, News(ds), <<>>)
           IN  /\ SoundIn(line, w)
               /\ Gone(h, was, News(line), <<>>)
               /\ St(h, News(line), <<>>) =
                    IF d.type = "Deleted" /\ a # <<>> /\ a[Len(a)].obj = NoTool THEN a
                    ELSE Append(a, DeltaState(h, d))
<1> DEFINE line == F!DedupDeltas(Append(ds, d))
           news == News(ds)
           a == St(h, news, <<>>)
           N == Len(ds)
<1>1. Seq(DeltasIn(L)) \subseteq Seq(DeltasIn(Cells)) /\ DeltasIn(L) \subseteq DeltasIn(Cells)
  <2>1. DeltasIn(L) \subseteq DeltasIn(Cells)
    BY DEF DeltasIn
  <2> QED BY <2>1, MoreDeltas
<1>2. ds \in Seq(DeltasIn(Cells)) /\ d \in DeltasIn(Cells) /\ news \in Seq(DeltasIn(L)) /\ news \in Seq(DeltasIn(Cells))
  BY <1>1, NewsType
<1> HIDE DEF news
<1>3. Gone(h, was, news, <<>>)
  BY <1>2, GoneAlone DEF news
<1>4. Len(news) \in Nat /\ Len(a) = Len(news) /\ a \in Seq(StateSet) /\ \A n \in 1..Len(news) : a[n] = DeltaState(h, news[n])
  BY <1>2, StOfDeltas
<1>5. a = <<>> <=> news = <<>>
  BY <1>2, <1>4, EmptySeq
<1>6. ds # <<>> => IF news = <<>> THEN ds[N].type = "Sync" ELSE ds[N] = news[Len(news)]
  BY NewsEnds DEF news
<1>7. ds # <<>> /\ news # <<>> => (ds[N].type = "Deleted" <=> a[Len(a)].obj = NoTool)
  <2> SUFFICES ASSUME ds # <<>>, news # <<>> PROVE ds[N].type = "Deleted" <=> a[Len(a)].obj = NoTool
    OBVIOUS
  <2>1. Len(news) # 0 /\ Len(news) \in 1..Len(news)
    BY <1>2, <1>4, EmptySeq
  <2> DEFINE e == news[Len(news)]
  <2>2. e \in DeltasIn(L)
    BY <1>2, <2>1, ElementOfSeq
  <2>3. a[Len(a)] = DeltaState(h, e) /\ ds[N] = e
    BY <1>4, <1>6, <2>1
  <2> HIDE DEF e, a
  <2>4. e.obj \in Cells /\ h[e.obj] # NoTool /\ Nil \notin Cells
    BY <2>2, CellsArePlaces DEF DeltasIn
  <2> QED BY <2>3, <2>4 DEF DeltaState, At
<1>8. CASE d.type = "Deleted" /\ ds # <<>> /\ ds[N].type = "Deleted"
  <2>1. line \in Seq(DeltasIn(Cells)) /\ Alike(ds, line)
    BY <1>2, <1>8, TombstoneMerged DEF N
  <2>2. SoundIn(line, w)
    BY <2>1, SoundAlike
  <2>3. Alike(news, News(line)) /\ News(line) \in Seq(DeltasIn(Cells))
    BY <1>2, <2>1, AlikeNews, NewsType DEF news
  <2> HIDE DEF line
  <2>4. Gone(h, was, News(line), <<>>) /\ St(h, News(line), <<>>) = a
    BY <1>2, <1>3, <2>3, AlikeStates
  <2>5. a # <<>> /\ a[Len(a)].obj = NoTool
    <3>1. news # <<>>
      BY <1>6, <1>8
    <3> QED BY <1>5, <1>7, <1>8, <3>1
  <2> QED BY <1>8, <2>2, <2>4, <2>5 DEF line, news
<1>9. CASE ~(d.type = "Deleted" /\ ds # <<>> /\ ds[N].type = "Deleted")
  <2>1. line = Append(ds, d)
    BY <1>9, NotMerged DEF N
  <2>2. News(line) = Append(news, d)
    BY <2>1, NewsAppended DEF news
  <2>3. Gone(h, was, News(line), <<>>) /\ St(h, News(line), <<>>) = Append(a, DeltaState(h, d))
    BY <1>2, <1>3, <2>2, AnswerAppended
  <2>4. SoundIn(line, w)
    <3> DEFINE u == Append(ds, d)
    <3>1. N \in Nat /\ Len(u) = N + 1 /\ u[N + 1] = d /\ \A n \in 1..N : u[n] = ds[n]
      OBVIOUS
    <3>2. \A n \in 1..N : (ds[n].unknown => ds[n].type = "Deleted") /\ (ds[n].type = "Sync" => n = 1 /\ ds[n].obj = w)
      BY DEF SoundIn
    <3> HIDE DEF u, N
    <3>3. \A n \in 1..Len(u) : n \in 1..N \/ n = N + 1
      BY <3>1
    <3>4. SoundIn(u, w)
      BY <3>1, <3>2, <3>3 DEF SoundIn
    <3> QED BY <2>1, <3>4 DEF u
  <2>5. ~(d.type = "Deleted" /\ a # <<>> /\ a[Len(a)].obj = NoTool)
    <3>1. a # <<>> => ds # <<>>
      BY <1>5 DEF news, News
    <3> QED BY <1>5, <1>7, <1>9, <3>1
  <2> HIDE DEF line, a
  <2> QED BY <2>3, <2>4, <2>5 DEF line, a, news
<1> QED BY <1>8, <1>9

LEMMA EmptyConcat == ASSUME NEW S, NEW s \in Seq(S) PROVE <<>> \o s = s
OBVIOUS

-----------------------------------------------------------------------------
(* The notifications p as Informer has them.                               *)
NoticesOf(h, p) == [n \in DOMAIN p |-> Notice(h, p[n])]

(* The notifications, one by one, with one more and with one less.         *)
LEMMA NoticesAre ==
    ASSUME NEW h, NEW S, NEW p \in Seq(S)
    PROVE  /\ NoticesOf(h, p) \in Seq({Notice(h, x) : x \in S})
           /\ Len(NoticesOf(h, p)) = Len(p) /\ Len(p) \in Nat
           /\ \A n \in 1..Len(p) : NoticesOf(h, p)[n] = Notice(h, p[n])
<1>1. DOMAIN p = 1..Len(p) /\ Len(p) \in Nat /\ \A n \in 1..Len(p) : p[n] \in S
  BY LenProperties, ElementOfSeq
<1> QED BY <1>1 DEF NoticesOf

LEMMA NoticesAppended ==
    ASSUME NEW h, NEW S, NEW p \in Seq(S), NEW x \in S
    PROVE  NoticesOf(h, Append(p, x)) = Append(NoticesOf(h, p), Notice(h, x))
<1> DEFINE T == {Notice(h, y) : y \in S}
           q == Append(p, x)
           a == NoticesOf(h, p)
           b == NoticesOf(h, q)
           c == Append(a, Notice(h, x))
<1>1. q \in Seq(S) /\ Len(q) = Len(p) + 1 /\ q[Len(p) + 1] = x /\ \A n \in 1..Len(p) : q[n] = p[n]
  OBVIOUS
<1> HIDE DEF q
<1>2. a \in Seq(T) /\ Len(a) = Len(p) /\ Len(p) \in Nat /\ \A n \in 1..Len(p) : a[n] = Notice(h, p[n])
  BY NoticesAre
<1>3. b \in Seq(T) /\ Len(b) = Len(q) /\ \A n \in 1..Len(q) : b[n] = Notice(h, q[n])
  BY <1>1, NoticesAre
<1>4. Notice(h, x) \in T
  OBVIOUS
<1> HIDE DEF a, b, T
<1>5. c \in Seq(T) /\ Len(c) = Len(a) + 1 /\ c[Len(a) + 1] = Notice(h, x) /\ \A n \in 1..Len(a) : c[n] = a[n]
  BY <1>2, <1>4
<1> HIDE DEF c
<1>6. \A n \in 1..Len(b) : b[n] = c[n]
  BY <1>1, <1>2, <1>3, <1>5
<1>7. b = c
  BY <1>1, <1>2, <1>3, <1>5, <1>6, SeqEqual
<1> QED BY <1>7 DEF a, b, c, q

LEMMA NoticesTail ==
    ASSUME NEW h, NEW S, NEW p \in Seq(S), p # <<>>
    PROVE  /\ NoticesOf(h, p) # <<>> /\ Head(NoticesOf(h, p)) = Notice(h, Head(p))
           /\ NoticesOf(h, Tail(p)) = Tail(NoticesOf(h, p))
<1> DEFINE T == {Notice(h, y) : y \in S}
           q == Tail(p)
           a == NoticesOf(h, p)
           b == NoticesOf(h, q)
           c == Tail(a)
<1>1. /\ Len(p) \in Nat \ {0} /\ Head(p) = p[1]
      /\ q \in Seq(S) /\ Len(q) = Len(p) - 1 /\ \A n \in 1..Len(p) - 1 : q[n] = p[n + 1]
  BY EmptySeq, HeadTailProperties
<1> HIDE DEF q
<1>2. a \in Seq(T) /\ Len(a) = Len(p) /\ \A n \in 1..Len(p) : a[n] = Notice(h, p[n])
  BY NoticesAre
<1>3. b \in Seq(T) /\ Len(b) = Len(q) /\ \A n \in 1..Len(q) : b[n] = Notice(h, q[n])
  BY <1>1, NoticesAre
<1> HIDE DEF a, b, T
<1>4. a # <<>>
  BY <1>1, <1>2, EmptySeq
<1>5. c \in Seq(T) /\ Len(c) = Len(a) - 1 /\ Head(a) = a[1] /\ \A n \in 1..Len(a) - 1 : c[n] = a[n + 1]
  BY <1>2, <1>4, HeadTailProperties
<1> HIDE DEF c
<1>6. ASSUME NEW n \in 1..Len(b) PROVE b[n] = c[n]
  <2>1. n \in 1..Len(p) - 1 /\ n \in 1..Len(q) /\ n \in 1..Len(a) - 1 /\ n + 1 \in 1..Len(p)
    BY <1>1, <1>2, <1>3
  <2> QED BY <1>1, <1>2, <1>3, <1>5, <2>1
<1>7. b = c
  BY <1>1, <1>2, <1>3, <1>5, <1>6, SeqEqual
<1>8. Head(a) = Notice(h, Head(p))
  BY <1>1, <1>2, <1>5
<1> QED BY <1>4, <1>7, <1>8 DEF a, b, c, q

-----------------------------------------------------------------------------
(* Tools get younger, and no revision is above the top.                    *)
Older(t, u) == t # NoTool /\ u # NoTool => t.rv <= u.rv

(* No object is younger than the server's last revision.                   *)
Under(t, top) == t # NoTool => t.rv <= top

(* The objects s after "was" come in the order of their revisions.         *)
Rising(was, s, top) ==
    /\ Under(was, top)
    /\ \A n \in 1..Len(s) : Under(s[n].obj, top) /\ Older(was, s[n].obj)
    /\ \A m, n \in 1..Len(s) : m < n => Older(s[m].obj, s[n].obj)

(* A younger object at the end, a first one gone, one object or none: all  *)
(* are in order still.                                                     *)
LEMMA RisingAppended ==
    ASSUME NEW was, NEW s \in Seq(StateSet), NEW top \in Nat, Rising(was, s, top), was \in Tools \cup {NoTool},
           NEW x \in StateSet, NEW new \in Nat, top <= new,
           x.obj # NoTool => top <= x.obj.rv /\ x.obj.rv <= new
    PROVE  Rising(was, Append(s, x), new)
<1> DEFINE t == Append(s, x)
           N == Len(s)
<1>1. /\ N \in Nat /\ Len(t) = N + 1 /\ t[N + 1] = x
      /\ \A n \in 1..N : t[n] = s[n]
  OBVIOUS
<1>2. /\ \A n \in 1..N : s[n].obj \in Tools \cup {NoTool}
      /\ x.obj \in Tools \cup {NoTool}
  <2>1. \A n \in 1..N : s[n] \in StateSet
    BY ElementOfSeq
  <2> QED BY <2>1 DEF StateSet
<1>3. \A u \in Tools : u.rv \in Int
  BY DEF Tools
<1>4. /\ Under(was, top)
      /\ \A n \in 1..N : Under(s[n].obj, top) /\ Older(was, s[n].obj)
      /\ \A m, n \in 1..N : m < n => Older(s[m].obj, s[n].obj)
  BY DEF Rising
<1> HIDE DEF t, N
<1>5. ASSUME NEW u \in Tools \cup {NoTool}, Under(u, top) PROVE Under(u, new) /\ Older(u, x.obj)
  BY <1>2, <1>3, <1>5 DEF Under, Older
<1>6. \A n \in 1..Len(t) : n \in 1..N \/ n = N + 1
  BY <1>1
<1>7. \A n \in 1..Len(t) : Under(t[n].obj, new) /\ Older(was, t[n].obj)
  <2> TAKE n \in 1..Len(t)
  <2>1. CASE n \in 1..N
    BY <1>1, <1>2, <1>4, <1>5, <2>1
  <2>2. CASE n = N + 1
    <3>1. Under(x.obj, new)
      BY DEF Under
    <3> QED BY <1>1, <1>4, <1>5, <2>2, <3>1
  <2> QED BY <1>6, <2>1, <2>2
<1>8. ASSUME NEW m \in 1..Len(t), NEW n \in 1..Len(t), m < n PROVE Older(t[m].obj, t[n].obj)
  <2>1. m \in 1..N
    BY <1>1, <1>8
  <2>2. CASE n \in 1..N
    BY <1>1, <1>4, <1>8, <2>1, <2>2
  <2>3. CASE n = N + 1
    BY <1>1, <1>2, <1>4, <1>5, <2>1, <2>3
  <2> QED BY <1>6, <2>2, <2>3
<1>9. Under(was, new)
  BY <1>4, <1>5
<1> QED BY <1>7, <1>8, <1>9 DEF Rising, t

LEMMA RisingTail ==
    ASSUME NEW was, NEW s \in Seq(StateSet), NEW top \in Nat, Rising(was, s, top), s # <<>>
    PROVE  Rising(s[1].obj, Tail(s), top) /\ Older(was, s[1].obj) /\ Head(s) = s[1]
<1> DEFINE t == Tail(s)
           N == Len(s)
<1>1. /\ N \in Nat \ {0} /\ Len(t) = N - 1 /\ Head(s) = s[1]
      /\ \A n \in 1..N - 1 : t[n] = s[n + 1]
  BY EmptySeq, HeadTailProperties
<1>2. /\ \A n \in 1..N : Under(s[n].obj, top) /\ Older(was, s[n].obj)
      /\ \A m, n \in 1..N : m < n => Older(s[m].obj, s[n].obj)
  BY DEF Rising
<1> HIDE DEF t, N
<1>3. 1 \in 1..N /\ \A n \in 1..Len(t) : n + 1 \in 1..N /\ n \in 1..N - 1 /\ 1 < n + 1
  BY <1>1
<1>4. \A n \in 1..Len(t) : Under(t[n].obj, top) /\ Older(s[1].obj, t[n].obj)
  BY <1>1, <1>2, <1>3
<1>5. ASSUME NEW m \in 1..Len(t), NEW n \in 1..Len(t), m < n PROVE Older(t[m].obj, t[n].obj)
  <2>1. m + 1 < n + 1
    BY <1>1, <1>5
  <2> QED BY <1>1, <1>2, <1>3, <2>1
<1> QED BY <1>1, <1>2, <1>3, <1>4, <1>5 DEF Rising, t

LEMMA RisingOne ==
    ASSUME NEW was, NEW o, NEW lost, NEW top, Under(was, top), Under(o, top), Older(was, o)
    PROVE  Rising(was, <<[obj |-> o, lost |-> lost]>>, top)
<1> DEFINE x == [obj |-> o, lost |-> lost]
<1>1. x.obj = o
  OBVIOUS
<1> HIDE DEF x
<1>2. Len(<<x>>) = 1 /\ <<x>>[1] = x /\ \A n \in 1..1 : n = 1
  OBVIOUS
<1>3. Rising(was, <<x>>, top)
  BY <1>1, <1>2 DEF Rising
<1> QED BY <1>3 DEF x

(* A list keeps some of the states and adds what the server has, or that   *)
(* it has nothing.                                                         *)
LEMMA RisingRelisted ==
    ASSUME NEW was \in Tools \cup {NoTool}, NEW s \in Seq(StateSet), NEW top,
           Rising(was, s, top), NEW now \in Tools \cup {NoTool}, Under(now, top),
           now # NoTool => IF s = <<>> THEN was = now ELSE s[Len(s)].obj = now,
           NEW n \in 0..Len(s), NEW r, \A i \in 1..n : r[i] = s[i],
           Len(r) = n \/ (Len(r) = n + 1 /\ r[n + 1].obj \in {now, NoTool})
    PROVE  Rising(was, r, top)
<1> DEFINE N == Len(s)
<1>1. /\ N \in Nat /\ n \in 0..N /\ (s = <<>> <=> N = 0)
      /\ \A i \in 1..N : s[i] \in StateSet
  BY EmptySeq, ElementOfSeq
<1>2. \A i \in 1..N : s[i].obj \in Tools \cup {NoTool}
  BY <1>1 DEF StateSet
<1>3. /\ Under(was, top)
      /\ \A i \in 1..N : Under(s[i].obj, top) /\ Older(was, s[i].obj)
      /\ \A i, j \in 1..N : i < j => Older(s[i].obj, s[j].obj)
  BY DEF Rising
<1>4. \A t \in Tools \cup {NoTool} : Older(t, t)
  BY DEF Older, Tools
<1>5. \A t : Older(t, NoTool) /\ Under(NoTool, top)
  BY DEF Older, Under
<1> HIDE DEF N
<1>6. Older(was, now) /\ \A i \in 1..N : Older(s[i].obj, now)
  <2>1. CASE now = NoTool
    BY <1>5, <2>1
  <2>2. CASE now # NoTool /\ N = 0
    BY <1>1, <1>4, <2>2
  <2>3. CASE now # NoTool /\ N # 0
    <3>1. s[N].obj = now /\ N \in 1..N
      BY <1>1, <2>3 DEF N
    <3>2. \A i \in 1..N : i < N \/ i = N
      BY <1>1
    <3> QED BY <1>2, <1>3, <1>4, <3>1, <3>2
  <2> QED BY <2>1, <2>2, <2>3
<1>7. \A i \in 1..Len(r) :
          \/ (i \in 1..n /\ i \in 1..N /\ r[i] = s[i])
          \/ (i = n + 1 /\ r[i].obj \in {now, NoTool})
  BY <1>1
<1>8. \A i \in 1..Len(r) : Under(r[i].obj, top) /\ Older(was, r[i].obj)
  BY <1>3, <1>5, <1>6, <1>7
<1>9. ASSUME NEW i \in 1..Len(r), NEW j \in 1..Len(r), i < j PROVE Older(r[i].obj, r[j].obj)
  <2>1. i \in 1..n /\ i \in 1..N /\ r[i] = s[i]
    BY <1>1, <1>7, <1>9
  <2> QED BY <1>3, <1>5, <1>6, <1>7, <1>9, <2>1
<1> QED BY <1>3, <1>8, <1>9 DEF Rising

LEMMA RisingNone ==
    ASSUME NEW was, NEW top, Under(was, top) PROVE Rising(was, <<>>, top)
BY DEF Rising
=============================================================================

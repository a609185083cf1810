--------------------------- MODULE WorkqueueProofs ---------------------------
(***************************************************************************)
(* What each method of a work queue does to it, for any keys: it keeps the *)
(* queue well typed and consistent, and changes no more than it should.    *)
(* Cited by the proofs about the specifications that hold queues.          *)
(***************************************************************************)
EXTENDS Workqueue, TLAPS

(* A queue that is well typed and has the consistency of queue.go's comment. *)
Good(q) == q \in Queues /\ QueueIsDirtyNotProcessing(q)

(* Two queues that differ at most in what is to be handed out. *)
SameDelays(q, r) ==
    /\ r.channel = q.channel
    /\ r.failures = q.failures
    /\ r.shuttingDown = q.shuttingDown

(* What the two operations on the order of keys do to the keys in it. *)
LEMMA RangeAppend ==
    ASSUME NEW S, NEW s \in Seq(S), NEW e \in S
    PROVE  /\ Append(s, e) \in Seq(S)
           /\ Range(Append(s, e)) = Range(s) \cup {e}
           /\ (IsInjective(s) /\ e \notin Range(s)) => IsInjective(Append(s, e))
<1> DEFINE r == Append(s, e)
<1>1. /\ r \in Seq(S) /\ DOMAIN r = 1..Len(s) + 1 /\ DOMAIN s = 1..Len(s)
      /\ Len(s) \in Nat
      /\ r[Len(s) + 1] = e
      /\ \A n \in 1..Len(s) : r[n] = s[n]
  OBVIOUS
<1>2. \A n \in 1..Len(s) + 1 : n \in 1..Len(s) \/ n = Len(s) + 1
  BY <1>1
<1>3. Range(r) = Range(s) \cup {e}
  <2>1. \A x \in Range(r) : x \in Range(s) \cup {e}
    BY <1>1, <1>2 DEF Range
  <2>2. \A x \in Range(s) \cup {e} : x \in Range(r)
    BY <1>1 DEF Range
  <2> QED BY <2>1, <2>2
<1>4. ASSUME IsInjective(s), e \notin Range(s) PROVE IsInjective(r)
  BY <1>1, <1>2, <1>4 DEF Range, IsInjective
<1> QED BY <1>1, <1>3, <1>4

LEMMA RangeTail ==
    ASSUME NEW S, NEW s \in Seq(S), s # <<>>, IsInjective(s)
    PROVE  /\ Head(s) \in S
           /\ Head(s) \in Range(s)
           /\ Tail(s) \in Seq(S)
           /\ Range(Tail(s)) = Range(s) \ {Head(s)}
           /\ IsInjective(Tail(s))
<1> DEFINE t == Tail(s)
<1>1. /\ t \in Seq(S) /\ DOMAIN t = 1..Len(s) - 1 /\ DOMAIN s = 1..Len(s)
      /\ Len(s) \in Nat \ {0}
      /\ Head(s) = s[1] /\ s[1] \in S
      /\ \A n \in 1..Len(s) - 1 : t[n] = s[n + 1]
  OBVIOUS
<1>2. \A n \in 1..Len(s) : n # 1 => (n - 1 \in 1..Len(s) - 1 /\ t[n - 1] = s[n])
  BY <1>1
<1>3. ASSUME NEW x \in Range(s), x # s[1] PROVE x \in Range(t)
  <2>1. PICK n \in 1..Len(s) : x = s[n]
    BY <1>1 DEF Range
  <2>2. n - 1 \in 1..Len(s) - 1 /\ t[n - 1] = x
    BY <2>1, <1>2, <1>3
  <2> QED BY <2>2, <1>1 DEF Range
<1>4. \A x \in Range(t) : x \in Range(s) \ {s[1]}
  BY <1>1 DEF Range, IsInjective
<1>5. IsInjective(t)
  BY <1>1 DEF IsInjective
<1>6. s[1] \in Range(s)
  BY <1>1 DEF Range
<1> QED BY <1>1, <1>3, <1>4, <1>5, <1>6

(* Only the first element leaves, whether it occurs again or not. *)
LEMMA TailKeepsOthers ==
    ASSUME NEW S, NEW s \in Seq(S), s # <<>>
    PROVE  Range(s) \subseteq Range(Tail(s)) \cup {Head(s)}
<1>1. /\ DOMAIN Tail(s) = 1..Len(s) - 1 /\ DOMAIN s = 1..Len(s) /\ Len(s) \in Nat \ {0}
      /\ Head(s) = s[1]
      /\ \A n \in 1..Len(s) - 1 : Tail(s)[n] = s[n + 1]
  OBVIOUS
<1>2. \A n \in 1..Len(s) : n # 1 => (n - 1 \in 1..Len(s) - 1 /\ Tail(s)[n - 1] = s[n])
  BY <1>1
<1>3. ASSUME NEW e \in Range(s), e # Head(s) PROVE e \in Range(Tail(s))
  <2>1. PICK n \in 1..Len(s) : e = s[n]
    BY <1>1 DEF Range
  <2>2. n - 1 \in DOMAIN Tail(s) /\ Tail(s)[n - 1] = e
    BY <1>1, <1>2, <1>3, <2>1
  <2> QED BY <2>2 DEF Range
<1> QED BY <1>3

LEMMA NewQueueGood == Good(NewQueue)
BY DEF Good, Queues, NewQueue, QueueIsDirtyNotProcessing, Range, IsInjective

LEMMA AddGood ==
    ASSUME NEW q, Good(q), NEW item \in Items
    PROVE  /\ Good(Add(q, item))
           /\ Add(q, item).processing = q.processing
           /\ Add(q, item).dirty = IF q.shuttingDown THEN q.dirty ELSE q.dirty \cup {item}
           /\ Add(q, item).waiting = q.waiting
           /\ SameDelays(q, Add(q, item))
<1>1. CASE q.shuttingDown \/ item \in q.dirty
  BY <1>1 DEF Add, Good, Queues, SameDelays
<1>2. CASE ~(q.shuttingDown \/ item \in q.dirty)
  <2> DEFINE r == Add(q, item)
  <2>1. (IF item \in q.processing THEN q.queue ELSE Append(q.queue, item)) \in Seq(Items)
    BY DEF Good, Queues
  <2>2. q.dirty \cup {item} \in SUBSET Items
    BY DEF Good, Queues
  <2>3. r \in Queues
    BY <1>2, <2>1, <2>2 DEF Add, Good, Queues
  <2>4. /\ r.processing = q.processing
        /\ r.dirty = q.dirty \cup {item}
        /\ r.waiting = q.waiting
        /\ r.queue = IF item \in q.processing THEN q.queue ELSE Append(q.queue, item)
    BY <1>2 DEF Add, Good, Queues
  <2>5. SameDelays(q, r)
    BY <1>2 DEF Add, Good, Queues, SameDelays
  <2>6. Range(r.queue) = r.dirty \ r.processing
    BY <2>4, <1>2, RangeAppend DEF Good, Queues, QueueIsDirtyNotProcessing
  <2>7. IsInjective(r.queue)
    BY <2>4, <1>2, RangeAppend DEF Good, Queues, QueueIsDirtyNotProcessing
  <2> QED BY <1>2, <2>3, <2>4, <2>5, <2>6, <2>7 DEF Good, QueueIsDirtyNotProcessing
<1> QED BY <1>1, <1>2

LEMMA GetGood ==
    ASSUME NEW q, Good(q), CanGet(q)
    PROVE  /\ Good(Get(q))
           /\ Head(q.queue) \in q.dirty \ q.processing
           /\ Get(q).processing = q.processing \cup {Head(q.queue)}
           /\ Get(q).dirty = q.dirty \ {Head(q.queue)}
           /\ Get(q).waiting = q.waiting
           /\ SameDelays(q, Get(q))
<1> DEFINE r == Get(q)
<1>1. /\ Head(q.queue) \in Items
      /\ Head(q.queue) \in q.dirty \ q.processing
      /\ Tail(q.queue) \in Seq(Items)
      /\ Range(Tail(q.queue)) = Range(q.queue) \ {Head(q.queue)}
      /\ IsInjective(Tail(q.queue))
  BY RangeTail DEF Good, Queues, CanGet, QueueIsDirtyNotProcessing
<1>2. /\ q.processing \cup {Head(q.queue)} \in SUBSET Items
      /\ q.dirty \ {Head(q.queue)} \in SUBSET Items
  BY <1>1 DEF Good, Queues
<1>3. r \in Queues
  BY <1>1, <1>2 DEF Get, Good, Queues
<1>4. /\ r.processing = q.processing \cup {Head(q.queue)}
      /\ r.dirty = q.dirty \ {Head(q.queue)}
      /\ r.queue = Tail(q.queue)
      /\ r.waiting = q.waiting
  BY DEF Get, Good, Queues
<1>5. SameDelays(q, r)
  BY DEF Get, Good, Queues, SameDelays
<1>6. Range(r.queue) = r.dirty \ r.processing
  BY <1>1, <1>4 DEF Good, QueueIsDirtyNotProcessing
<1> QED BY <1>1, <1>3, <1>4, <1>5, <1>6 DEF Good, QueueIsDirtyNotProcessing

LEMMA DoneGood ==
    ASSUME NEW q, Good(q), NEW item \in q.processing
    PROVE  /\ Good(Done(q, item))
           /\ Done(q, item).processing = q.processing \ {item}
           /\ Done(q, item).dirty = q.dirty
           /\ Done(q, item).waiting = q.waiting
           /\ SameDelays(q, Done(q, item))
<1> DEFINE r == Done(q, item)
<1>1. (IF item \in q.dirty THEN Append(q.queue, item) ELSE q.queue) \in Seq(Items)
  BY DEF Good, Queues
<1>2. q.processing \ {item} \in SUBSET Items
  BY DEF Good, Queues
<1>3. r \in Queues
  BY <1>1, <1>2 DEF Done, Good, Queues
<1>4. /\ r.processing = q.processing \ {item}
      /\ r.dirty = q.dirty
      /\ r.waiting = q.waiting
      /\ r.queue = IF item \in q.dirty THEN Append(q.queue, item) ELSE q.queue
  BY DEF Done, Good, Queues
<1>5. SameDelays(q, r)
  BY DEF Done, Good, Queues, SameDelays
<1>6. Range(r.queue) = r.dirty \ r.processing
  BY <1>4, RangeAppend DEF Good, Queues, QueueIsDirtyNotProcessing
<1>7. IsInjective(r.queue)
  BY <1>4, RangeAppend DEF Good, Queues, QueueIsDirtyNotProcessing
<1> QED BY <1>3, <1>4, <1>5, <1>6, <1>7 DEF Good, QueueIsDirtyNotProcessing

-----------------------------------------------------------------------------
(* The delayed adds touch neither the order nor the processing set, except  *)
(* through Add.                                                             *)
LEMMA AddRateLimitedGood ==
    ASSUME NEW q, Good(q), NEW item \in Items
    PROVE  /\ Good(AddRateLimited(q, item))
           /\ AddRateLimited(q, item).processing = q.processing
           /\ AddRateLimited(q, item).dirty = q.dirty
           /\ AddRateLimited(q, item).shuttingDown = q.shuttingDown
           /\ AddRateLimited(q, item).channel =
                 IF q.shuttingDown THEN q.channel ELSE Append(q.channel, item)
<1> DEFINE r == AddRateLimited(q, item)
<1>1. /\ q.failures \cup {item} \in SUBSET Items
      /\ (IF q.shuttingDown THEN q.channel ELSE Append(q.channel, item)) \in Seq(Items)
  BY DEF Good, Queues
<1>2. r \in Queues
  BY <1>1 DEF AddRateLimited, Good, Queues
<1>3. /\ r.processing = q.processing
      /\ r.dirty = q.dirty
      /\ r.queue = q.queue
      /\ r.shuttingDown = q.shuttingDown
      /\ r.channel = IF q.shuttingDown THEN q.channel ELSE Append(q.channel, item)
  BY DEF AddRateLimited, Good, Queues
<1> QED BY <1>2, <1>3 DEF Good, QueueIsDirtyNotProcessing

LEMMA ReceiveGood ==
    ASSUME NEW q, Good(q), CanReceive(q), NEW r \in Received(q)
    PROVE  /\ Good(r)
           /\ r.processing = q.processing
           /\ r.channel = Tail(q.channel)
           /\ r.shuttingDown = q.shuttingDown
           /\ r.dirty = q.dirty \/ r.dirty = q.dirty \cup {Head(q.channel)}
           /\ Head(q.channel) \in Items
<1>1. /\ q.channel \in Seq(Items)
      /\ Head(q.channel) \in Items
      /\ Tail(q.channel) \in Seq(Items)
      /\ q.waiting \cup {Head(q.channel)} \in SUBSET Items
  BY DEF Good, Queues, CanReceive
<1>2. CASE r = ReceiveAndWait(q)
  <2>1. r \in Queues
    BY <1>1, <1>2 DEF ReceiveAndWait, Good, Queues
  <2>2. /\ r.processing = q.processing
        /\ r.dirty = q.dirty
        /\ r.queue = q.queue
        /\ r.channel = Tail(q.channel)
        /\ r.shuttingDown = q.shuttingDown
    BY <1>2 DEF ReceiveAndWait, Good, Queues
  <2> QED BY <1>1, <2>1, <2>2 DEF Good, QueueIsDirtyNotProcessing
<1>3. CASE r = ReceiveAndAdd(q)
  <2> DEFINE p == [q EXCEPT !.channel = Tail(@)]
  <2>1. p \in Queues
    BY <1>1 DEF Good, Queues
  <2>2. /\ p.processing = q.processing
        /\ p.dirty = q.dirty
        /\ p.queue = q.queue
        /\ p.channel = Tail(q.channel)
        /\ p.shuttingDown = q.shuttingDown
    BY DEF Good, Queues
  <2>3. Good(p)
    BY <2>1, <2>2 DEF Good, QueueIsDirtyNotProcessing
  <2> HIDE DEF p
  <2>4. r = Add(p, Head(q.channel))
    BY <1>3 DEF ReceiveAndAdd, p
  <2>5. /\ Good(r)
        /\ r.processing = p.processing
        /\ r.dirty = IF p.shuttingDown THEN p.dirty ELSE p.dirty \cup {Head(q.channel)}
        /\ SameDelays(p, r)
    BY <1>1, <2>3, <2>4, AddGood
  <2> QED BY <1>1, <2>2, <2>5 DEF SameDelays
<1> QED BY <1>2, <1>3 DEF Received

LEMMA FireGood ==
    ASSUME NEW q, Good(q), NEW item \in Items
    PROVE  /\ Good(Fire(q, item))
           /\ Fire(q, item).processing = q.processing
           /\ Fire(q, item).dirty = IF q.shuttingDown THEN q.dirty ELSE q.dirty \cup {item}
           /\ Fire(q, item).channel = q.channel
           /\ Fire(q, item).shuttingDown = q.shuttingDown
<1> DEFINE p == [q EXCEPT !.waiting = @ \ {item}]
<1>1. p \in Queues
  BY DEF Good, Queues
<1>2. /\ p.processing = q.processing
      /\ p.dirty = q.dirty
      /\ p.queue = q.queue
      /\ p.channel = q.channel
      /\ p.shuttingDown = q.shuttingDown
  BY DEF Good, Queues
<1>3. Good(p)
  BY <1>1, <1>2 DEF Good, QueueIsDirtyNotProcessing
<1> HIDE DEF p
<1>4. Fire(q, item) = Add(p, item)
  BY DEF Fire, p
<1> QED BY <1>2, <1>3, <1>4, AddGood DEF SameDelays

LEMMA ForgetGood ==
    ASSUME NEW q, Good(q), NEW item
    PROVE  /\ Good(Forget(q, item))
           /\ Forget(q, item).processing = q.processing
           /\ Forget(q, item).dirty = q.dirty
           /\ Forget(q, item).channel = q.channel
           /\ Forget(q, item).shuttingDown = q.shuttingDown
BY DEF Good, Queues, Forget, QueueIsDirtyNotProcessing

LEMMA ShutDownGood ==
    ASSUME NEW q, Good(q)
    PROVE  /\ Good(ShutDown(q))
           /\ ShutDown(q).processing = q.processing
           /\ ShutDown(q).dirty = q.dirty
           /\ ShutDown(q).channel = q.channel
           /\ ShutDown(q).shuttingDown
BY DEF Good, Queues, ShutDown, QueueIsDirtyNotProcessing

-----------------------------------------------------------------------------
(* The types alone, of any queue.                                          *)
LEMMA AddTyped ==
    ASSUME NEW q \in Queues, NEW item \in Items
    PROVE  Add(q, item) \in Queues
<1>1. /\ (IF item \in q.processing THEN q.queue ELSE Append(q.queue, item)) \in Seq(Items)
      /\ q.dirty \cup {item} \in SUBSET Items
  BY DEF Queues
<1> QED BY <1>1 DEF Add, Queues

LEMMA NewQueueTyped == NewQueue \in Queues
BY DEF NewQueue, Queues

LEMMA MethodsTyped ==
    ASSUME NEW q \in Queues, NEW item \in Items
    PROVE  /\ AddRateLimited(q, item) \in Queues
           /\ Forget(q, item) \in Queues
           /\ Done(q, item) \in Queues
           /\ Fire(q, item) \in Queues
<1>1. AddRateLimited(q, item) \in Queues
  <2>1. /\ q.failures \cup {item} \in SUBSET Items
        /\ (IF q.shuttingDown THEN q.channel ELSE Append(q.channel, item)) \in Seq(Items)
    BY DEF Queues
  <2> QED BY <2>1 DEF AddRateLimited, Queues
<1>2. Forget(q, item) \in Queues
  BY DEF Forget, Queues
<1>3. Done(q, item) \in Queues
  <2>1. /\ q.processing \ {item} \in SUBSET Items
        /\ (IF item \in q.dirty THEN Append(q.queue, item) ELSE q.queue) \in Seq(Items)
    BY DEF Queues
  <2> QED BY <2>1 DEF Done, Queues
<1>4. Fire(q, item) \in Queues
  <2>1. [q EXCEPT !.waiting = @ \ {item}] \in Queues
    BY DEF Queues
  <2> QED BY <2>1, AddTyped DEF Fire
<1> QED BY <1>1, <1>2, <1>3, <1>4

LEMMA GetTyped ==
    ASSUME NEW q \in Queues, CanGet(q)
    PROVE  Head(q.queue) \in Items /\ Get(q) \in Queues
<1>1. Head(q.queue) \in Items /\ Tail(q.queue) \in Seq(Items)
  BY DEF CanGet, Queues
<1>2. /\ q.processing \cup {Head(q.queue)} \in SUBSET Items
      /\ q.dirty \ {Head(q.queue)} \in SUBSET Items
  BY <1>1 DEF Queues
<1> QED BY <1>1, <1>2 DEF Get, Queues

LEMMA ReceivedTyped ==
    ASSUME NEW q \in Queues, CanReceive(q)
    PROVE  Received(q) \subseteq Queues
<1>1. /\ Head(q.channel) \in Items
      /\ Tail(q.channel) \in Seq(Items)
      /\ q.waiting \cup {Head(q.channel)} \in SUBSET Items
  BY DEF Queues, CanReceive
<1>2. ReceiveAndWait(q) \in Queues
  BY <1>1 DEF ReceiveAndWait, Queues
<1>3. [q EXCEPT !.channel = Tail(@)] \in Queues
  BY <1>1 DEF Queues
<1>4. ReceiveAndAdd(q) \in Queues
  BY <1>1, <1>3, AddTyped DEF ReceiveAndAdd
<1> QED BY <1>2, <1>4 DEF Received
=============================================================================

----------------------------- MODULE Lifecycle -----------------------------
(***************************************************************************)
(* One life of the process: main (src/main.go) installs the signal         *)
(* handler, builds clients and informer factories, lets NewController ask  *)
(* the factories for its informers, starts them and calls Run, which waits *)
(* for the caches, starts the workers and blocks until stopCh is closed.   *)
(*                                                                         *)
(* What the informers hold is left to ToolInformer, what the workers do to *)
(* PodBuggerTool; here an informer has listed its objects or not, and a    *)
(* queue holds so many items.                                              *)
(***************************************************************************)
EXTENDS Integers, Sequences

CONSTANTS
    Threads,       \* 1..threadiness: the workers of each kind
    MaxSignals,    \* bound: signals sent to the process
    MaxBacklog     \* bound: items of a queue

ASSUME LifecycleAssumption == MaxSignals \in Nat /\ MaxBacklog \in Nat

VARIABLES
    main,          \* the statement the main goroutine is at
    exit,          \* how the process ended, or "no"
    (* src/pkg/signals *)
    sent,          \* signals sent so far
    notified,      \* signal.Notify has been called
    c,             \* signals in the buffered channel c
    listener,      \* which signal the goroutine of SetupSignalHandler awaits
    stopCh,        \* "open" or "closed"
    (* informer factories *)
    informers,     \* informers[k]: the informer registered for kind k, or 0
    started,       \* startedInformers
    made,          \* all informers ever made; an informer is its index
    (* the controller *)
    wired,         \* how many requests of NewController have been answered
    uses,          \* uses[k][role]: the informer behind a field, or 0
    queue,         \* queue[q]: items in workqueue and workqueuePods
    shutDown,      \* the queues that are shutting down
    worker         \* worker[w]: where a worker is

signalVars == <<sent, notified, c, listener, stopCh>>
factoryVars == <<informers, started, made>>
queueVars == <<queue, shutDown, worker>>
vars == <<main, exit, signalVars, factoryVars, wired, uses, queueVars>>

KubeKinds == {"deployments", "pods"}
PbtKinds == {"podbuggertools"}
Kinds == KubeKinds \cup PbtKinds
Queues == {"podbuggertools", "pods"}
Workers == Queues \X Threads

(* What NewController asks the factories for, in this order: the Lister    *)
(* and the HasSynced of each kind, then the informers to add handlers to.  *)
Roles == {"lister", "synced", "handlers"}
Requests == << <<"deployments", "lister">>, <<"deployments", "synced">>,
               <<"pods", "lister">>, <<"pods", "synced">>,
               <<"podbuggertools", "lister">>, <<"podbuggertools", "synced">>,
               <<"podbuggertools", "handlers">>, <<"pods", "handlers">> >>

Statements == {"SetupSignalHandler", "BuildConfigFromFlags", "kubeClient", "pbtClient",
               "discoveryClient", "NewController", "startKube", "startPbt", "firstCheck", "polling",
               "startWorkers", "blocked", "returnNil", "returnError", "nilReturned",
               "errorReturned", "end"}
Exits == {"no", "success", "fatal", "secondSignal", "killed"}

(* A new factory has made no informer and started none. *)
NewSharedInformerFactory ==
    /\ informers = [k \in Kinds |-> 0]
    /\ started = {}

Init ==
    /\ main = "SetupSignalHandler"
    /\ exit = "no"
    /\ sent = 0 /\ notified = FALSE /\ c = 0 /\ listener = "none" /\ stopCh = "open"
    /\ NewSharedInformerFactory
    /\ made = <<>>
    /\ wired = 0
    /\ uses = [k \in Kinds |-> [role \in Roles |-> 0]]
    /\ queue = [q \in Queues |-> 0]
    /\ shutDown = {}
    /\ worker = [w \in Workers |-> "none"]

Alive == exit = "no"
Goto(from, to) == Alive /\ main = from /\ main' = to
Ends(how) == exit' = how
StopRequested == stopCh = "closed"

-----------------------------------------------------------------------------
(* Signals *)

(* Mutant of SendSignal: every signal finds a place. *)
SendSignalUnbounded ==
    /\ Alive
    /\ sent < MaxSignals
    /\ sent' = sent + 1
    /\ IF notified THEN c' = c + 1 /\ UNCHANGED exit ELSE Ends("killed") /\ UNCHANGED c
    /\ UNCHANGED <<main, notified, listener, stopCh, factoryVars, wired, uses, queueVars>>

(* A signal for which nobody asked ends the process; otherwise it is put   *)
(* into the channel, or dropped when the two places there are taken.       *)
SendSignal ==
    /\ Alive
    /\ sent < MaxSignals
    /\ sent' = sent + 1
    /\ IF notified
       THEN c' = (IF c < 2 THEN c + 1 ELSE c) /\ UNCHANGED exit
       ELSE Ends("killed") /\ UNCHANGED c
    /\ UNCHANGED <<main, notified, listener, stopCh, factoryVars, wired, uses, queueVars>>

SetupSignalHandler ==
    /\ Goto("SetupSignalHandler", "BuildConfigFromFlags")
    /\ notified' = TRUE
    /\ listener' = "first"
    /\ UNCHANGED <<exit, sent, c, stopCh, factoryVars, wired, uses, queueVars>>

(* The goroutine: <-c; close(stop); <-c; os.Exit(1) *)
FirstSignal ==
    /\ Alive
    /\ listener = "first" /\ c > 0
    /\ c' = c - 1
    /\ listener' = "second"
    /\ stopCh' = "closed"
    /\ UNCHANGED <<main, exit, sent, notified, factoryVars, wired, uses, queueVars>>

SecondSignal ==
    /\ Alive
    /\ listener = "second" /\ c > 0
    /\ c' = c - 1
    /\ Ends("secondSignal")
    /\ UNCHANGED <<main, sent, notified, listener, stopCh, factoryVars, wired, uses, queueVars>>

-----------------------------------------------------------------------------
(* main, up to controller.Run *)

(* klog.Fatalf exits with 255. *)
Fatal(at) ==
    /\ Goto(at, "end")
    /\ Ends("fatal")
    /\ UNCHANGED <<signalVars, factoryVars, wired, uses, queueVars>>

Passes(from, to) ==
    /\ Goto(from, to)
    /\ UNCHANGED <<exit, signalVars, factoryVars, wired, uses, queueVars>>

BuildConfigFromFlags ==
    Fatal("BuildConfigFromFlags") \/ Passes("BuildConfigFromFlags", "kubeClient")

NewKubeClient == Fatal("kubeClient") \/ Passes("kubeClient", "pbtClient")

(* The typed client has its defaults set, then asks for a REST client ... *)
TypedClient == Fatal("pbtClient") \/ Passes("pbtClient", "discoveryClient")

(* ... and the clientset, which main's configuration gives no QPS and so   *)
(* no rate limiter, adds a discovery client.                               *)
NewForConfig ==
    TypedClient \/ Fatal("discoveryClient") \/ Passes("discoveryClient", "NewController")

(* An informer that has not run, of kind k. *)
NewInformer(k) == [kind |-> k, phase |-> "made", synced |-> FALSE, handled |-> FALSE]

(* Mutant of InformerFor: it makes a new informer for every request. *)
InformerForAnew(k) == Len(made) + 1

(* factory.InformerFor: the informer of kind k, if need be a new one. *)
InformerFor(k) == IF informers[k] # 0 THEN informers[k] ELSE Len(made) + 1

(* The next of NewController's requests: Lister() and Informer() both come *)
(* to InformerFor; AddEventHandler gives the informer a listener.          *)
WireInformer ==
    LET k == Requests[wired + 1][1]
        role == Requests[wired + 1][2]
        id == InformerFor(k)
        all == IF id > Len(made) THEN Append(made, NewInformer(k)) ELSE made
    IN /\ Alive /\ main = "NewController"
       /\ wired < Len(Requests)
       /\ wired' = wired + 1
       /\ informers' = [informers EXCEPT ![k] = id]
       /\ made' = IF role = "handlers" THEN [all EXCEPT ![id].handled = TRUE] ELSE all
       /\ uses' = [uses EXCEPT ![k][role] = id]
       /\ UNCHANGED <<main, exit, signalVars, started, queueVars>>

ControllerIsMade ==
    /\ wired = Len(Requests)
    /\ Passes("NewController", "startKube")

(* Mutant of ToStart: an informer without handlers is not started. *)
ToStartHandled(kinds) ==
    {k \in kinds \ started : informers[k] # 0 /\ made[informers[k]].handled}

(* The informers that factory.Start runs: registered, not yet started. *)
ToStart(kinds) == {k \in kinds \ started : informers[k] # 0}

StartFactory(kinds) ==
    /\ started' = started \cup ToStart(kinds)
    /\ made' = [id \in DOMAIN made |->
                   IF \E k \in ToStart(kinds) : informers[k] = id
                   THEN [made[id] EXCEPT !.phase = "started"] ELSE made[id]]
    /\ UNCHANGED <<exit, signalVars, informers, wired, uses, queueVars>>

StartKube == Goto("startKube", "startPbt") /\ StartFactory(KubeKinds)
StartPbt == Goto("startPbt", "firstCheck") /\ StartFactory(PbtKinds)

-----------------------------------------------------------------------------
(* Controller.Run *)

HasSynced(k) == uses[k]["synced"] # 0 /\ made[uses[k]["synced"]].synced

(* Mutant of CachesSynced: one cache is enough. *)
OneCacheSynced == \E k \in Kinds : HasSynced(k)

(* The condition WaitForCacheSync polls. *)
CachesSynced == \A k \in Kinds : HasSynced(k)

(* Its first check; then it looks whether to stop before it polls. *)
FirstCheck ==
    IF CachesSynced THEN Passes("firstCheck", "startWorkers")
    ELSE IF StopRequested THEN Passes("firstCheck", "returnError")
    ELSE Passes("firstCheck", "polling")

(* Mutant of GiveUp: the result of WaitForCacheSync is ignored. *)
GiveUpAndGoOn == StopRequested /\ Passes("polling", "startWorkers")

(* A tick finds the caches synced, or stopCh is closed: when both are so,  *)
(* select may take either.                                                 *)
TickFindsThemSynced == CachesSynced /\ Passes("polling", "startWorkers")
GiveUp == StopRequested /\ Passes("polling", "returnError")

StartWorkers ==
    /\ Goto("startWorkers", "blocked")
    /\ worker' = [w \in Workers |-> "spawned"]
    /\ UNCHANGED <<exit, signalVars, factoryVars, wired, uses, queue, shutDown>>

(* <-stopCh *)
Unblock == StopRequested /\ Passes("blocked", "returnNil")

(* The deferred c.workqueue.ShutDown; workqueuePods is not shut down. *)
RunReturns(from, to) ==
    /\ Goto(from, to)
    /\ shutDown' = shutDown \cup {"podbuggertools"}
    /\ UNCHANGED <<exit, signalVars, factoryVars, wired, uses, queue, worker>>

(* Mutant of Finish: main waits for the workers that Run has started. *)
FinishAfterWorkers(from, how) ==
    /\ Goto(from, "end")
    /\ \A w \in Workers : worker[w] \in {"none", "gone"}
    /\ Ends(how)
    /\ UNCHANGED <<signalVars, factoryVars, wired, uses, queueVars>>

(* main returns, or calls Fatalf because Run returned an error: the        *)
(* goroutines end wherever they are.                                       *)
Finish(from, how) ==
    /\ Goto(from, "end")
    /\ Ends(how)
    /\ UNCHANGED <<signalVars, factoryVars, wired, uses, queueVars>>

Main ==
    \/ SetupSignalHandler \/ BuildConfigFromFlags \/ NewKubeClient \/ NewForConfig
    \/ WireInformer \/ ControllerIsMade \/ StartKube \/ StartPbt
    \/ FirstCheck \/ TickFindsThemSynced \/ GiveUp \/ StartWorkers \/ Unblock
    \/ RunReturns("returnNil", "nilReturned") \/ RunReturns("returnError", "errorReturned")
    \/ Finish("nilReturned", "success") \/ Finish("errorReturned", "fatal")

-----------------------------------------------------------------------------
(* The goroutines of the informers *)

InformerGoes(id, from, to) ==
    /\ Alive
    /\ id \in DOMAIN made
    /\ made[id].phase \in from
    /\ made' = [made EXCEPT ![id].phase = to,
                           ![id].synced = @ \/ to = "watching"]
    /\ UNCHANGED <<main, exit, signalVars, informers, started, wired, uses, queueVars>>

(* Reflector.Run: the list is requested unless stopCh is closed; its       *)
(* objects enter the cache; a closed stopCh ends everything.               *)
Lists(id) == ~StopRequested /\ InformerGoes(id, {"started"}, "listing")
Syncs(id) == InformerGoes(id, {"listing"}, "watching")
Stops(id) == StopRequested /\ InformerGoes(id, {"started", "listing", "watching"}, "stopped")

(* A handler puts a key into its queue, which ignores it when shutting     *)
(* down.                                                                   *)
Enqueue(q) ==
    /\ Alive
    /\ \E id \in DOMAIN made :
           made[id].kind = q /\ made[id].handled /\ made[id].phase \in {"listing", "watching"}
    /\ q \notin shutDown
    /\ queue[q] < MaxBacklog
    /\ queue' = [queue EXCEPT ![q] = @ + 1]
    /\ UNCHANGED <<main, exit, signalVars, factoryVars, wired, uses, shutDown, worker>>

-----------------------------------------------------------------------------
(* The goroutines of the workers: worker <<q, i>> serves queue q *)

WorkerGoes(w, from, to) ==
    /\ Alive
    /\ worker[w] = from
    /\ worker' = [worker EXCEPT ![w] = to]
    /\ UNCHANGED <<main, exit, signalVars, factoryVars, wired, uses, shutDown>>

(* wait.Until looks at stopCh before it calls the worker's loop ... *)
Begin(w) ==
    /\ WorkerGoes(w, "spawned", IF StopRequested THEN "gone" ELSE "getting")
    /\ UNCHANGED queue

(* ... which does not look at it: only its queue can end the loop.         *)
TakeItem(w) ==
    /\ queue[w[1]] > 0
    /\ WorkerGoes(w, "getting", "busy")
    /\ queue' = [queue EXCEPT ![w[1]] = @ - 1]

FinishItem(w) == WorkerGoes(w, "busy", "getting") /\ UNCHANGED queue

LeaveLoop(w) ==
    /\ w[1] \in shutDown /\ queue[w[1]] = 0
    /\ WorkerGoes(w, "getting", "gone")
    /\ UNCHANGED queue

Work(w) == Begin(w) \/ TakeItem(w) \/ FinishItem(w) \/ LeaveLoop(w)

-----------------------------------------------------------------------------
Next ==
    \/ SendSignal \/ FirstSignal \/ SecondSignal
    \/ Main
    \/ \E id \in DOMAIN made : Lists(id) \/ Syncs(id) \/ Stops(id)
    \/ \E q \in Queues : Enqueue(q)
    \/ \E w \in Workers : Work(w)

(* Goroutines are scheduled, and the API server answers lists. *)
Fairness ==
    /\ WF_vars(FirstSignal) /\ WF_vars(SecondSignal)
    /\ WF_vars(Main)
    /\ \A id \in 1..Len(Requests) : WF_vars(Lists(id)) /\ WF_vars(Syncs(id)) /\ WF_vars(Stops(id))
    /\ \A w \in Workers : WF_vars(Work(w))

Spec == Init /\ [][Next]_vars /\ Fairness

-----------------------------------------------------------------------------
(* The types; the channel c never holds more than its two places. *)
TypeOK ==
    /\ main \in Statements /\ exit \in Exits
    /\ sent \in 0..MaxSignals /\ notified \in BOOLEAN /\ c \in 0..2
    /\ listener \in {"none", "first", "second"} /\ stopCh \in {"open", "closed"}
    /\ made \in Seq([kind : Kinds, synced : BOOLEAN, handled : BOOLEAN,
                     phase : {"made", "started", "listing", "watching", "stopped"}])
    /\ informers \in [Kinds -> 0..Len(made)]
    /\ started \subseteq Kinds
    /\ wired \in 0..Len(Requests)
    /\ uses \in [Kinds -> [Roles -> 0..Len(made)]]
    /\ queue \in [Queues -> 0..MaxBacklog] /\ shutDown \subseteq Queues
    /\ worker \in [Workers -> {"none", "spawned", "getting", "busy", "gone"}]

(* The lister the workers read, the HasSynced that Run waits for and the   *)
(* handlers of a kind belong to one informer, which is the one the factory *)
(* runs: the controller never waits for, or reads, an informer that nobody *)
(* started.                                                                *)
InformersAreShared ==
    /\ \A k \in Kinds, role \in Roles : uses[k][role] \in {0, informers[k]}
    /\ main \in {"firstCheck", "polling", "startWorkers", "blocked"} =>
           \A id \in DOMAIN made : made[id].phase # "made"

(* A worker that handles an item reads caches that hold their first list,  *)
(* all three of them, also when signals arrive during the start.           *)
WorkersSeeFullCaches ==
    \A w \in Workers : worker[w] = "busy" =>
        \A k \in Kinds : uses[k]["lister"] # 0 /\ made[uses[k]["lister"]].synced

(* How the process ended tells how far it came: success, only if it was    *)
(* asked to stop once it had served; a fatal error, only if no worker ever *)
(* ran; "secondSignal", only after two.                                   *)
ExitTellsHowFar ==
    /\ exit = "success" => /\ StopRequested
                           /\ CachesSynced
                           /\ \A w \in Workers : worker[w] # "none"
    /\ exit = "fatal" => \A w \in Workers : worker[w] = "none"
    /\ exit = "secondSignal" => StopRequested /\ sent >= 2

(* The start comes to an end: the workers wait for items, unless somebody  *)
(* stopped the process or its configuration was wrong.                     *)
Serves == \A w \in Workers : worker[w] \in {"getting", "busy"}
ServesUnlessStopped == <>(Serves \/ StopRequested \/ ~Alive)

(* A signal ends the process, whatever it is doing: also while it waits    *)
(* for its caches, and although the workers of workqueuePods, which nobody *)
(* shuts down, stay in Get for ever.                                       *)
SignalEndsProcess == c > 0 ~> ~Alive
=============================================================================

--------------------------- MODULE LifecycleProofs ---------------------------
(***************************************************************************)
(* The safety of one life of the process, for any number of workers,       *)
(* signals and items.                                                      *)
(***************************************************************************)
EXTENDS Lifecycle, TLAPS

Informers == [kind : Kinds, synced : BOOLEAN, handled : BOOLEAN,
              phase : {"made", "started", "listing", "watching", "stopped"}]

(* Where main is once NewController has all it asks for ... *)
Wired == {"startKube", "startPbt", "firstCheck", "polling", "startWorkers", "blocked",
          "returnNil", "returnError", "nilReturned", "errorReturned"}

(* ... and once both factories have been started. *)
Running == Wired \ {"startKube", "startPbt"}

SignalsOK ==
    /\ listener = "second" => c + 1 <= sent /\ StopRequested
    /\ c <= sent

(* What was asked for is there, and belongs to the factory's informer. *)
WiringOK ==
    /\ \A k \in Kinds, role \in Roles : uses[k][role] \in {0, informers[k]}
    /\ \A n \in 1..wired : uses[Requests[n][1]][Requests[n][2]] # 0
    /\ \A id \in DOMAIN made : \E k \in Kinds : informers[k] = id
    /\ main \in Wired => wired = Len(Requests)

StartedOK ==
    /\ \A k \in started : informers[k] # 0 /\ made[informers[k]].phase # "made"
    /\ main = "startPbt" => KubeKinds \subseteq started
    /\ main \in Running => Kinds \subseteq started

(* Workers exist once the caches have synced, and only then. *)
ServingOK ==
    /\ main \in {"startWorkers", "blocked", "returnNil", "nilReturned"} => CachesSynced
    /\ main \in {"blocked", "returnNil", "nilReturned"} => \A w \in Workers : worker[w] # "none"
    /\ main \in {"returnNil", "nilReturned"} => StopRequested
    /\ main \notin {"blocked", "returnNil", "nilReturned", "end"}
           => \A w \in Workers : worker[w] = "none"
    /\ (\E w \in Workers : worker[w] # "none") => CachesSynced /\ wired = Len(Requests)

Inv ==
    /\ TypeOK /\ SignalsOK /\ WiringOK /\ StartedOK /\ ServingOK /\ ExitTellsHowFar

-----------------------------------------------------------------------------
LEMMA EightRequests ==
    /\ Len(Requests) = 8
    /\ \A n \in 1..8 : Requests[n] \in Kinds \X Roles
    /\ \A k \in Kinds : /\ \E n \in 1..8 : Requests[n] = <<k, "lister">>
                        /\ \E n \in 1..8 : Requests[n] = <<k, "synced">>
<1>1. Requests[1] = <<"deployments", "lister">> /\ Requests[2] = <<"deployments", "synced">>
  BY DEF Requests
<1>2. Requests[3] = <<"pods", "lister">> /\ Requests[4] = <<"pods", "synced">>
  BY DEF Requests
<1>3. Requests[5] = <<"podbuggertools", "lister">> /\ Requests[6] = <<"podbuggertools", "synced">>
  BY DEF Requests
<1>4. Requests[7] = <<"podbuggertools", "handlers">> /\ Requests[8] = <<"pods", "handlers">>
  BY DEF Requests
<1>5. Len(Requests) = 8
  BY DEF Requests
<1>6. \A n \in 1..8 : Requests[n] \in Kinds \X Roles
  BY <1>1, <1>2, <1>3, <1>4 DEF Kinds, KubeKinds, PbtKinds, Roles
<1>7. \A k \in Kinds : k = "deployments" \/ k = "pods" \/ k = "podbuggertools"
  BY DEF Kinds, KubeKinds, PbtKinds
<1>8. \A k \in Kinds : /\ \E n \in 1..8 : Requests[n] = <<k, "lister">>
                       /\ \E n \in 1..8 : Requests[n] = <<k, "synced">>
  BY <1>1, <1>2, <1>3, <1>7
<1> QED BY <1>5, <1>6, <1>8

(* When all requests are answered, Lister and HasSynced of a kind are its  *)
(* one informer.                                                           *)
LEMMA AllAnswered ==
    ASSUME TypeOK, WiringOK, wired = Len(Requests)
    PROVE  \A k \in Kinds : /\ informers[k] \in DOMAIN made
                            /\ uses[k]["lister"] = informers[k]
                            /\ uses[k]["synced"] = informers[k]
<1> SUFFICES ASSUME NEW k \in Kinds
             PROVE  /\ informers[k] \in DOMAIN made
                    /\ uses[k]["lister"] = informers[k]
                    /\ uses[k]["synced"] = informers[k]
  OBVIOUS
<1>1. uses[k]["lister"] # 0 /\ uses[k]["synced"] # 0
  BY EightRequests DEF WiringOK
<1>2. uses[k]["lister"] = informers[k] /\ uses[k]["synced"] = informers[k]
  BY <1>1 DEF WiringOK, Roles
<1>3. informers[k] \in 0..Len(made) /\ DOMAIN made = 1..Len(made)
  BY DEF TypeOK
<1> QED BY <1>1, <1>2, <1>3

(* The types, in two parts. *)
SimpleTypes ==
    /\ main \in Statements /\ exit \in Exits
    /\ sent \in 0..MaxSignals /\ notified \in BOOLEAN /\ c \in 0..2
    /\ listener \in {"none", "first", "second"} /\ stopCh \in {"open", "closed"}
    /\ started \subseteq Kinds
    /\ wired \in 0..Len(Requests)
    /\ queue \in [Queues -> 0..MaxBacklog] /\ shutDown \subseteq Queues
    /\ worker \in [Workers -> {"none", "spawned", "getting", "busy", "gone"}]

MadeTypes ==
    /\ made \in Seq(Informers)
    /\ informers \in [Kinds -> 0..Len(made)]
    /\ uses \in [Kinds -> [Roles -> 0..Len(made)]]

LEMMA TypeParts == TypeOK <=> SimpleTypes /\ MadeTypes
  BY DEF TypeOK, SimpleTypes, MadeTypes, Informers

LEMMA InitInv == Init => Inv
<1> SUFFICES ASSUME Init PROVE Inv
  OBVIOUS
<1> USE DEF Init, NewSharedInformerFactory
<1>1. SimpleTypes
  <2>1. sent \in 0..MaxSignals /\ c \in 0..2 /\ wired \in 0..Len(Requests)
    BY LifecycleAssumption, EightRequests
  <2>2. queue \in [Queues -> 0..MaxBacklog]
    BY LifecycleAssumption
  <2>3. main \in Statements /\ exit \in Exits
    BY DEF Statements, Exits
  <2> QED BY <2>1, <2>2, <2>3 DEF SimpleTypes
<1>2. MadeTypes
  <2>1. made \in Seq(Informers) /\ Len(made) = 0
    OBVIOUS
  <2> QED BY <2>1 DEF MadeTypes
<1>3. SignalsOK /\ WiringOK /\ StartedOK /\ ServingOK /\ ExitTellsHowFar
  BY DEF SignalsOK, WiringOK, StartedOK, ServingOK, ExitTellsHowFar, Wired, Running
<1> QED BY <1>1, <1>2, <1>3, TypeParts DEF Inv

-----------------------------------------------------------------------------
(* What does not depend on where main is, and what a step of main owes. *)
LEMMA SameCaches ==
    ASSUME UNCHANGED <<made, uses>>
    PROVE  CachesSynced' <=> CachesSynced
  BY DEF CachesSynced, HasSynced

LEMMA MainMoves ==
    ASSUME Inv, UNCHANGED <<signalVars, factoryVars, wired, uses, queueVars>>,
           main' \in Statements, exit' \in Exits,
           main' \in Wired => wired = Len(Requests),
           main' # "startPbt", main' \in Running => Kinds \subseteq started,
           ServingOK', ExitTellsHowFar'
    PROVE  Inv'
<1> USE DEF signalVars, factoryVars, queueVars
<1>1. SimpleTypes'
  BY TypeParts DEF Inv, SimpleTypes, Workers
<1>2. MadeTypes'
  BY TypeParts DEF Inv, MadeTypes
<1>3. SignalsOK'
  BY DEF Inv, SignalsOK, StopRequested
<1>4. WiringOK'
  BY DEF Inv, WiringOK
<1>5. StartedOK'
  BY DEF Inv, StartedOK
<1>6. TypeOK'
  BY <1>1, <1>2 DEF TypeOK, SimpleTypes, MadeTypes, Informers
<1> QED BY <1>3, <1>4, <1>5, <1>6 DEF Inv

LEMMA SignalsInv ==
    ASSUME Inv, SendSignal \/ FirstSignal \/ SecondSignal
    PROVE  Inv'
<1> USE DEF signalVars, factoryVars, queueVars
<1>1. UNCHANGED <<main, informers, started, made, wired, uses, queue, shutDown, worker, notified>>
  BY DEF SendSignal, FirstSignal, SecondSignal
<1>0. /\ sent \in 0..MaxSignals /\ c \in 0..2 /\ exit \in Exits /\ MaxSignals \in Nat
      /\ listener \in {"none", "first", "second"} /\ stopCh \in {"open", "closed"}
  BY LifecycleAssumption DEF Inv, TypeOK
<1>2. /\ sent' \in 0..MaxSignals /\ c' \in 0..2
      /\ listener' \in {"none", "first", "second"} /\ stopCh' \in {"open", "closed"}
      /\ SignalsOK'
  <2>1. SignalsOK
    BY DEF Inv
  <2>2. CASE SendSignal
    BY <1>0, <2>1, <2>2 DEF SendSignal, SignalsOK, StopRequested
  <2>3. CASE FirstSignal
    BY <1>0, <2>1, <2>3 DEF FirstSignal, SignalsOK, StopRequested
  <2>4. CASE SecondSignal
    BY <1>0, <2>1, <2>4 DEF SecondSignal, SignalsOK, StopRequested
  <2> QED BY <2>2, <2>3, <2>4
<1>10. exit = "no" /\ exit' \in {"no", "killed", "secondSignal"}
  BY DEF SendSignal, FirstSignal, SecondSignal, Ends, Alive
<1>3. TypeOK'
  BY <1>1, <1>2, <1>10 DEF Inv, TypeOK, Exits
<1>5. WiringOK' /\ StartedOK'
  BY <1>1 DEF Inv, WiringOK, StartedOK
<1>6. CachesSynced' <=> CachesSynced
  BY <1>1, SameCaches
<1>7. StopRequested => StopRequested'
  BY DEF StopRequested, SendSignal, FirstSignal, SecondSignal
<1>8. ServingOK'
  BY <1>1, <1>6, <1>7 DEF Inv, ServingOK, Workers
<1>9. ExitTellsHowFar'
  <2>1. exit' = "secondSignal" => SecondSignal
    BY <1>10 DEF SendSignal, FirstSignal, Ends
  <2>2. SecondSignal => StopRequested' /\ sent' >= 2
    BY <1>0 DEF Inv, SignalsOK, SecondSignal, StopRequested
  <2> QED BY <1>10, <2>1, <2>2 DEF ExitTellsHowFar
<1> QED BY <1>2, <1>3, <1>5, <1>8, <1>9 DEF Inv

-----------------------------------------------------------------------------
(* main *)

(* The steps of main that do nothing but go on, and those that end it. *)
LEMMA PassesInv ==
    ASSUME NEW from, NEW to \in Statements, Inv, Passes(from, to),
           to \in Wired => wired = Len(Requests),
           to # "startPbt", to \in Running => Kinds \subseteq started,
           to \in {"startWorkers", "returnNil", "nilReturned"} => CachesSynced,
           to \notin {"blocked", "nilReturned", "end"},
           from \notin {"nilReturned", "end"},
           to = "returnNil" <=> from \in {"blocked", "returnNil"},
           to = "returnNil" => StopRequested
    PROVE  Inv'
<1>1. /\ UNCHANGED <<signalVars, factoryVars, wired, uses, queueVars>> /\ exit' = exit
      /\ main = from /\ main' = to /\ exit = "no"
  BY DEF Passes, Goto, Alive
<1>2. CachesSynced' <=> CachesSynced
  BY <1>1, SameCaches DEF factoryVars
<1>3. ServingOK'
  BY <1>1, <1>2 DEF Inv, ServingOK, StopRequested, signalVars, queueVars, Workers
<1>4. ExitTellsHowFar'
  BY <1>1 DEF ExitTellsHowFar
<1>5. exit' \in Exits
  BY <1>1 DEF Exits
<1> QED BY <1>1, <1>3, <1>4, <1>5, MainMoves

LEMMA FatalInv ==
    ASSUME NEW at \in {"BuildConfigFromFlags", "kubeClient", "pbtClient", "discoveryClient"},
           Inv, Fatal(at)
    PROVE  Inv'
<1>1. /\ UNCHANGED <<signalVars, factoryVars, wired, uses, queueVars>>
      /\ main = at /\ main' = "end" /\ exit' = "fatal"
  BY DEF Fatal, Goto, Ends
<1>2. CachesSynced' <=> CachesSynced
  BY <1>1, SameCaches DEF factoryVars
<1>3. \A w \in Workers : worker[w] = "none" /\ worker'[w] = "none"
  BY <1>1 DEF Inv, ServingOK, queueVars
<1>4. ServingOK'
  BY <1>1, <1>2, <1>3 DEF ServingOK, Workers
<1>5. ExitTellsHowFar'
  BY <1>1, <1>3 DEF ExitTellsHowFar, Workers
<1>6. main' \in Statements /\ exit' \in Exits /\ main' \notin Wired /\ main' \notin Running
  BY <1>1 DEF Statements, Exits, Wired, Running
<1> QED BY <1>1, <1>4, <1>5, <1>6, MainMoves

LEMMA FinishInv ==
    ASSUME Inv, Finish("nilReturned", "success") \/ Finish("errorReturned", "fatal")
    PROVE  Inv'
<1>1. UNCHANGED <<signalVars, factoryVars, wired, uses, queueVars>> /\ main' = "end"
  BY DEF Finish, Goto
<1>2. CachesSynced' <=> CachesSynced
  BY <1>1, SameCaches DEF factoryVars
<1>3. ServingOK'
  BY <1>1, <1>2 DEF Inv, ServingOK, queueVars, Workers
<1>4. exit' \in Exits /\ ExitTellsHowFar'
  <2>1. CASE Finish("nilReturned", "success")
    <3>1. main = "nilReturned" /\ exit' = "success"
      BY <2>1 DEF Finish, Goto, Ends
    <3>2. CachesSynced /\ StopRequested /\ \A w \in Workers : worker[w] # "none"
      BY <3>1 DEF Inv, ServingOK
    <3> QED
      BY <1>1, <1>2, <3>1, <3>2
      DEF ExitTellsHowFar, Exits, StopRequested, signalVars, queueVars, Workers
  <2>2. CASE Finish("errorReturned", "fatal")
    <3>1. main = "errorReturned" /\ exit' = "fatal"
      BY <2>2 DEF Finish, Goto, Ends
    <3>2. \A w \in Workers : worker[w] = "none"
      BY <3>1 DEF Inv, ServingOK
    <3> QED BY <1>1, <3>1, <3>2 DEF ExitTellsHowFar, Exits, queueVars, Workers
  <2> QED BY <2>1, <2>2
<1>5. main' \in Statements /\ main' \notin Wired /\ main' \notin Running
  BY <1>1 DEF Statements, Wired, Running
<1> QED BY <1>1, <1>3, <1>4, <1>5, MainMoves

LEMMA SetupInv ==
    ASSUME Inv, SetupSignalHandler
    PROVE  Inv'
<1>1. /\ UNCHANGED <<exit, sent, c, stopCh, factoryVars, wired, uses, queueVars>>
      /\ main = "SetupSignalHandler" /\ main' = "BuildConfigFromFlags"
      /\ notified' = TRUE /\ listener' = "first" /\ exit = "no"
  BY DEF SetupSignalHandler, Goto, Alive
<1>2. CachesSynced' <=> CachesSynced
  BY <1>1, SameCaches DEF factoryVars
<1>3. ServingOK'
  BY <1>1, <1>2 DEF Inv, ServingOK, queueVars, Workers
<1>4. TypeOK'
  BY <1>1 DEF Inv, TypeOK, Statements, factoryVars, queueVars, Workers
<1>5. SignalsOK'
  BY <1>1 DEF Inv, SignalsOK
<1>6. WiringOK' /\ StartedOK'
  BY <1>1 DEF Inv, WiringOK, StartedOK, Wired, Running, factoryVars
<1>7. ExitTellsHowFar'
  BY <1>1 DEF ExitTellsHowFar
<1> QED BY <1>3, <1>4, <1>5, <1>6, <1>7 DEF Inv

LEMMA StartWorkersInv ==
    ASSUME Inv, StartWorkers
    PROVE  Inv'
<1>1. /\ UNCHANGED <<exit, signalVars, factoryVars, wired, uses, queue, shutDown>>
      /\ main = "startWorkers" /\ main' = "blocked" /\ exit = "no"
      /\ worker' = [w \in Workers |-> "spawned"]
  BY DEF StartWorkers, Goto, Alive
<1>2. CachesSynced' /\ wired' = Len(Requests)
  BY <1>1, SameCaches DEF factoryVars, Inv, ServingOK, WiringOK, Wired
<1>3. ServingOK'
  BY <1>1, <1>2 DEF ServingOK, Workers
<1>4. TypeOK'
  BY <1>1 DEF Inv, TypeOK, Statements, factoryVars, signalVars, Workers
<1>5. SignalsOK'
  BY <1>1 DEF Inv, SignalsOK, signalVars, StopRequested
<1>6. WiringOK' /\ StartedOK'
  BY <1>1 DEF Inv, WiringOK, StartedOK, Wired, Running, factoryVars
<1>7. ExitTellsHowFar'
  BY <1>1 DEF ExitTellsHowFar
<1> QED BY <1>3, <1>4, <1>5, <1>6, <1>7 DEF Inv

LEMMA RunReturnsInv ==
    ASSUME Inv, RunReturns("returnNil", "nilReturned") \/ RunReturns("returnError", "errorReturned")
    PROVE  Inv'
<1>1. /\ UNCHANGED <<exit, signalVars, factoryVars, wired, uses, queue, worker>>
      /\ exit = "no" /\ shutDown' = shutDown \cup {"podbuggertools"}
      /\ \/ main = "returnNil" /\ main' = "nilReturned"
         \/ main = "returnError" /\ main' = "errorReturned"
  BY DEF RunReturns, Goto, Alive
<1>2. CachesSynced' <=> CachesSynced
  BY <1>1, SameCaches DEF factoryVars
<1>3. ServingOK'
  BY <1>1, <1>2 DEF Inv, ServingOK, Workers, StopRequested, signalVars
<1>4. shutDown' \subseteq Queues
  BY <1>1 DEF Inv, TypeOK, Queues
<1>5. TypeOK'
  BY <1>1, <1>4 DEF Inv, TypeOK, Statements, factoryVars, signalVars, Workers
<1>6. SignalsOK'
  BY <1>1 DEF Inv, SignalsOK, signalVars, StopRequested
<1>7. WiringOK' /\ StartedOK'
  BY <1>1 DEF Inv, WiringOK, StartedOK, Wired, Running, factoryVars
<1>8. ExitTellsHowFar'
  BY <1>1 DEF ExitTellsHowFar
<1> QED BY <1>3, <1>5, <1>6, <1>7, <1>8 DEF Inv

(* A new informer is registered under its kind, or the registered one is   *)
(* used; uses of other kinds and roles do not change.                      *)
LEMMA WireInv ==
    ASSUME Inv, WireInformer
    PROVE  Inv'
<1> DEFINE k == Requests[wired + 1][1]
           role == Requests[wired + 1][2]
           id == InformerFor(k)
           all == IF id > Len(made) THEN Append(made, NewInformer(k)) ELSE made
<1>1. /\ UNCHANGED <<main, exit, signalVars, started, queueVars>>
      /\ exit = "no" /\ main = "NewController" /\ wired < Len(Requests) /\ wired' = wired + 1
      /\ informers' = [informers EXCEPT ![k] = id]
      /\ made' = IF role = "handlers" THEN [all EXCEPT ![id].handled = TRUE] ELSE all
      /\ uses' = [uses EXCEPT ![k][role] = id]
  BY DEF WireInformer, Alive
<1>2. SimpleTypes /\ MadeTypes
  BY TypeParts DEF Inv
<1>3. wired \in 0..7 /\ Len(Requests) = 8
  BY <1>1, <1>2, EightRequests DEF SimpleTypes
<1>4. k \in Kinds /\ role \in Roles /\ Requests[wired'] = <<k, role>>
  BY <1>1, <1>3, EightRequests
<1> HIDE DEF k, role
<1>5. id \in 1..Len(made) + 1 /\ (informers[k] # 0 => id = informers[k])
  BY <1>2, <1>4 DEF MadeTypes, InformerFor
<1>6. informers[k] = 0 => id = Len(made) + 1
  BY DEF InformerFor
<1> HIDE DEF id
<1>7. NewInformer(k) \in Informers
  BY <1>4 DEF NewInformer, Informers
<1>17. all = IF id > Len(made) THEN Append(made, NewInformer(k)) ELSE made
  OBVIOUS
<1> HIDE DEF all
<1>8. /\ all \in Seq(Informers) /\ id \in 1..Len(all) /\ Len(all) >= Len(made)
      /\ Len(all) \in Nat /\ DOMAIN all = DOMAIN made \cup {id}
  <2>1. CASE id > Len(made)
    BY <1>2, <1>5, <1>7, <1>17, <2>1 DEF MadeTypes
  <2>2. CASE ~(id > Len(made))
    <3>1. all = made
      BY <1>17, <2>2
    <3>2. made \in Seq(Informers) /\ Len(made) \in Nat /\ DOMAIN made = 1..Len(made)
      BY <1>2 DEF MadeTypes
    <3>3. id \in 1..Len(made)
      BY <1>5, <2>2, <3>2
    <3>4. DOMAIN made = DOMAIN made \cup {id}
      BY <3>2, <3>3
    <3> QED BY <3>1, <3>2, <3>3, <3>4
  <2> QED BY <2>1, <2>2
<1>9. /\ made' \in Seq(Informers) /\ Len(made') = Len(all)
      /\ DOMAIN made' = DOMAIN made \cup {id} /\ id \in 1..Len(made')
  <2>1. all[id] \in Informers
    BY <1>8
  <2>2. [all[id] EXCEPT !.handled = TRUE] \in Informers
    BY <2>1 DEF Informers
  <2>3. [all EXCEPT ![id].handled = TRUE] = [all EXCEPT ![id] = [all[id] EXCEPT !.handled = TRUE]]
    BY <1>8
  <2>4. \A x \in Informers : /\ [all EXCEPT ![id] = x] \in Seq(Informers)
                             /\ Len([all EXCEPT ![id] = x]) = Len(all)
                             /\ DOMAIN [all EXCEPT ![id] = x] = DOMAIN all
    BY <1>8
  <2> QED BY <1>1, <1>8, <2>2, <2>3, <2>4
<1>10. MadeTypes'
  BY <1>1, <1>2, <1>4, <1>8, <1>9 DEF MadeTypes
<1>11. SimpleTypes'
  BY <1>1, <1>2, <1>3 DEF SimpleTypes, signalVars, queueVars, Workers
<1>12. TypeOK'
  BY <1>10, <1>11 DEF TypeOK, SimpleTypes, MadeTypes, Informers
<1>13. WiringOK'
  <2>1. \A j \in Kinds, r \in Roles : uses'[j][r] \in {0, informers'[j]}
    BY <1>1, <1>2, <1>4, <1>5 DEF Inv, WiringOK, MadeTypes
  <2>2. \A n \in 1..wired' : uses'[Requests[n][1]][Requests[n][2]] # 0
    <3> SUFFICES ASSUME NEW n \in 1..wired' PROVE uses'[Requests[n][1]][Requests[n][2]] # 0
      OBVIOUS
    <3>1. Requests[n] \in Kinds \X Roles
      BY <1>1, <1>3, EightRequests
    <3>2. n = wired' \/ n \in 1..wired
      BY <1>1, <1>3
    <3> QED BY <1>1, <1>2, <1>4, <1>5, <3>1, <3>2 DEF Inv, WiringOK, MadeTypes
  <2>3. \A i \in DOMAIN made' : \E j \in Kinds : informers'[j] = i
    <3> SUFFICES ASSUME NEW i \in DOMAIN made' PROVE \E j \in Kinds : informers'[j] = i
      OBVIOUS
    <3>1. CASE i = id
      BY <1>1, <1>2, <1>4, <3>1 DEF MadeTypes
    <3>2. CASE i # id
      <4>1. i \in DOMAIN made
        BY <1>9, <3>2
      <4>2. PICK j \in Kinds : informers[j] = i
        BY <4>1 DEF Inv, WiringOK
      <4>3. j # k
        BY <1>2, <1>5, <4>1, <4>2, <3>2 DEF MadeTypes
      <4> QED BY <1>1, <1>2, <4>2, <4>3 DEF MadeTypes
    <3> QED BY <3>1, <3>2
  <2> QED BY <1>1, <2>1, <2>2, <2>3 DEF WiringOK, Wired
<1>14. \A w \in Workers : worker[w] = "none" /\ worker'[w] = "none"
  BY <1>1 DEF Inv, ServingOK, queueVars
<1>15. ServingOK'
  BY <1>1, <1>14 DEF ServingOK, Workers
<1>16. StartedOK' /\ SignalsOK' /\ ExitTellsHowFar'
  <2>1. SignalsOK' /\ ExitTellsHowFar'
    BY <1>1 DEF Inv, SignalsOK, signalVars, StopRequested, ExitTellsHowFar
  <2>2. \A j \in started' : informers'[j] # 0 /\ made'[informers'[j]].phase # "made"
    <3> SUFFICES ASSUME NEW j \in started
                 PROVE  informers'[j] # 0 /\ made'[informers'[j]].phase # "made"
      BY <1>1
    <3>1. j \in Kinds /\ informers[j] # 0 /\ made[informers[j]].phase # "made"
      BY <1>2 DEF Inv, StartedOK, SimpleTypes
    <3>2. informers'[j] = informers[j] /\ informers[j] \in 1..Len(made)
      BY <1>1, <1>2, <1>5, <3>1 DEF MadeTypes
    <3>3. all[informers[j]] = made[informers[j]]
      BY <1>2, <1>17, <3>2 DEF MadeTypes
    <3>4. made'[informers[j]].phase = all[informers[j]].phase
      BY <1>1, <1>8, <3>2
    <3> QED BY <3>1, <3>2, <3>3, <3>4
  <2>3. main' \notin Running /\ main' # "startPbt"
    BY <1>1 DEF Running, Wired
  <2> QED BY <2>1, <2>2, <2>3 DEF StartedOK
<1> QED BY <1>12, <1>13, <1>15, <1>16 DEF Inv

(* Starting a factory starts all its informers, and changes no cache.      *)
LEMMA StartFactoryStarts ==
    ASSUME Inv, wired = Len(Requests), NEW kinds \in SUBSET Kinds, StartFactory(kinds)
    PROVE  /\ MadeTypes' /\ DOMAIN made' = DOMAIN made
           /\ started' = started \cup kinds
           /\ \A k \in started' : informers'[k] # 0 /\ made'[informers'[k]].phase # "made"
           /\ CachesSynced' <=> CachesSynced
<1> DEFINE begun(id) == IF \E k \in ToStart(kinds) : informers[k] = id
                        THEN [made[id] EXCEPT !.phase = "started"] ELSE made[id]
<1>1. /\ started' = started \cup ToStart(kinds)
      /\ made' = [id \in DOMAIN made |-> begun(id)]
      /\ UNCHANGED <<informers, uses>>
  BY DEF StartFactory, factoryVars
<1>2. /\ MadeTypes /\ started \subseteq Kinds
      /\ \A k \in Kinds : /\ informers[k] \in DOMAIN made
                          /\ uses[k]["synced"] = informers[k]
  BY TypeParts, AllAnswered DEF Inv, SimpleTypes
<1>3. made \in Seq(Informers) /\ Len(made) \in Nat /\ DOMAIN made = 1..Len(made)
  BY <1>2 DEF MadeTypes
<1>4. ToStart(kinds) = kinds \ started
  BY <1>2, <1>3 DEF ToStart
<1>5. \A id \in DOMAIN made : /\ begun(id) \in Informers
                              /\ begun(id).synced = made[id].synced
                              /\ made[id].phase # "made" => begun(id).phase # "made"
                              /\ (\E k \in ToStart(kinds) : informers[k] = id)
                                     => begun(id).phase # "made"
  <2> SUFFICES ASSUME NEW id \in DOMAIN made
               PROVE  /\ begun(id) \in Informers
                      /\ begun(id).synced = made[id].synced
                      /\ made[id].phase # "made" => begun(id).phase # "made"
                      /\ (\E k \in ToStart(kinds) : informers[k] = id)
                             => begun(id).phase # "made"
    OBVIOUS
  <2>1. made[id] \in Informers
    BY <1>3
  <2>2. LET x == [made[id] EXCEPT !.phase = "started"]
        IN  x \in Informers /\ x.synced = made[id].synced /\ x.phase = "started"
    BY <2>1 DEF Informers
  <2> QED BY <2>1, <2>2
<1> HIDE DEF begun
<1>6. made' \in Seq(Informers) /\ Len(made') = Len(made) /\ DOMAIN made' = DOMAIN made
  BY <1>1, <1>3, <1>5
<1>7. MadeTypes'
  BY <1>1, <1>2, <1>6 DEF MadeTypes
<1>8. \A k \in started' : informers'[k] # 0 /\ made'[informers'[k]].phase # "made"
  <2> SUFFICES ASSUME NEW k \in started'
               PROVE  informers'[k] # 0 /\ made'[informers'[k]].phase # "made"
    OBVIOUS
  <2>1. k \in Kinds /\ informers'[k] = informers[k] /\ informers[k] \in DOMAIN made
    BY <1>1, <1>2, <1>4
  <2>2. made'[informers[k]] = begun(informers[k])
    BY <1>1, <2>1
  <2>3. CASE k \in started
    BY <1>5, <2>1, <2>2, <2>3 DEF Inv, StartedOK
  <2>4. CASE k \in ToStart(kinds)
    BY <1>3, <1>5, <2>1, <2>2, <2>4
  <2> QED BY <1>1, <2>3, <2>4
<1>9. CachesSynced' <=> CachesSynced
  <2>1. \A k \in Kinds : made'[uses[k]["synced"]].synced = made[uses[k]["synced"]].synced
    BY <1>1, <1>2, <1>5
  <2> QED BY <1>1, <2>1 DEF CachesSynced, HasSynced
<1> QED BY <1>1, <1>4, <1>6, <1>7, <1>8, <1>9

LEMMA StartInv ==
    ASSUME Inv, StartKube \/ StartPbt
    PROVE  Inv'
<1> DEFINE kinds == IF main = "startKube" THEN KubeKinds ELSE PbtKinds
<1>1. /\ UNCHANGED <<exit, signalVars, informers, wired, uses, queueVars>>
      /\ main \in {"startKube", "startPbt"} /\ exit = "no" /\ StartFactory(kinds)
      /\ main' = IF main = "startKube" THEN "startPbt" ELSE "firstCheck"
  BY DEF StartKube, StartPbt, Goto, Alive, StartFactory
<1>2. wired = Len(Requests)
  BY <1>1 DEF Inv, WiringOK, Wired
<1>3. kinds \in SUBSET Kinds
  BY DEF Kinds
<1>4. /\ MadeTypes' /\ DOMAIN made' = DOMAIN made
      /\ started' = started \cup kinds
      /\ \A k \in started' : informers'[k] # 0 /\ made'[informers'[k]].phase # "made"
      /\ CachesSynced' <=> CachesSynced
  BY <1>1, <1>2, <1>3, StartFactoryStarts
<1>5. SimpleTypes'
  BY <1>1, <1>3, <1>4, TypeParts DEF Inv, SimpleTypes, signalVars, queueVars, Workers, Statements
<1>6. TypeOK'
  BY <1>4, <1>5 DEF TypeOK, SimpleTypes, MadeTypes, Informers
<1>7. SignalsOK' /\ ExitTellsHowFar'
  BY <1>1 DEF Inv, SignalsOK, signalVars, StopRequested, ExitTellsHowFar
<1>8. WiringOK'
  BY <1>1, <1>2, <1>4 DEF Inv, WiringOK
<1>9. StartedOK'
  <2>1. main' = "startPbt" => KubeKinds \subseteq started'
    BY <1>1, <1>4
  <2>2. main' \in Running => Kinds \subseteq started'
    BY <1>1, <1>4 DEF Inv, StartedOK, Running, Kinds
  <2> QED BY <1>4, <2>1, <2>2 DEF StartedOK
<1>10. ServingOK'
  BY <1>1, <1>4 DEF Inv, ServingOK, queueVars, Workers
<1> QED BY <1>6, <1>7, <1>8, <1>9, <1>10 DEF Inv

-----------------------------------------------------------------------------
(* The other goroutines *)

(* An informer that has synced stays so, and one that was started is never *)
(* again as it was made.                                                   *)
LEMMA InformersInv ==
    ASSUME Inv, NEW id \in DOMAIN made, Lists(id) \/ Syncs(id) \/ Stops(id)
    PROVE  Inv'
<1>1. PICK phase \in {"listing", "watching", "stopped"} :
          /\ made' = [made EXCEPT ![id].phase = phase, ![id].synced = @ \/ phase = "watching"]
          /\ UNCHANGED <<main, exit, signalVars, informers, started, wired, uses, queueVars>>
          /\ exit = "no"
  BY DEF Lists, Syncs, Stops, InformerGoes, Alive
<1>2. /\ made \in Seq(Informers) /\ Len(made) \in Nat /\ DOMAIN made = 1..Len(made)
      /\ MadeTypes /\ SimpleTypes
  BY TypeParts DEF Inv, MadeTypes
<1>3. made[id] \in Informers
  BY <1>2
<1> DEFINE x == [made[id] EXCEPT !.phase = phase, !.synced = @ \/ phase = "watching"]
<1>4. made' = [made EXCEPT ![id] = x]
  BY <1>1, <1>3 DEF Informers
<1>5. x \in Informers /\ x.phase # "made" /\ (made[id].synced => x.synced)
  BY <1>1, <1>3 DEF Informers
<1> HIDE DEF x
<1>6. made' \in Seq(Informers) /\ Len(made') = Len(made) /\ DOMAIN made' = DOMAIN made
  BY <1>2, <1>4, <1>5
<1>7. \A i \in DOMAIN made : /\ made[i].synced => made'[i].synced
                             /\ made[i].phase # "made" => made'[i].phase # "made"
  BY <1>4, <1>5
<1>8. \A i \in 0..Len(made) : i # 0 => i \in DOMAIN made
  BY <1>2
<1>9. CachesSynced => CachesSynced'
  <2>1. \A k \in Kinds : uses[k]["synced"] \in 0..Len(made)
    BY <1>2 DEF MadeTypes, Roles
  <2> QED BY <1>1, <1>7, <1>8, <2>1 DEF CachesSynced, HasSynced
<1>10. MadeTypes' /\ SimpleTypes'
  BY <1>1, <1>2, <1>6 DEF MadeTypes, SimpleTypes, signalVars, queueVars, Workers
<1>11. TypeOK'
  BY <1>10 DEF TypeOK, SimpleTypes, MadeTypes, Informers
<1>12. SignalsOK' /\ ExitTellsHowFar'
  BY <1>1 DEF Inv, SignalsOK, signalVars, StopRequested, ExitTellsHowFar
<1>13. WiringOK'
  BY <1>1, <1>6 DEF Inv, WiringOK
<1>14. StartedOK'
  <2>1. \A k \in started : informers[k] # 0 /\ made'[informers[k]].phase # "made"
    <3> SUFFICES ASSUME NEW k \in started
                 PROVE  informers[k] # 0 /\ made'[informers[k]].phase # "made"
      OBVIOUS
    <3>1. informers[k] # 0 /\ made[informers[k]].phase # "made" /\ k \in Kinds
      BY <1>2 DEF Inv, StartedOK, SimpleTypes
    <3>2. informers[k] \in DOMAIN made
      BY <1>2, <1>8, <3>1 DEF MadeTypes
    <3> QED BY <1>7, <3>1, <3>2
  <2> QED BY <1>1, <2>1 DEF Inv, StartedOK
<1>15. ServingOK'
  BY <1>1, <1>9 DEF Inv, ServingOK, queueVars, Workers, StopRequested, signalVars
<1> QED BY <1>11, <1>12, <1>13, <1>14, <1>15 DEF Inv

(* Items come and go; a worker that runs was started and stays started.    *)
LEMMA WorkInv ==
    ASSUME Inv, \/ \E q \in Queues : Enqueue(q)
                \/ \E w \in Workers : Work(w)
    PROVE  Inv'
<1>1. UNCHANGED <<main, exit, signalVars, factoryVars, wired, uses, shutDown>> /\ exit = "no"
  BY DEF Enqueue, Work, Begin, TakeItem, FinishItem, LeaveLoop, WorkerGoes, Alive
<1>2. SimpleTypes
  BY TypeParts DEF Inv
<1>3. queue' \in [Queues -> 0..MaxBacklog]
  <2>1. CASE \E q \in Queues : Enqueue(q)
    <3>1. PICK q \in Queues : queue[q] < MaxBacklog /\ queue' = [queue EXCEPT ![q] = @ + 1]
      BY <2>1 DEF Enqueue
    <3>2. queue[q] \in 0..MaxBacklog /\ queue[q] + 1 \in 0..MaxBacklog
      BY <1>2, <3>1, LifecycleAssumption DEF SimpleTypes
    <3> QED BY <1>2, <3>1, <3>2 DEF SimpleTypes
  <2>2. CASE \E w \in Workers : Work(w)
    <3>1. PICK w \in Workers : Work(w)
      BY <2>2
    <3>2. w[1] \in Queues
      BY DEF Workers
    <3>3. CASE TakeItem(w)
      <4>1. queue[w[1]] - 1 \in 0..MaxBacklog
        BY <1>2, <3>2, <3>3, LifecycleAssumption DEF TakeItem, SimpleTypes
      <4> QED BY <1>2, <3>2, <3>3, <4>1 DEF TakeItem, SimpleTypes
    <3>4. CASE Begin(w) \/ FinishItem(w) \/ LeaveLoop(w)
      BY <1>2, <3>4 DEF Begin, FinishItem, LeaveLoop, SimpleTypes
    <3> QED BY <3>1, <3>3, <3>4 DEF Work
  <2> QED BY <2>1, <2>2
<1>4. /\ worker' \in [Workers -> {"none", "spawned", "getting", "busy", "gone"}]
      /\ \A v \in Workers : worker'[v] = "none" <=> worker[v] = "none"
  <2>1. CASE \E q \in Queues : Enqueue(q)
    BY <1>2, <2>1 DEF Enqueue, SimpleTypes
  <2>2. CASE \E w \in Workers : Work(w)
    <3>1. PICK w \in Workers : Work(w)
      BY <2>2
    <3>2. PICK to \in {"getting", "busy", "gone"} :
              worker[w] # "none" /\ worker' = [worker EXCEPT ![w] = to]
      BY <3>1 DEF Work, Begin, TakeItem, FinishItem, LeaveLoop, WorkerGoes
    <3> QED BY <1>2, <3>2 DEF SimpleTypes
  <2> QED BY <2>1, <2>2
<1>5. SimpleTypes' /\ MadeTypes'
  BY <1>1, <1>2, <1>3, <1>4, TypeParts
  DEF Inv, SimpleTypes, MadeTypes, signalVars, factoryVars, Workers
<1>6. TypeOK'
  BY <1>5 DEF TypeOK, SimpleTypes, MadeTypes, Informers
<1>7. SignalsOK' /\ ExitTellsHowFar'
  BY <1>1 DEF Inv, SignalsOK, signalVars, StopRequested, ExitTellsHowFar
<1>8. WiringOK' /\ StartedOK'
  BY <1>1 DEF Inv, WiringOK, StartedOK, factoryVars
<1>9. CachesSynced' <=> CachesSynced
  BY <1>1, SameCaches DEF factoryVars
<1>10. ServingOK'
  <2>1. Workers' = Workers /\ StopRequested' = StopRequested
    BY <1>1 DEF Workers, StopRequested, signalVars
  <2> QED BY <1>1, <1>4, <1>9, <2>1 DEF Inv, ServingOK
<1> QED BY <1>6, <1>7, <1>8, <1>10 DEF Inv

-----------------------------------------------------------------------------
LEMMA MainInv ==
    ASSUME Inv, Main
    PROVE  Inv'
<1>1. ASSUME NEW from \in Statements, NEW to \in Statements, Passes(from, to),
             \/ <<from, to>> \in {<<"BuildConfigFromFlags", "kubeClient">>,
                                  <<"kubeClient", "pbtClient">>,
                                  <<"pbtClient", "discoveryClient">>,
                                  <<"discoveryClient", "NewController">>,
                                  <<"firstCheck", "returnError">>,
                                  <<"firstCheck", "polling">>,
                                  <<"polling", "returnError">>}
             \/ <<from, to>> = <<"NewController", "startKube">> /\ wired = Len(Requests)
             \/ from \in {"firstCheck", "polling"} /\ to = "startWorkers" /\ CachesSynced
             \/ <<from, to>> = <<"blocked", "returnNil">> /\ StopRequested
      PROVE  Inv'
  <2>1. main = from
    BY <1>1 DEF Passes, Goto
  <2>2. to \in Wired => wired = Len(Requests)
    BY <1>1, <2>1 DEF Inv, WiringOK, Wired
  <2>3. to \in Running => Kinds \subseteq started
    BY <1>1, <2>1 DEF Inv, StartedOK, Running, Wired
  <2>4. CachesSynced \/ to \notin {"startWorkers", "returnNil", "nilReturned"}
    BY <1>1, <2>1 DEF Inv, ServingOK
  <2> QED BY <1>1, <2>2, <2>3, <2>4, PassesInv
<1>2. CASE SetupSignalHandler
  BY <1>2, SetupInv
<1>3. CASE BuildConfigFromFlags \/ NewKubeClient \/ NewForConfig
  <2>1. CASE \E at \in {"BuildConfigFromFlags", "kubeClient", "pbtClient", "discoveryClient"} :
                 Fatal(at)
    BY <2>1, FatalInv
  <2>2. CASE \/ Passes("BuildConfigFromFlags", "kubeClient") \/ Passes("kubeClient", "pbtClient")
             \/ Passes("pbtClient", "discoveryClient")
             \/ Passes("discoveryClient", "NewController")
    BY <1>1, <2>2 DEF Statements
  <2> QED BY <1>3, <2>1, <2>2 DEF BuildConfigFromFlags, NewKubeClient, NewForConfig, TypedClient
<1>4. CASE WireInformer
  BY <1>4, WireInv
<1>5. CASE ControllerIsMade
  BY <1>1, <1>5 DEF ControllerIsMade, Statements
<1>6. CASE StartKube \/ StartPbt
  BY <1>6, StartInv
<1>7. CASE FirstCheck \/ TickFindsThemSynced \/ GiveUp
  BY <1>1, <1>7 DEF FirstCheck, TickFindsThemSynced, GiveUp, Statements
<1>8. CASE StartWorkers
  BY <1>8, StartWorkersInv
<1>9. CASE Unblock
  BY <1>1, <1>9 DEF Unblock, Statements
<1>10. CASE \/ RunReturns("returnNil", "nilReturned")
            \/ RunReturns("returnError", "errorReturned")
  BY <1>10, RunReturnsInv
<1>11. CASE Finish("nilReturned", "success") \/ Finish("errorReturned", "fatal")
  BY <1>11, FinishInv
<1> QED
  BY <1>2, <1>3, <1>4, <1>5, <1>6, <1>7, <1>8, <1>9, <1>10, <1>11 DEF Main

LEMMA NextInv == Inv /\ [Next]_vars => Inv'
<1> SUFFICES ASSUME Inv, [Next]_vars PROVE Inv'
  OBVIOUS
<1>1. CASE SendSignal \/ FirstSignal \/ SecondSignal
  BY <1>1, SignalsInv
<1>2. CASE Main
  BY <1>2, MainInv
<1>3. CASE \E id \in DOMAIN made : Lists(id) \/ Syncs(id) \/ Stops(id)
  BY <1>3, InformersInv
<1>4. CASE (\E q \in Queues : Enqueue(q)) \/ (\E w \in Workers : Work(w))
  BY <1>4, WorkInv
<1>5. CASE UNCHANGED vars
  <2>1. UNCHANGED <<main, exit, signalVars, factoryVars, wired, uses, queueVars>>
    BY <1>5 DEF vars
  <2>2. CachesSynced' <=> CachesSynced
    BY <2>1, SameCaches DEF factoryVars
  <2>3. TypeOK' /\ SignalsOK' /\ WiringOK' /\ StartedOK'
    BY <2>1 DEF Inv, TypeOK, SignalsOK, WiringOK, StartedOK, StopRequested, Workers,
                signalVars, factoryVars, queueVars
  <2>4. ServingOK' /\ ExitTellsHowFar'
    BY <2>1, <2>2 DEF Inv, ServingOK, ExitTellsHowFar, StopRequested, Workers,
                      signalVars, queueVars
  <2> QED BY <2>3, <2>4 DEF Inv
<1> QED BY <1>1, <1>2, <1>3, <1>4, <1>5 DEF Next

LEMMA InvIsInvariant == Spec => []Inv
  BY InitInv, NextInv, PTL DEF Spec

-----------------------------------------------------------------------------
(* The types hold in every reachable state; in particular the channel of   *)
(* src/pkg/signals/signal.go, which has two places, never holds more, and  *)
(* no queue is taken from when empty.                                      *)
THEOREM TypesAreKept == Spec => []TypeOK
<1>1. Inv => TypeOK
  BY DEF Inv
<1> QED BY <1>1, InvIsInvariant, PTL

(* The Lister, the HasSynced and the handlers that NewController asks the  *)
(* factories for belong to one informer of each kind, and Run waits for no *)
(* informer that Start has left out.                                       *)
THEOREM OneInformerOfAKind == Spec => []InformersAreShared
<1>1. Inv => InformersAreShared
  <2> SUFFICES ASSUME Inv,
                      main \in {"firstCheck", "polling", "startWorkers", "blocked"},
                      NEW id \in DOMAIN made
               PROVE  made[id].phase # "made"
    BY DEF Inv, WiringOK, InformersAreShared
  <2>1. Kinds \subseteq started
    BY DEF Inv, StartedOK, Running, Wired
  <2>2. PICK k \in Kinds : informers[k] = id
    BY DEF Inv, WiringOK
  <2> QED BY <2>1, <2>2 DEF Inv, StartedOK
<1> QED BY <1>1, InvIsInvariant, PTL

(* A worker that handles an item finds the first list of all three kinds   *)
(* in the caches it reads, whenever signals arrive and however many        *)
(* workers there are.                                                      *)
THEOREM WorkersReadFullCaches == Spec => []WorkersSeeFullCaches
<1>1. Inv => WorkersSeeFullCaches
  <2> SUFFICES ASSUME Inv, NEW w \in Workers, worker[w] = "busy", NEW k \in Kinds
               PROVE  uses[k]["lister"] # 0 /\ made[uses[k]["lister"]].synced
    BY DEF WorkersSeeFullCaches
  <2>1. CachesSynced /\ wired = Len(Requests)
    BY DEF Inv, ServingOK
  <2>2. uses[k]["lister"] = uses[k]["synced"]
    BY <2>1, AllAnswered DEF Inv
  <2> QED BY <2>1, <2>2 DEF CachesSynced, HasSynced
<1> QED BY <1>1, InvIsInvariant, PTL

(* The exit status of the process tells how far main came: 0 only after it *)
(* had served and was asked to stop, a fatal error only if no worker ever  *)
(* ran.                                                                    *)
THEOREM ExitStatusIsTrue == Spec => []ExitTellsHowFar
<1>1. Inv => ExitTellsHowFar
  BY DEF Inv
<1> QED BY <1>1, InvIsInvariant, PTL
=============================================================================

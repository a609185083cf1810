----------------------------- MODULE KeyedWork -----------------------------
(***************************************************************************)
(* What a work queue promises the code that uses it, without saying how:   *)
(* each key is a flag "wanted" and a flag "busy".  Requests for a key that *)
(* is already wanted are merged; a key is worked on by at most one worker  *)
(* at a time; a request made while the key is busy is served by another    *)
(* turn afterwards; every wanted key gets its turn, even when the queue    *)
(* has been closed, and nothing new is accepted from then on.              *)
(***************************************************************************)
CONSTANT Items

VARIABLES wanted, busy, closed

vars == <<wanted, busy, closed>>

Init == wanted = {} /\ busy = {} /\ closed = FALSE

Request(item) ==
    /\ ~closed
    /\ wanted' = wanted \cup {item}
    /\ UNCHANGED <<busy, closed>>

Start(item) ==
    /\ item \in wanted \ busy
    /\ wanted' = wanted \ {item}
    /\ busy' = busy \cup {item}
    /\ UNCHANGED closed

Finish(item) ==
    /\ item \in busy
    /\ busy' = busy \ {item}
    /\ UNCHANGED <<wanted, closed>>

Close == closed' = TRUE /\ UNCHANGED <<wanted, busy>>

Next ==
    \/ \E item \in Items : Request(item) \/ Start(item) \/ Finish(item)
    \/ Close

SafetySpec == Init /\ [][Next]_vars

Spec ==
    /\ SafetySpec
    /\ \A item \in Items : SF_vars(Start(item)) /\ WF_vars(Finish(item))
=============================================================================

----------------------------- MODULE ToolClient -----------------------------
(***************************************************************************)
(* The calls of the generated typed client                                 *)
(* (src/pkg/generated/clientset/.../podbuggertool.go), by what they do to  *)
(* the API server: an api is a record of the stored tools, the number of   *)
(* objects written so far, and the watch events not yet received.          *)
(*                                                                         *)
(* A tool is its resourceVersion and status; every other change of it is a *)
(* new resourceVersion.  A call that the server refuses changes nothing.   *)
(***************************************************************************)
EXTENDS Integers, Sequences

CONSTANTS
    Namespaces,    \* the namespaces
    Names,         \* the names of tools
    NoTool         \* what a key without tool maps to

Keys == Namespaces \X Names

(* newPodbuggertools: a client is bound to a namespace. *)
Podbuggertools(ns) == {k \in Keys : k[1] = ns}

Event(type, k, tool) == [type |-> type, key |-> k, tool |-> tool]

Stored(api) == {k \in Keys : api.tools[k] # NoTool}

(* The server stores an object under a new resourceVersion. *)
Write(api, type, k, installed) ==
    LET tool == [rv |-> api.revision + 1, installed |-> installed]
    IN [tools |-> [api.tools EXCEPT ![k] = tool],
        revision |-> api.revision + 1,
        wire |-> Append(api.wire, Event(type, k, tool))]

Create(api, k) ==
    IF k \in Stored(api) THEN api ELSE Write(api, "ADDED", k, FALSE)

(* A patch of the spec; the status stays. *)
Patch(api, k) ==
    IF k \in Stored(api) THEN Write(api, "MODIFIED", k, api.tools[k].installed) ELSE api

(* A tool is replaced if it is still the one the update was made from; an  *)
(* update without a change is not written.                                 *)
Update(api, k, tool) ==
    IF k \in Stored(api) /\ tool.rv = api.tools[k].rv /\ tool # api.tools[k]
    THEN Write(api, "MODIFIED", k, tool.installed) ELSE api

Delete(api, k) ==
    IF k \in Stored(api)
    THEN [api EXCEPT !.tools[k] = NoTool,
                     !.wire = Append(@, Event("DELETED", k, api.tools[k]))]
    ELSE api

(* The server empties a collection one tool after the other, and anything *)
(* may come between: where one deletion of it may lead.                    *)
DeleteCollection(api, ns) == {Delete(api, k) : k \in Podbuggertools(ns)}

(* What a list answers; one without a namespace lists them all. *)
List(api) == [k \in Stored(api) |-> api.tools[k]]

(* A watch that starts at the list's resourceVersion tells of everything   *)
(* that came after it, in order, also when it is started again.            *)
Watch(api) == Head(api.wire)
Received(api) == [api EXCEPT !.wire = Tail(@)]
NothingMissed(api) == [api EXCEPT !.wire = <<>>]
=============================================================================

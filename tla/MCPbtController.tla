-------------------------- MODULE MCPbtController --------------------------
(* Instances of PbtController for TLC. *)
EXTENDS PbtController, TLC

CONSTANTS t1, t2, w1, w2, img1, img2

(* Two labels with "=" and one without. *)
AllLabels == {"app=x", "app=y", "plain"}
WithEquals == AllLabels \ {"plain"}

(* No two strings differ in case only. *)
NoFolding == [s \in AllLabels \cup Images |-> s]

(* The labels users may give each tool. *)
OneToolLabels == t1 :> {"app=x", "plain"}
OwnLabels == t1 :> {"app=x", "plain"} @@ t2 :> {"app=y"}
OneLabel == t1 :> {"app=x"} @@ t2 :> {"app=x"}
=============================================================================

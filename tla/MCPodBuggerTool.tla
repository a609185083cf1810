-------------------------- MODULE MCPodBuggerTool --------------------------
(* Instances of PodBuggerTool for TLC. *)
EXTENDS PodBuggerTool, TLC

CONSTANTS t1, t2, p1, p2, w1, w2, img1, img2

TwoLabels == {"app=x", "app=y"}
NoFolding == [s \in TwoLabels \cup Images |-> s]

MovingLabel == t1 :> {"app=x", "app=y"}
OneLabel == t1 :> {"app=x"}

OnlyX == {{"app=x"}}
(* Images differ in their names only. *)
ImageSymmetry == Permutations(Images)

NoneOrX == {{}, {"app=x"}}
=============================================================================

---------------------------- MODULE MCLifecycle ----------------------------
(* An instance of Lifecycle for TLC: main calls Run(2, stopCh). *)
EXTENDS Lifecycle

TwoThreads == 1..2
=============================================================================

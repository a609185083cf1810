--------------------------- MODULE MCQueueWorkers ---------------------------
(* An instance of QueueWorkers for TLC. *)
EXTENDS QueueWorkers, TLC

CONSTANTS k1, k2, w1, w2
=============================================================================

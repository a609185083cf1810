--------------------------- MODULE MCToolInformer ---------------------------
(* An instance of ToolInformer for TLC. *)
EXTENDS ToolInformer

CONSTANTS n1, a, b, none
=============================================================================

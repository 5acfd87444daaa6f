--------------------------- MODULE MCPromiseKept ---------------------------
(* The instances of MCCrossStock, for the refinement.                      *)
EXTENDS PromiseKept, MCCrossStock

=============================================================================

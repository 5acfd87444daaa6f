-------------------------- MODULE MCCrossStockLive --------------------------
(* The instances of MCCrossStock, with fairness.                           *)
EXTENDS CrossStockLive, MCCrossStock

=============================================================================

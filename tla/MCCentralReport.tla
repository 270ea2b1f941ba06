-------------------------- MODULE MCCentralReport --------------------------
(* CentralReport under the contract that has no full reconciliation.        *)
EXTENDS CentralReport
=============================================================================

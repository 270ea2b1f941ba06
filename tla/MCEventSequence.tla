-------------------------- MODULE MCEventSequence --------------------------
(* EventSequence with an item that may be skipped before one that aborts.   *)
EXTENDS EventSequence
============================================================================

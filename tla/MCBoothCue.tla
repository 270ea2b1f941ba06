---------------------------- MODULE MCBoothCue ----------------------------
(* BoothCue with two entries.  Requests of the web commute with the steps   *)
(* of the worker that neither read nor write what they change, so they are   *)
(* tried before a tick and before each step that judges the database.        *)
(* Bound: a switch of the schedule's mode or a fault, not both.              *)
EXTENDS BoothCue
CONSTANTS e1, e2, s
WebBetweenJudgements == edits' # edits => pc \in {"sync", "order", "submit", "choose"}
OneDisturbance == switches' + faults' <= 1
============================================================================

---------------------------- MODULE Installation ----------------------------
(***************************************************************************)
(* What maintenance promises for an installation: its code, schema and      *)
(* files are replaced only while nothing of it runs and only after a backup *)
(* of exactly the present data was made, and nothing runs on code, schema   *)
(* and files that do not belong together.                                   *)
(***************************************************************************)
CONSTANTS Unit, Version

VARIABLES
  serving,   \* the units that run
  version,   \* what they run on; "between" while it is being replaced
  kept       \* a backup holds the data as they are

Init == serving \in SUBSET Unit /\ version \in Version /\ kept = FALSE

(* Units start and write. *)
Serve ==
  /\ version \in Version /\ serving' \in SUBSET Unit /\ serving' # {}
  /\ kept' = FALSE /\ UNCHANGED version
Stop ==
  /\ serving' \subseteq serving /\ UNCHANGED <<version, kept>>
Save ==
  /\ serving = {} /\ version \in Version /\ kept' = TRUE /\ UNCHANGED <<serving, version>>
Replace ==
  /\ serving = {} /\ kept /\ version' \in Version \cup {"between"} /\ UNCHANGED <<serving, kept>>

Next == Serve \/ Stop \/ Save \/ Replace
Spec == Init /\ [][Next]_<<serving, version, kept>>
=============================================================================

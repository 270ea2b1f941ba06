------------------------------ MODULE Lookahead ------------------------------
(***************************************************************************)
(* The songs that automation selects ahead of the program.  The worker      *)
(* advances a cursor, pushes what it selects, and takes back what an edit   *)
(* of the programming made obsolete, rewinding the cursor to the first song *)
(* it took back.  Listeners' requests ride on these selections.  A row is   *)
(* one selection decision; its index is its identifier.                     *)
(***************************************************************************)
EXTENDS Naturals, Sequences, FiniteSets, SequencesExt

CONSTANTS
  Request,     \* listeners' requests
  Depth,       \* how far ahead the worker selects
  Refilled,    \* {TRUE}, or BOOLEAN: a station that is held is refreshed without a refill
  MaxRows,     \* bound: after so many selections the station finds no audio
  MaxEdits,    \* bound: edits of the programming, or of the request settings
  MaxCrashes,  \* bound: deaths of the worker
  MaxOutages   \* bound: engine restarts and lost or refused answers

VARIABLES
  programming,          \* what signature() is computed from
  open,                 \* listeners' requests are taken
  requests,             \* the status of each listener's request
  cursor,               \* the position of the next selection
  rows,                 \* selection decisions
  fifo, air, life,      \* the engine: its queue, the request it plays, which engine it is
  unread,               \* START lines of the event file
  pc, back, room, auto, \* the worker, and the place to which refill_station returns
  todo, ids, rewound,   \* refresh: candidates, requests to remove, cursor restored
  lost,                 \* history: STARTs that went with their engine
  faults                \* deaths of the worker, outages

engineVars    == <<fifo, air, life, unread, lost>>
refreshing    == <<todo, ids, rewound>>
worker        == <<pc, back, room, auto, refreshing>>
web           == <<programming, open>>
database      == <<requests, cursor, rows>>
lookaheadVars == <<web, database, engineVars, worker, faults>>

None        == 0
Outstanding == {"pending", "queued"}
Terminal    == {"played", "rejected", "expired"}
(* Reasons after which a request certainly was not heard.                   *)
Safe        == {"changed", "not_started", "restarted", "cancelled"}
Rows == [status : {"selected", "queued", "started", "failed"},
         why    : {"", "refresh", "queue_failed"} \cup Safe,
         sig    : 0..MaxEdits + 1,      \* programming_signature; 0 is NULL
         slot   : Nat,                  \* cursor_checkpoint
         engine : 0..MaxOutages + 1,    \* socket_identity of the stored request id
         request: Request \cup {None}]

Init ==
  /\ programming = 1 /\ open = TRUE /\ requests = [r \in Request |-> "none"]
  /\ cursor = 0 /\ rows = <<>>
  /\ fifo = <<>> /\ air = None /\ life = 1 /\ unread = <<>> /\ lost = {}
  /\ pc = "idle" /\ back = "idle" /\ room = 0 /\ auto = TRUE
  /\ todo = {} /\ ids = {} /\ rewound = FALSE /\ faults = [crash |-> 0, outage |-> 0]

Rids == DOMAIN rows
Live == Range(fifo) \cup ({air} \ {None})       \* queued_ids | active_ids
First(S) == CHOOSE i \in S : \A j \in S : i <= j

----------------------------------------------------------------------------
(* THE ENGINE AND THE WEB *)

Takes ==
  /\ air = None /\ fifo # <<>> /\ air' = Head(fifo) /\ fifo' = Tail(fifo)
  /\ unread' = Append(unread, Head(fifo))
  /\ UNCHANGED <<life, lost, web, database, worker, faults>>
(* A song outlasts the reading of its START; shorter ones are in Playout.   *)
Ends ==
  /\ air # None /\ rows[air].status = "started" /\ air' = None
  /\ UNCHANGED <<fifo, life, unread, lost, web, database, worker, faults>>
EngineRestarts ==
  /\ faults.outage < MaxOutages /\ faults' = [faults EXCEPT !.outage = @ + 1]
  /\ life' = life + 1 /\ fifo' = <<>> /\ air' = None /\ unread' = <<>> /\ lost' = lost \cup Range(unread)
  /\ UNCHANGED <<web, database, worker>>

Quiet == UNCHANGED <<cursor, rows, engineVars, worker, faults>>
(* Anything the signature covers: programs, playlists, tracks, settings.    *)
Edit ==
  /\ programming <= MaxEdits /\ programming' = programming + 1 /\ open' \in BOOLEAN
  /\ UNCHANGED requests /\ Quiet
Submit(r) ==
  /\ open /\ requests[r] = "none" /\ requests' = [requests EXCEPT ![r] = "pending"]
  /\ UNCHANGED web /\ Quiet
Reject(r) ==
  /\ requests[r] \in Outstanding /\ requests' = [requests EXCEPT ![r] = "rejected"]
  /\ UNCHANGED web /\ Quiet

----------------------------------------------------------------------------
(* WHAT THE STEPS OF THE WORKER SHARE *)

(* reader.collect, playback_started and confirmed, over every line unread.  *)
StartedRows == [i \in Rids |-> IF i \in Range(unread) THEN [rows[i] EXCEPT !.status = "started"] ELSE rows[i]]
Confirmed(rs) ==
  [r \in Request |-> IF \E i \in Range(unread) : rs[i].request = r THEN "played" ELSE requests[r]]

(* Mutant: a request that automation took never waits again. *)
NeverAgain(rs, qs) == [r \in Request |-> qs[r]]
(* maintain: an attempt that certainly was not heard may be made again.     *)
Maintained(rs, qs) ==
  [r \in Request |->
     LET attempts == {i \in DOMAIN rs : rs[i].request = r}
     IN IF qs[r] = "queued" /\ attempts # {} /\ (\A i \in attempts : rs[i].status = "failed" /\ rs[i].why \in Safe)
        THEN "pending" ELSE qs[r]]

(* reconcile_requests: what the engine does not hold any more.              *)
Vanished(rs) ==
  [i \in DOMAIN rs |->
     IF rs[i].status = "queued" /\ (rs[i].engine # life \/ i \notin Live)
     THEN [rs[i] EXCEPT !.status = "failed",
             !.why = IF @ = "refresh" THEN @ ELSE IF rs[i].engine # life THEN "restarted" ELSE "not_started"]
     ELSE rs[i]]

(* reconcile_engine: the rows of requests, found by their annotations.      *)
OfRequest(rs, i) ==
  /\ rs[i].request # None /\ rs[i].status # "started"
  /\ requests[rs[i].request] \in Outstanding \/ rs[i].status \in {"selected", "queued"}
(* Mutant: a selection without a stored request id was not submitted. *)
Unsubmitted(rs, late) ==
  [i \in DOMAIN rs |-> IF OfRequest(rs, i) /\ rs[i].status = "selected"
                       THEN [rs[i] EXCEPT !.status = "failed", !.why = "not_started"] ELSE rs[i]]
(* What is not found is given ten seconds; late are the rows whose ten      *)
(* seconds are over in this pass, any of those not found.                   *)
Unseen(rs) ==
  {i \in DOMAIN rs : /\ OfRequest(rs, i) /\ i \notin Live
                     /\ rs[i].status \in {"selected", "failed"} /\ rs[i].why \notin Safe}
Observed(rs, late) ==
  [i \in DOMAIN rs |->
     IF OfRequest(rs, i) /\ i \in Live THEN [rs[i] EXCEPT !.status = "queued", !.engine = life]
     ELSE IF i \in late THEN [rs[i] EXCEPT !.status = "failed", !.why = "not_started"]
     ELSE rs[i]]
Requeued(rs, qs) ==
  [r \in Request |-> IF qs[r] \in Outstanding /\ (\E i \in Live : OfRequest(rs, i) /\ rs[i].request = r)
                     THEN "queued" ELSE qs[r]]
Invalid(rs, qs, i) ==
  /\ OfRequest(rs, i) /\ rs[i].status \in {"selected", "queued"}
  /\ qs[rs[i].request] \in Terminal \/ ~open \/ rs[i].sig # programming
(* The automatic tail goes with the row, so that the cursor can be rewound. *)
Retracted(rs, qs) ==
  LET bad == {i \in DOMAIN rs : Invalid(rs, qs, i)}
  IN [i \in DOMAIN rs |-> IF rs[i].status \in {"selected", "queued"} /\ (\E j \in bad : j <= i)
                          THEN [rs[i] EXCEPT !.sig = 0, !.why = "refresh"] ELSE rs[i]]

(* _restore_before; the hour may have begun an event block since.           *)
RestoreBefore(rs, i) ==
  \E block \in BOOLEAN :
    cursor' = IF block \/ (\E j \in DOMAIN rs : j > i /\ rs[j].status = "started") THEN cursor ELSE rs[i].slot

Goes(p, q) == pc = p /\ pc' = q
Work == UNCHANGED <<web, faults>>
Forgotten == back' = "idle" /\ room' = 0 /\ auto' = TRUE /\ todo' = {} /\ ids' = {} /\ rewound' = FALSE
Dies == pc' = "idle" /\ Forgotten

Crash ==
  /\ pc # "idle" /\ faults.crash < MaxCrashes /\ faults' = [faults EXCEPT !.crash = @ + 1] /\ Dies
  /\ UNCHANGED <<web, database, engineVars>>
Outage == faults.outage < MaxOutages /\ faults' = [faults EXCEPT !.outage = @ + 1]

----------------------------------------------------------------------------
(* REFRESH *)

(* Mutant: a row that was marked before a crash is not looked at again. *)
NotCurrent(rs) == {i \in DOMAIN rs : rs[i].status = "queued" /\ rs[i].sig # programming /\ rs[i].why # "refresh"}
Obsolete(rs) ==
  {i \in DOMAIN rs : /\ rs[i].status \in {"selected", "queued"} \/ (rs[i].status = "failed" /\ rs[i].why = "refresh")
                     /\ rs[i].sig # programming \/ rs[i].why = "refresh"}

(* housekeeping, then a pass; a station that is held is refreshed but not refilled. *)
Begin ==
  /\ pc = "idle" /\ UNCHANGED <<cursor, fifo, air, life, lost, back, room, ids, rewound>> /\ Work
  /\ unread' = <<>> /\ rows' = StartedRows /\ auto' \in Refilled
  /\ \E old \in SUBSET {r \in Request : requests[r] \in Outstanding} :
       requests' = [r \in Request |-> IF Confirmed(rows)[r] = "played" THEN "played"
                                      ELSE IF r \in old THEN "expired" ELSE Maintained(rows', requests)[r]]
  /\ todo' = Obsolete(rows') /\ pc' = IF todo' = {} THEN "fill" ELSE "mark"
(* A push that was accepted unrecorded is found by its annotation; then the *)
(* intent is stored before the engine is changed.                           *)
Mark ==
  /\ pc = "mark" /\ UNCHANGED <<requests, cursor, engineVars, back, room, auto, rewound>> /\ Work
  /\ LET found == {i \in todo : rows[i].status = "selected" /\ rows[i].engine = 0 /\ i \in Live}
         known(i) == i \in found \/ rows[i].engine = life
         chosen == {i \in todo : rows[i].why = "refresh" \/ (known(i) /\ i \in Range(fifo))}
     IN /\ rows' = [i \in Rids |->
                      LET r == IF i \in found THEN [rows[i] EXCEPT !.status = "queued", !.engine = life] ELSE rows[i]
                      IN IF i \in chosen THEN [r EXCEPT !.why = "refresh"] ELSE r]
        /\ ids' = {i \in chosen : known(i) /\ i \in Range(fifo)}
        /\ pc' = IF ids' = {} THEN "settle" ELSE IF auto THEN "prefill" ELSE "remove"
        /\ todo' = chosen \cup {i \in todo : rows'[i].status = "selected" /\ rows'[i].engine = 0}
(* The successor is queued before the obsolete songs leave.                 *)
Prefill ==
  /\ pc = "prefill" /\ UNCHANGED <<fifo, air, life, lost, auto, todo, ids>> /\ Work
  /\ unread' = <<>> /\ requests' = Confirmed(rows) /\ rewound' = TRUE
  /\ LET rs == StartedRows
         waiting == {i \in todo : rs[i].status # "started"}
         first == First(IF waiting = {} THEN todo ELSE waiting)
         possible == {i \in Rids : i > first /\ rs[i].sig = programming /\ i \in Live}
         tracked == {i \in possible : rs[i].engine = life}
     IN IF possible # {}
        THEN /\ pc' = "remove" /\ UNCHANGED <<cursor, back, room>>
             /\ LET i == First(IF tracked = {} THEN possible ELSE tracked)
                IN rows' = [rs EXCEPT ![i] = [@ EXCEPT !.engine = life,
                              !.status = IF rs[i].status = "started" \/ i \in tracked THEN rs[i].status ELSE "queued"]]
        ELSE /\ rows' = rs /\ pc' = "fill" /\ back' = "remove" /\ room' = Len(fifo) + 1
             /\ IF rs[first].status = "started" THEN UNCHANGED cursor ELSE RestoreBefore(rs, first)
\* SelectSeq, as a recursive function
Without(s, gone) ==
  LET kept[n \in 0..Len(s)] ==
        IF n = 0 THEN <<>>
        ELSE IF s[n] \in gone THEN kept[n - 1] ELSE Append(kept[n - 1], s[n])
  IN  kept[Len(s)]
RemoveFuture ==
  /\ Goes("remove", "settle") /\ fifo' = Without(fifo, ids)
  /\ UNCHANGED <<air, life, unread, lost, database, back, room, auto, refreshing>> /\ Work
Settle ==
  /\ pc = "settle" /\ UNCHANGED <<fifo, air, life, lost, back, room, auto>> /\ Work
  /\ unread' = <<>> /\ requests' = Confirmed(rows)
  /\ LET rs == StartedRows
         gone == {i \in todo : \/ rs[i].why = "refresh" /\ rs[i].status # "started" /\ (rs[i].engine # life \/ i \notin Live)
                               \/ rs[i].status = "selected" /\ rs[i].engine = 0}
     IN /\ rows' = [i \in Rids |-> IF i \in gone THEN [rs[i] EXCEPT !.status = "failed", !.why = "changed"] ELSE rs[i]]
        /\ IF gone = {} \/ rewound THEN UNCHANGED cursor ELSE RestoreBefore(rs, First(gone))
  /\ pc' = "fill" /\ todo' = {} /\ ids' = {} /\ rewound' = FALSE

----------------------------------------------------------------------------
(* REFILL *)

Looks(late) ==
  /\ pc = "fill" /\ UNCHANGED <<cursor, fifo, air, life, lost, todo, ids, rewound>> /\ Work
  /\ unread' = <<>>
  /\ \E seen \in {Observed(Vanished(StartedRows), late)} :
       LET ms == Maintained(seen, Requeued(seen, Confirmed(rows)))
       IN rows' = Retracted(seen, ms) /\ requests' = ms
  /\ auto' = TRUE
  /\ IF ~auto THEN pc' = "idle" /\ back' = "idle" /\ room' = 0
     ELSE /\ pc' = "select" /\ UNCHANGED back
          /\ room' = IF back = "remove" THEN room ELSE Depth

Waits == Unseen(Vanished(StartedRows))
Fill == \E late \in SUBSET Waits : Looks(late)

Finish == pc' = back /\ back' = "idle" /\ room' = 0
(* choose, bind: the first request that is eligible for this selection.     *)
Select ==
  /\ pc = "select" /\ UNCHANGED <<engineVars, auto, refreshing>> /\ Work
  /\ IF Len(fifo) >= room \/ Len(rows) = MaxRows THEN Finish /\ UNCHANGED database
     ELSE \E r \in {None} \cup {q \in Request : open /\ requests[q] = "pending"} :
            /\ rows' = Append(rows, [status |-> "selected", why |-> "", sig |-> programming,
                                     slot |-> cursor, engine |-> 0, request |-> r])
            /\ requests' = [q \in Request |-> IF q = r THEN "queued" ELSE requests[q]]
            /\ cursor' = cursor + 1 /\ pc' = "push" /\ UNCHANGED <<back, room>>
New == Len(rows)
(* validate_decision *)
Eligible == rows[New].request # None =>
  requests[rows[New].request] \notin Terminal /\ open /\ rows[New].sig = programming
Failed(why) == rows' = [rows EXCEPT ![New] = [@ EXCEPT !.status = "failed", !.why = why]]
Cancelled ==
  /\ Goes("push", "select") /\ ~Eligible /\ Failed("cancelled")
  /\ UNCHANGED <<requests, cursor, engineVars, back, room, auto, refreshing>> /\ Work
Push ==
  /\ Goes("push", "record") /\ Eligible /\ fifo' = Append(fifo, New)
  /\ UNCHANGED <<air, life, unread, lost, database, back, room, auto, refreshing>> /\ Work
PushFails(accepted) ==
  /\ pc = "push" /\ Eligible /\ Outage /\ Finish /\ Failed("queue_failed")
  /\ fifo' = IF accepted THEN Append(fifo, New) ELSE fifo
  /\ UNCHANGED <<air, life, unread, lost, requests, cursor, web, auto, refreshing>>
Record ==
  /\ Goes("record", "select")
  /\ rows' = [rows EXCEPT ![New] = [@ EXCEPT !.status = "queued", !.engine = life]]
  /\ UNCHANGED <<requests, cursor, engineVars, back, room, auto, refreshing>> /\ Work

Engine == Takes \/ Ends
Worker == Begin \/ Mark \/ Prefill \/ RemoveFuture \/ Settle \/ Fill \/ Select \/ Cancelled \/ Push \/ Record
Faults == Crash \/ EngineRestarts \/ \E accepted \in BOOLEAN : PushFails(accepted)
Web    == Edit \/ \E r \in Request : Submit(r) \/ Reject(r)
Next   == Engine \/ Worker \/ Faults \/ Web
Spec   == Init /\ [][Next]_lookaheadVars
(* Passes go on, so that again and again one finds every wait over.         *)
FairSpec == Spec /\ WF_lookaheadVars(Worker) /\ SF_lookaheadVars(Looks(Waits)) /\ WF_lookaheadVars(Engine)

----------------------------------------------------------------------------
(* PROPERTIES *)

(* The type invariant. *)
TypeOK ==
  /\ rows \in Seq(Rows) /\ Len(rows) <= MaxRows /\ cursor \in 0..MaxRows
  /\ fifo \in Seq(Rids) /\ air \in Rids \cup {None} /\ unread \in Seq(Rids)
  /\ requests \in [Request -> Outstanding \cup Terminal \cup {"none"}]
  /\ todo \subseteq Rids /\ ids \subseteq Rids

Aired(i) == rows[i].status = "started" \/ i \in Range(unread) \/ i \in lost
(* A request is played once, whatever crashes, edits and answers that are   *)
(* lost, unless the START of its first play went with its engine.           *)
RequestPlaysOnce ==
  \A i, j \in Rids : i # j /\ rows[i].request # None /\ rows[i].request = rows[j].request
    /\ Aired(i) /\ (j \in Live \/ Aired(j)) => i \in lost \/ j \in lost

(* One position of the programming is not played twice.                     *)
SlotPlaysOnce ==
  \A i, j \in Rids : i # j /\ rows[i].slot = rows[j].slot /\ rows[i].sig = rows[j].sig /\ rows[i].sig # 0
    => ~(Aired(i) /\ (Aired(j) \/ j \in Live))

(* Neither is played twice; a position only as long as the worker and the   *)
(* engine live and the station is refilled whenever it is refreshed.  The   *)
(* cursor is rewound over selections that stay in the queue by a worker     *)
(* that dies between the removal of a refresh and its record, by one whose  *)
(* engine restarts after a refill retracted a row, and by a refresh of a    *)
(* station that is held.                                                    *)
Undisturbed == faults.crash = 0 /\ faults.outage = 0 /\ Refilled = {TRUE}
LookaheadPlaysOnce == RequestPlaysOnce /\ (Undisturbed => SlotPlaysOnce)

(* A request that automation took does not stay with it: it is played, or   *)
(* waits again, or ends, whatever became of the selection that carried it.  *)
Queued == {r \in Request : requests[r] = "queued"}
RequestSettles == \A r \in Request : (r \in Queued) ~> (r \notin Queued)
(* What a refresh marked leaves the queue, or was already on the air.       *)
Retracting(i) == i \in Rids /\ rows[i].why = "refresh" /\ rows[i].status # "started"
RefreshEnds == \A i \in 1..MaxRows : Retracting(i) ~> ~Retracting(i)
=============================================================================

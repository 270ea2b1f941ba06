------------------------------ MODULE Bulletin ------------------------------
(***************************************************************************)
(* External bulletins: occurrences of timed events whose audio is fetched   *)
(* from elsewhere, prepared by the automation worker and played by a part   *)
(* of the engine that reserves the event bus and gives it back by itself.   *)
(* The worker reads, commands and commits in separate steps; downloads,     *)
(* the engine's clock and other holders of the bus run between them.        *)
(***************************************************************************)
EXTENDS Naturals, FiniteSets

CONSTANTS
  Occ,          \* occurrences, of one station
  File,         \* those fetched as a file; the others are live feeds
  Framed,       \* those with an intro and an outro
  MaxEdits,     \* bound: the operator's edits and cancellations
  MaxStops      \* bound: deaths of the worker, restarts of the engine, lost feeds

VARIABLES
  row,        \* the occurrence: state, revision, and its runtime
  time,       \* "early", "due", "late" of each occurrence
  job,        \* the worker's downloads, by occurrence
  file,       \* the fetched file: of which revision; 0 none
  worker,     \* where the pass of the worker is
  engine,     \* the engine's bulletin
  bus,        \* who reserved the event bus, and whether it is on air
  bodies,     \* times a body began, by occurrence and revision
  decisions,  \* rows that say a body was aired
  edits, stops

db == <<row, time, edits>>
engineVars == <<engine, bus, bodies>>
bulletinVars == <<db, job, file, worker, engineVars, decisions, stops>>

Fresh(rev) == [state |-> "PENDING", rev |-> rev, bulletin |-> 0, fetch |-> 0, ready |-> FALSE,
               era |-> 0, started |-> FALSE]
Free    == [of |-> "none", playing |-> FALSE]
Unused(era) == [id |-> "none", phase |-> "IDLE", heard |-> FALSE, began |-> FALSE, rev |-> 0, era |-> era]
Idle    == [pc |-> "idle", on |-> "none", allow |-> FALSE, seen |-> "IDLE", began |-> FALSE, rev |-> 0]
Holding == {"PREPARING", "READY", "INTRO", "BODY", "OUTRO"}
Playing == {"INTRO", "BODY", "OUTRO"}

Init ==
  /\ row = [o \in Occ |-> Fresh(1)] /\ time = [o \in Occ |-> "early"]
  /\ job = [o \in Occ |-> [status |-> "none", rev |-> 0]] /\ file = [o \in Occ |-> 0]
  /\ worker = Idle /\ engine = Unused(1) /\ bus = Free
  /\ bodies = [o \in Occ |-> [r \in 1..(MaxEdits + 1) |-> 0]] /\ decisions = [o \in Occ |-> 0] /\ edits = 0 /\ stops = 0

Stops == stops < MaxStops /\ stops' = stops + 1
Steady == UNCHANGED stops

----------------------------------------------------------------------------
(* THE OPERATOR AND THE CLOCK *)

Passes(o) ==
  /\ time[o] # "late" /\ time' = [time EXCEPT ![o] = IF @ = "early" THEN "due" ELSE "late"]
  /\ UNCHANGED <<row, edits, job, file, worker, engineVars, decisions, stops>>

(* An edit cancels what has not started and makes it again, under the next  *)
(* revision; a cancellation by the operator stays.                          *)
Cancellable(o) == row[o].state \in {"PENDING", "READY", "QUEUED"}
Edit(o) ==
  /\ edits < MaxEdits /\ edits' = edits + 1 /\ worker.pc = "idle" /\ Cancellable(o)
  /\ row' = [row EXCEPT ![o] = [Fresh(@.rev + 1) EXCEPT !.started = row[o].started]]
  /\ UNCHANGED <<time, job, file, worker, engineVars, decisions, stops>>
Cancel(o) ==
  /\ edits < MaxEdits /\ edits' = edits + 1 /\ worker.pc = "idle" /\ Cancellable(o)
  /\ row' = [row EXCEPT ![o].state = "CANCELLED", ![o].bulletin = 0, ![o].fetch = 0,
                        ![o].ready = FALSE, ![o].era = 0]
  /\ UNCHANGED <<time, job, file, worker, engineVars, decisions, stops>>

(* The next part of the worker's pass expires what is past its deadline.    *)
Expire(o) ==
  /\ worker.pc = "idle" /\ time[o] = "late" /\ row[o].state \in {"PENDING", "READY"}
  /\ row' = [row EXCEPT ![o].state = "MISSED"]
  /\ UNCHANGED <<time, edits, job, file, worker, engineVars, decisions, stops>>

----------------------------------------------------------------------------
(* THE ENGINE *)

(* bulletin_finish: the queues are emptied and a reservation is given back. *)
Finished(phase) ==
  /\ engine' = [engine EXCEPT !.phase = phase, !.heard = FALSE]
  /\ bus' = IF bus.of = engine.id THEN Free ELSE bus
Finish(phase) == Finished(phase) /\ UNCHANGED bodies

Body ==
  IF engine.heard
  THEN /\ engine' = [engine EXCEPT !.phase = "BODY", !.began = TRUE]
       /\ bodies' = [bodies EXCEPT ![engine.id][engine.rev] = @ + 1] /\ UNCHANGED bus
  ELSE Finish("FAILED")
BodyEnds ==
  IF engine.id \in Framed THEN engine' = [engine EXCEPT !.phase = "OUTRO"] /\ UNCHANGED <<bus, bodies>>
                          ELSE Finish("COMPLETED")

OffEngine == UNCHANGED <<db, job, file, worker, decisions>>

Sounds ==     \* a file is decoded, a feed connects and is not silent
  /\ engine.phase = "PREPARING" /\ engine' = [engine EXCEPT !.heard = TRUE, !.phase = "READY"]
  /\ UNCHANGED <<bus, bodies, stops>> /\ OffEngine
FeedLost ==
  /\ Stops /\ engine.phase \in Holding /\ engine.id \notin File /\ engine.heard
  /\ engine' = [engine EXCEPT !.heard = FALSE] /\ UNCHANGED <<bus, bodies>> /\ OffEngine

(* The engine's clock: the lease or the deadline is over, an operator took  *)
(* the program, or the bulletin has the bus and goes on.                    *)
TimeIsUpUnplayed ==   \* mutant of TimeIsUp: only before the bulletin is on air
  engine.phase \in Holding \ Playing /\ Finish("FAILED") /\ Steady /\ OffEngine
TimeIsUp == engine.phase \in Holding /\ Finish("FAILED") /\ Steady /\ OffEngine
OnAir == bus = [of |-> engine.id, playing |-> TRUE]
Taken == engine.phase \in Holding /\ OnAir /\ Finish("FAILED") /\ Steady /\ OffEngine
Begins ==
  /\ engine.phase = "READY" /\ OnAir /\ Steady /\ OffEngine
  /\ IF engine.heard /\ engine.id \in Framed
     THEN engine' = [engine EXCEPT !.phase = "INTRO"] /\ UNCHANGED <<bus, bodies>>
     ELSE Body
IntroEnds == engine.phase = "INTRO" /\ OnAir /\ Body /\ Steady /\ OffEngine
BodyTick ==
  /\ engine.phase = "BODY" /\ OnAir /\ Steady /\ OffEngine
  /\ IF engine.heard THEN BodyEnds ELSE Finish("FAILED")
OutroEnds == engine.phase = "OUTRO" /\ OnAir /\ Finish("COMPLETED") /\ Steady /\ OffEngine

Boundary ==   \* what was on air when the bus was armed has ended
  /\ bus.of # "none" /\ ~bus.playing /\ bus' = [bus EXCEPT !.playing = TRUE]
  /\ UNCHANGED <<engine, bodies, stops>> /\ OffEngine
OtherEvent == \* another timed event reserves the bus, and gives it back
  /\ IF bus.of = "other" THEN bus' = Free
     ELSE bus.of = "none" /\ bus' = [of |-> "other", playing |-> FALSE]
  /\ UNCHANGED <<engine, bodies, stops>> /\ OffEngine

EngineRestarts ==
  /\ Stops /\ engine' = Unused(engine.era + 1) /\ bus' = Free
  /\ UNCHANGED bodies /\ OffEngine

----------------------------------------------------------------------------
(* THE DOWNLOADS *)

Fetched(o) ==
  /\ job[o].status = "running" /\ job' = [job EXCEPT ![o].status = "done"]
  /\ file' = [file EXCEPT ![o] = job[o].rev]
  /\ UNCHANGED <<db, worker, engineVars, decisions, stops>>
FetchFails(o) ==
  /\ job[o].status = "running" /\ job' = [job EXCEPT ![o].status = "failed"]
  /\ file' = [file EXCEPT ![o] = 0]
  /\ UNCHANGED <<db, worker, engineVars, decisions, stops>>

----------------------------------------------------------------------------
(* THE WORKER'S PASS *)

Drop(o)   == job' = [job EXCEPT ![o] = [status |-> "none", rev |-> 0]]
Goes(pc)  == worker' = [worker EXCEPT !.pc = pc]
Rests     == worker' = Idle
NoCommand == UNCHANGED engineVars
Fails(o)  == row' = [row EXCEPT ![o].state = "FAILED"] /\ file' = [file EXCEPT ![o] = 0]
(* freo_bulletin.cancel *)
CancelIn(o) == IF engine.id = o THEN Finish("FAILED") ELSE NoCommand

(* What is over, or was made again, leaves the engine; downloads that       *)
(* nobody waits for are reaped; then one occurrence is chosen.              *)
Abandoned(o) ==
  \/ row[o].state \in {"FAILED", "MISSED", "CANCELLED"}
  \/ row[o].state = "PENDING" /\ ~row[o].ready
Old == engine.id \in Occ /\ Abandoned(engine.id) /\ engine.phase \in Holding
Reaped == {o \in Occ : job[o].status \in {"done", "failed"} /\ row[o].state \notin {"PENDING", "READY"}}
Active == {o \in Occ : row[o].state \in {"READY", "QUEUED", "STARTED"}}
Waiting == {o \in Occ : row[o].state = "PENDING" /\ time[o] # "late"}
Chosen(allow) ==
  IF Active # {} THEN Active ELSE IF allow /\ Waiting # {} THEN Waiting ELSE {"none"}
Look ==
  /\ worker.pc = "idle" /\ IF Old THEN Finish("FAILED") ELSE NoCommand
  /\ job' = [o \in Occ |-> IF o \in Reaped THEN [status |-> "none", rev |-> 0] ELSE job[o]]
  /\ file' = [o \in Occ |-> IF o \in Reaped \/ (Old /\ o = engine.id) THEN 0 ELSE file[o]]
  /\ \E allow \in BOOLEAN : \E o \in Chosen(allow) :
       worker' = IF o = "none" THEN Idle
                 ELSE [Idle EXCEPT !.pc = IF row[o].state = "PENDING" THEN "prepare" ELSE "observe",
                                   !.on = o, !.allow = allow]
  /\ UNCHANGED <<db, decisions, stops>>

(* prepare: the definition is copied into the occurrence, the file fetched  *)
(* by a thread, and what came back compared with the revision.              *)
Room == Cardinality({o \in Occ : job[o].status # "none"}) < 2
StartsFetch(o) ==
  /\ worker.on = o /\ job[o].status = "none" /\ row[o].fetch = 0 /\ Room
  /\ row' = [row EXCEPT ![o].bulletin = IF @ = 0 THEN row[o].rev ELSE @, ![o].fetch = row[o].rev]
  /\ job' = [job EXCEPT ![o] = [status |-> "running", rev |-> row'[o].bulletin]]
  /\ Rests /\ UNCHANGED file
FetchInterrupted(o) ==
  /\ worker.on = o /\ job[o].status = "none" /\ row[o].fetch # 0 /\ Fails(o) /\ Rests /\ UNCHANGED job
StillFetching(o) ==
  /\ worker.on = o /\ (job[o].status = "running" \/ (job[o].status = "none" /\ row[o].fetch = 0 /\ ~Room))
  /\ row' = [row EXCEPT ![o].bulletin = IF @ = 0 THEN row[o].rev ELSE @] /\ Rests /\ UNCHANGED <<job, file>>
FetchFailed(o) ==
  /\ worker.on = o /\ job[o].status = "failed" /\ Drop(o) /\ Rests
  /\ row' = [row EXCEPT ![o].state = "FAILED"] /\ UNCHANGED file
StaleIfKnown(o) == row[o].fetch \notin {0, row[o].rev}   \* mutant of Stale
Stale(o) == row[o].fetch # row[o].rev
FetchStale(o) ==
  /\ worker.on = o /\ job[o].status = "done" /\ Stale(o) /\ Drop(o) /\ Rests
  /\ file' = [file EXCEPT ![o] = 0]
  /\ row' = [row EXCEPT ![o].fetch = 0, ![o].bulletin = IF @ = 0 THEN row[o].rev ELSE @]
MarksReady(o, rev) ==
  /\ row' = [row EXCEPT ![o].state = "READY", ![o].ready = TRUE, ![o].era = engine.era,
                        ![o].bulletin = IF @ = 0 THEN row[o].rev ELSE @]
  /\ worker' = [worker EXCEPT !.pc = "hand", !.rev = rev]
FetchDone(o) ==
  /\ worker.on = o /\ job[o].status = "done" /\ ~Stale(o) /\ Drop(o)
  /\ MarksReady(o, file[o]) /\ UNCHANGED file
FeedChosen(o) == worker.on = o /\ MarksReady(o, row[o].rev) /\ UNCHANGED <<job, file>>
Unavailable(o) ==   \* an intro or outro cannot be played any more, or the relay is missing
  /\ worker.on = o /\ (o \notin File \/ (job[o].status = "done" /\ ~Stale(o)))
  /\ Drop(o) /\ Fails(o) /\ Rests
Prepare ==
  /\ worker.pc = "prepare" /\ NoCommand /\ UNCHANGED <<time, edits, decisions, stops>>
  /\ \E o \in Occ :
       IF o \in File
       THEN \/ StartsFetch(o) \/ FetchInterrupted(o) \/ StillFetching(o) \/ FetchFailed(o)
            \/ FetchStale(o) \/ FetchDone(o) \/ Unavailable(o)
       ELSE FeedChosen(o) \/ Unavailable(o)

(* freo_bulletin.prepare in the engine, and what the worker makes of it.    *)
Accepts(o) == bus.of = "none" /\ engine.phase \notin Holding
Takes(o) ==
  IF engine.id = o THEN NoCommand /\ Goes("observe") /\ UNCHANGED <<row, file>>
  ELSE IF Accepts(o)
  THEN /\ engine' = [id |-> o, phase |-> "PREPARING", heard |-> FALSE, began |-> FALSE,
                     rev |-> worker.rev, era |-> engine.era]
       /\ Goes("observe") /\ UNCHANGED <<row, file, bus, bodies>>
  ELSE NoCommand /\ Fails(o) /\ Rests
Hand ==
  /\ worker.pc = "hand" /\ Takes(worker.on)
  /\ UNCHANGED <<time, edits, job, decisions, stops>>

(* The engine's state is read, and its lease renewed.                       *)
Known(o) == engine.id = o /\ row[o].era = engine.era
Observe ==
  /\ worker.pc = "observe" /\ NoCommand /\ UNCHANGED <<time, edits, job, decisions, stops>>
  /\ LET o == worker.on
     IN IF Known(o)
        THEN /\ worker' = [worker EXCEPT !.pc = "judge", !.seen = engine.phase, !.began = engine.began]
             /\ UNCHANGED <<row, file>>
        ELSE Fails(o) /\ Rests

(* A body that was heard is recorded with the next commit, once.            *)
CountsAgain(o) == worker.began   \* mutant of Counts
Counts(o) == worker.began /\ ~row[o].started
Records(o) == decisions' = IF Counts(o) THEN [decisions EXCEPT ![o] = @ + 1] ELSE decisions
Becomes(o, state) == row' = [row EXCEPT ![o].state = state, ![o].started = @ \/ worker.began]
Over(o) ==
  /\ worker.seen \in {"FAILED", "COMPLETED"} /\ Records(o) /\ Becomes(o, worker.seen)
  /\ file' = [file EXCEPT ![o] = 0] /\ Rests /\ NoCommand
IsPlaying(o) ==
  worker.seen \in Playing /\ Records(o) /\ Becomes(o, "STARTED") /\ Rests /\ NoCommand /\ UNCHANGED file
GivesUp(o) ==
  /\ worker.seen \in {"PREPARING", "READY"} /\ (worker.seen = "PREPARING" \/ time[o] = "late")
  /\ CancelIn(o) /\ Fails(o) /\ Rests /\ UNCHANGED decisions
OthersPlay(o) == \E p \in Occ \ {o} : row[p].state \in {"QUEUED", "STARTED"}
NotYet(o) ==
  /\ worker.seen \in {"PREPARING", "READY"} /\ time[o] # "late"
  /\ (worker.seen = "READY" /\ worker.allow /\ time[o] = "due" => OthersPlay(o) \/ bus.of = "other")
  /\ Rests /\ NoCommand /\ UNCHANGED <<row, file, decisions>>
Arms(o) ==
  /\ worker.seen = "READY" /\ worker.allow /\ time[o] = "due"
  /\ row[o].state = "READY" => ~OthersPlay(o)
  /\ IF bus.of \in {"none", o}
     THEN /\ bus' = IF bus.of = o THEN bus ELSE [of |-> o, playing |-> FALSE]
          /\ Goes("commit") /\ UNCHANGED <<engine, bodies, row, file>>
     ELSE CancelIn(o) /\ Fails(o) /\ Rests
  /\ UNCHANGED decisions
Judge ==
  /\ worker.pc = "judge" /\ UNCHANGED <<time, edits, job, stops>>
  /\ \E o \in {worker.on} : Over(o) \/ IsPlaying(o) \/ GivesUp(o) \/ NotYet(o) \/ Arms(o)
Commit ==
  /\ worker.pc = "commit" /\ row' = [row EXCEPT ![worker.on].state = "QUEUED"] /\ Rests /\ NoCommand
  /\ UNCHANGED <<time, edits, job, file, decisions, stops>>

WorkerDies ==
  /\ Stops /\ Rests /\ job' = [o \in Occ |-> [status |-> "none", rev |-> 0]]
  /\ UNCHANGED <<db, file, engineVars, decisions>>

Worker == Look \/ Prepare \/ Hand \/ Observe \/ Judge \/ Commit
Clock  == Begins \/ IntroEnds \/ BodyTick \/ OutroEnds
Next ==
  \/ \E o \in Occ : Passes(o) \/ Edit(o) \/ Cancel(o) \/ Expire(o) \/ Fetched(o) \/ FetchFails(o)
  \/ Sounds \/ FeedLost \/ TimeIsUp \/ Taken \/ Clock \/ Boundary \/ OtherEvent \/ EngineRestarts
  \/ Worker \/ WorkerDies
Spec == Init /\ [][Next]_bulletinVars
FairSpec == Spec /\ WF_bulletinVars(Worker) /\ WF_bulletinVars(TimeIsUp)
                 /\ WF_bulletinVars(\E o \in Occ : Passes(o)) /\ WF_bulletinVars(\E o \in Occ : Fetched(o))

----------------------------------------------------------------------------
TypeOK ==
  /\ row \in [Occ -> [state : {"PENDING", "READY", "QUEUED", "STARTED", "COMPLETED", "FAILED", "MISSED", "CANCELLED"},
                      rev : 1..(MaxEdits + 1), bulletin : 0..(MaxEdits + 1), fetch : 0..(MaxEdits + 1),
                      ready : BOOLEAN, era : 0..(MaxStops + 1), started : BOOLEAN]]
  /\ time \in [Occ -> {"early", "due", "late"}] /\ file \in [Occ -> 0..(MaxEdits + 1)]
  /\ job \in [Occ -> [status : {"none", "running", "done", "failed"}, rev : 0..(MaxEdits + 1)]]
  /\ worker.pc \in {"idle", "prepare", "hand", "observe", "judge", "commit"} /\ worker.on \in Occ \cup {"none"}
  /\ engine.id \in Occ \cup {"none"} /\ engine.phase \in Holding \cup {"IDLE", "FAILED", "COMPLETED"}
  /\ bus.of \in Occ \cup {"none", "other"} /\ bus.playing \in BOOLEAN
  /\ edits \in 0..MaxEdits /\ stops \in 0..MaxStops

(* A definition's body is aired once, whatever is edited, lost or           *)
(* restarted, and the history says once that a bulletin was aired, and only  *)
(* of one that was.                                                         *)
Aired(o) == \E r \in 1..(MaxEdits + 1) : bodies[o][r] # 0
AiredOnce ==
  \A o \in Occ : /\ \A r \in 1..(MaxEdits + 1) : bodies[o][r] <= 1
                 /\ decisions[o] <= 1 /\ (decisions[o] = 1 => Aired(o))

(* What the engine is given to play was fetched for the definition the      *)
(* event has then: a download begun before an edit is thrown away.          *)
CurrentIsHanded ==
  [][engine'.phase = "PREPARING" /\ engine.phase # "PREPARING" =>
       engine'.rev = row[engine'.id].rev]_bulletinVars

(* A bulletin that was queued or started comes to an end in the history,    *)
(* although the worker, the engine or the feed may go away at any moment.   *)
Unended == {o \in Occ : row[o].state \in {"QUEUED", "STARTED"}}
BulletinsEnd == \A o \in Occ : (o \in Unended) ~> (o \notin Unended)

(* Refuted: a bulletin that reserved the program gives it back, because the *)
(* engine's lease and deadline end what nobody else does.                   *)
BusReleased == \A o \in Occ : (bus.of = o) ~> (bus.of # o)
=============================================================================

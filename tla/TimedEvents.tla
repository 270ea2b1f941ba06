---------------------------- MODULE TimedEvents ----------------------------
(***************************************************************************)
(* Timed events that play one track: the web service defines, edits,       *)
(* disables and cancels; occurrences are generated ahead; the worker       *)
(* prepares a decision for each, hands it to the engine at its boundary    *)
(* and follows it to its END.  The station row is the lock both sides      *)
(* take; what this module is about is what happens where it is not held.   *)
(*                                                                         *)
(* The handoff protocol itself (ids, log pages, socket identity at the     *)
(* time of the push) is Playout's; here a request is named by its          *)
(* decision, the engine restarts in one step, and audio that is no event   *)
(* is only "music" on air.  Sequences of several items are EventSequence.  *)
(***************************************************************************)
EXTENDS Naturals, FiniteSets, SequencesExt

CONSTANTS
  Event,        \* definitions
  Count,        \* occurrences are 1..Count, in the order upcoming() lists them
  EventOf,      \* the definition of each occurrence
  Due,          \* scheduled_for_utc of each occurrence
  Hard,         \* the HARD definitions; the others are SOFT
  Cuts,         \* the HARD definitions that may interrupt music
  Once,         \* definitions exempt from coalescing: ONE_TIME or PLAY_LATE
  Early, Late,  \* tolerances of each definition
  Lead,         \* occurrences are prepared 60 s ahead
  Background,   \* whether other programmes air between events
  MaxTime, MaxRevision, Faulty, MaxFault   \* bounds

Occ == 1..Count

ASSUME DefinitionAssumption ==
  /\ Count \in Nat /\ EventOf \in [Occ -> Event] /\ Due \in [Occ -> Nat]
  /\ Hard \subseteq Event /\ Cuts \subseteq Hard /\ Once \subseteq Event
  /\ Early \in [Event -> Nat] /\ Late \in [Event -> Nat] /\ Lead \in Nat
  /\ Background \in BOOLEAN
  /\ \A o, p \in Occ : o < p => Due[o] <= Due[p]
ASSUME BoundsAssumption ==
  /\ MaxTime \in Nat /\ MaxRevision \in Nat \ {0} /\ MaxFault \in Nat
  /\ Faulty \subseteq {"crash", "stop", "answer"}

(* A definition is prepared at most once per occurrence and revision.      *)
Decision == [occ: Occ, rev: 1..MaxRevision]
NoDecision == [occ |-> 0, rev |-> 0]
Silence == [occ |-> 0, rev |-> 1]
Music   == [occ |-> 0, rev |-> 2]

VARIABLES
  \* TimedEvent rows
  revision, enabled, generated,
  \* TimedEventOccurrence rows
  state, byUser, rev, reserved, sel,
  \* SelectionDecision rows and EventQueueCancellation rows
  status, bound, job,
  \* the engine: its process, the event requests it holds, the unread lines
  \* of its event file
  epoch, queue, onair, log,
  \* the worker: step, inventory, missing requests, candidates
  pc, seen, missing, rows, cur, dec,
  \* the row lock on the station is the worker's
  held,
  \* the time a tick works with
  now,
  faults

eventVars  == <<revision, enabled, generated>>
occVars    == <<state, byUser, rev, reserved, sel>>
decVars    == <<status, bound, job>>
engineVars == <<epoch, queue, onair, log>>
memVars    == <<pc, seen, missing, rows, cur, dec, held>>
vars       == <<eventVars, occVars, decVars, engineVars, memVars, now, faults>>

States == {"absent", "PENDING", "READY", "QUEUED", "STARTED", "COMPLETED", "MISSED", "FAILED",
           "CANCELLED"}
Waiting == {"PENDING", "READY", "QUEUED"}
Statuses == {"none", "selected", "submitting", "queued", "started", "failed"}

Elements(s) == {s[i] : i \in DOMAIN s}
OccOf(e)    == {o \in Occ : EventOf[o] = e}
Current(o)  == [occ |-> o, rev |-> sel[o]]          \* occurrence.selection_decision
Linked(d)   == sel[d.occ] = d.rev                   \* decision.timed_event_occurrence
Holds       == Elements(queue) \cup ({onair} \cap Decision)
Fault(kind) == kind \in Faulty /\ faults < MaxFault /\ faults' = faults + 1

Init ==
  /\ revision = [e \in Event |-> 1] /\ enabled = [e \in Event |-> TRUE]
  /\ generated = [e \in Event |-> FALSE]
  /\ state = [o \in Occ |-> "absent"] /\ byUser = [o \in Occ |-> FALSE]
  /\ rev = [o \in Occ |-> 0] /\ reserved = [o \in Occ |-> FALSE] /\ sel = [o \in Occ |-> 0]
  /\ status = [d \in Decision |-> "none"] /\ bound = [d \in Decision |-> 0]
  /\ job = [d \in Decision |-> "none"]
  /\ epoch = 1 /\ queue = <<>> /\ onair = Silence /\ log = <<>>
  /\ pc = "collect" /\ seen = {} /\ missing = [d \in Decision |-> "no"]
  /\ rows = {} /\ cur = 0 /\ dec = NoDecision /\ held = FALSE
  /\ now = 0 /\ faults = 0

----------------------------------------------------------------------------
(* The web service; each action is one transaction under the station lock. *)

Cancellable(o) == /\ state[o] \in Waiting \cup {"CANCELLED"}
                  /\ ~(state[o] = "CANCELLED" /\ byUser[o])

(* cancel_occurrence for every occurrence of os: what the engine may hold  *)
(* gets a cancellation job, what was only selected fails at once.          *)
Cancel(os, user) ==
  LET old == {Current(o) : o \in {p \in os : sel[p] # 0}}
  IN /\ job' = [d \in Decision |->
          IF d \in old /\ status[d] \in {"queued", "submitting"} /\ job[d] = "none"
          THEN "pending" ELSE job[d]]
     /\ status' = [d \in Decision |->
          IF d \in old /\ status[d] = "selected" THEN "failed" ELSE status[d]]
     /\ state' = [o \in Occ |-> IF o \in os THEN "CANCELLED" ELSE state[o]]
     /\ byUser' = [o \in Occ |-> IF o \in os THEN user ELSE byUser[o]]
     /\ sel' = [o \in Occ |-> IF o \in os THEN 0 ELSE sel[o]]
     /\ reserved' = [o \in Occ |-> IF o \in os THEN FALSE ELSE reserved[o]]
     /\ UNCHANGED <<rev, bound>>

CancelOccurrence(o) ==
  /\ ~held /\ Cancellable(o)
  /\ Cancel({o}, TRUE)
  /\ UNCHANGED <<eventVars, engineVars, memVars, now, faults>>

(* save_event on an existing row, set_enabled, timezone_changed: all go    *)
(* through invalidate().                                                   *)
Invalidate(e, on) ==
  /\ ~held /\ revision[e] < MaxRevision
  /\ Cancel({o \in OccOf(e) : Cancellable(o)}, FALSE)
  /\ revision' = [revision EXCEPT ![e] = @ + 1]
  /\ enabled' = [enabled EXCEPT ![e] = on]
  /\ generated' = [generated EXCEPT ![e] = FALSE]
  /\ UNCHANGED <<engineVars, memVars, now, faults>>

(* generate_occurrences: a cancelled occurrence comes back, unless a       *)
(* person cancelled it.                                                    *)
Stale == {e \in Event : enabled[e] /\ ~generated[e]}
\* variant: any cancelled occurrence comes back
RevivedAnyway == {o \in Occ : EventOf[o] \in Stale /\ state[o] \in {"absent", "CANCELLED"}}
Revived == {o \in Occ : /\ EventOf[o] \in Stale
                        /\ \/ state[o] = "absent"
                           \/ state[o] = "CANCELLED" /\ ~byUser[o]}
\* variant: the revision is raised after the rows are written
ScheduledNext ==
  /\ rev' = [o \in Occ |-> IF o \in Revived THEN revision[EventOf[o]] + 1 ELSE rev[o]]
  /\ generated' = [e \in Event |-> generated[e] \/ e \in Stale]
Scheduled ==
  /\ rev' = [o \in Occ |-> IF o \in Revived THEN revision[EventOf[o]] ELSE rev[o]]
  /\ generated' = [e \in Event |-> generated[e] \/ e \in Stale]

WebGenerate ==
  /\ ~held /\ Stale # {}
  /\ state' = [o \in Occ |-> IF o \in Revived THEN "PENDING" ELSE state[o]]
  /\ Scheduled
  /\ UNCHANGED <<revision, enabled, byUser, reserved, sel, decVars, engineVars, memVars, now,
                 faults>>

----------------------------------------------------------------------------
(* The engine, and the clock. *)
Line(kind, d) == [kind |-> kind, dec |-> d]

Starts ==
  /\ onair = Silence /\ queue # <<>>
  /\ onair' = Head(queue) /\ queue' = Tail(queue) /\ log' = Append(log, Line("START", Head(queue)))
  /\ UNCHANGED <<eventVars, occVars, decVars, epoch, memVars, now, faults>>

(* Audio ends; an interrupted request writes no END. *)
Ends(written) ==
  /\ onair \in Decision
  /\ onair' = Silence
  /\ log' = IF written THEN Append(log, Line("END", onair)) ELSE log
  /\ UNCHANGED <<eventVars, occVars, decVars, epoch, queue, memVars, now, faults>>

MusicStarts ==
  /\ Background /\ onair = Silence /\ queue = <<>> /\ onair' = Music
  /\ UNCHANGED <<eventVars, occVars, decVars, epoch, queue, log, memVars, now, faults>>

MusicEnds ==
  /\ onair = Music /\ onair' = Silence
  /\ UNCHANGED <<eventVars, occVars, decVars, epoch, queue, log, memVars, now, faults>>

EngineRestart ==
  /\ Fault("stop")
  /\ epoch' = epoch + 1 /\ queue' = <<>> /\ onair' = Silence /\ log' = <<>>
  /\ UNCHANGED <<eventVars, occVars, decVars, pc, seen, missing, rows, cur, dec, held, now>>

(* A tick works with the time at which it began. *)
Tick ==
  /\ pc = "collect" /\ now < MaxTime /\ now' = now + 1
  /\ UNCHANGED <<eventVars, occVars, decVars, engineVars, memVars, faults>>

----------------------------------------------------------------------------
(* The worker's tick: collect, reconcile_requests, recovery of submitting  *)
(* rows, then process_timed_events.                                        *)

(* What ends a tick early, and what a fresh process knows. *)
Restarted ==
  /\ pc' = "collect" /\ seen' = {} /\ rows' = {} /\ cur' = 0 /\ dec' = NoDecision /\ held' = FALSE

(* playback_started. *)
Confirm(d) ==
  /\ IF status[d] \in {"selected", "submitting", "queued", "failed"}
     THEN /\ status' = [status EXCEPT ![d] = "started"]
          /\ bound' = IF status[d] = "submitting" /\ bound[d] = 0
                      THEN [bound EXCEPT ![d] = epoch] ELSE bound
          /\ state' = IF Linked(d) THEN [state EXCEPT ![d.occ] = "STARTED"] ELSE state
     ELSE UNCHANGED <<status, bound, state>>

(* confirm_finished: the END of what this engine plays. *)
Finish(d) ==
  /\ state' = IF status[d] = "started" /\ bound[d] = epoch /\ Linked(d) /\ state[d.occ] = "STARTED"
              THEN [state EXCEPT ![d.occ] = "COMPLETED"] ELSE state
  /\ UNCHANGED <<status, bound>>

(* collect() applies the unread lines of the event file one by one, each    *)
(* in a transaction.  A fresh process reads the file again from its         *)
(* beginning; the lines already applied change nothing then.                *)
Record ==
  /\ pc = "collect" /\ log # <<>> /\ log' = Tail(log)
  /\ \/ Head(log).kind = "START" /\ Confirm(Head(log).dec)
     \/ Head(log).kind = "END" /\ Finish(Head(log).dec)
  /\ UNCHANGED <<eventVars, byUser, rev, reserved, sel, job, epoch, queue, onair, pc, seen, missing, rows,
                 cur, dec, held, now, faults>>

Collect ==
  /\ pc = "collect" /\ log = <<>> /\ pc' = "inventory"
  /\ UNCHANGED <<eventVars, occVars, decVars, engineVars, seen, missing, rows, cur, dec, held, now,
                 faults>>

(* The socket inventory of reconcile_requests. *)
Inventory ==
  /\ pc = "inventory" /\ pc' = "reconcile" /\ seen' = Holds
  /\ UNCHANGED <<eventVars, occVars, decVars, engineVars, missing, rows, cur, dec, held,
                 now, faults>>

WindowCloses(d) ==
  /\ missing[d] = "open" /\ missing' = [missing EXCEPT ![d] = "closed"]
  /\ UNCHANGED <<eventVars, occVars, decVars, engineVars, pc, seen, rows, cur, dec, held,
                 now, faults>>

(* Playing occurrences whose engine is gone, or whose request has been     *)
(* absent for its length and 120 s more; queued requests that are gone.    *)
Playing     == {o \in Occ : state[o] = "STARTED" /\ sel[o] # 0 /\ status[Current(o)] = "started"
                            /\ bound[Current(o)] # 0}
\* variant: no repair of what plays
NoneInterrupted == {}
Interrupted == {o \in Playing : \/ bound[Current(o)] # epoch
                                \/ Current(o) \notin seen /\ missing[Current(o)] = "closed"}
Gone        == {d \in Decision : status[d] = "queued" /\ (bound[d] # epoch \/ d \notin seen)}
Lost        == {d \in Gone : bound[d] # epoch \/ missing[d] = "closed"}

Reconcile ==
  /\ pc = "reconcile"
  /\ status' = [d \in Decision |-> IF d \in Lost THEN "failed" ELSE status[d]]
  /\ state' = [o \in Occ |->
       IF \/ o \in Interrupted
          \/ state[o] = "QUEUED" /\ sel[o] # 0 /\ Current(o) \in Lost
       THEN "FAILED" ELSE state[o]]
  /\ missing' = [d \in Decision |->
       IF \/ d \in Gone \ Lost
          \/ \E o \in Playing \ Interrupted : d = Current(o) /\ d \notin seen
       THEN IF missing[d] = "no" THEN "open" ELSE missing[d] ELSE "no"]
  /\ pc' = "resolve" /\ seen' = Holds      \* process_manual takes its own inventory
  /\ UNCHANGED <<eventVars, byUser, rev, reserved, sel, bound, job, engineVars, rows, cur,
                 dec, held, now, faults>>

Resolve ==
  /\ pc = "resolve"
  /\ LET open == {d \in Decision : status[d] = "submitting"}
     IN /\ status' = [d \in Decision |->
             IF d \in open THEN IF d \in seen THEN "queued" ELSE "selected" ELSE status[d]]
        /\ bound' = [d \in Decision |-> IF d \in open \cap seen THEN epoch ELSE bound[d]]
  /\ pc' = "timed" /\ seen' = {}
  /\ UNCHANGED <<eventVars, occVars, job, engineVars, missing, rows, cur, dec, held,
                 now, faults>>

(* process_timed_events: repair what has started, generate, expire_due.    *)
\* variant: whatever was confirmed is playing
BeganAnyState == {o \in Occ : sel[o] # 0 /\ status[Current(o)] = "started"}
Began == {o \in Occ : state[o] \in Waiting /\ sel[o] # 0 /\ status[Current(o)] = "started"}
Refresh ==
  /\ pc = "timed" /\ pc' = "expire"
  /\ state' = [o \in Occ |-> IF o \in Revived THEN "PENDING"
                            ELSE IF o \in Began THEN "STARTED" ELSE state[o]]
  /\ Scheduled
  /\ UNCHANGED <<revision, enabled, byUser, reserved, sel, decVars, engineVars, seen, missing,
                 rows, cur, dec, held, now, faults>>

(* What may expire; a reserved boundary outlives its deadline. *)
\* variant: a reservation does not protect
ExpirableOrReserved == {o \in Occ : state[o] \in {"PENDING", "READY"}}
Expirable == {o \in Occ : state[o] \in {"PENDING", "READY"} /\ ~reserved[o]}
Expired   == {o \in Expirable : Due[o] + Late[EventOf[o]] < now}
Repeated  == {o \in Expirable \ Expired :
                EventOf[o] \notin Once /\ Due[o] <= now
                /\ \E p \in OccOf(EventOf[o]) \ Expired :
                     /\ Due[p] > Due[o] /\ Due[p] <= now
                     /\ state[p] \in Waiting \cup {"STARTED", "COMPLETED"}}
ExpireDue ==
  /\ pc = "expire"
  /\ state' = [o \in Occ |-> IF o \in Expired \cup Repeated THEN "MISSED" ELSE state[o]]
  /\ status' = [d \in Decision |->
       IF Linked(d) /\ d.occ \in Expired \cup Repeated /\ status[d] = "selected"
       THEN "failed" ELSE status[d]]
  /\ pc' = "sweep"
  /\ UNCHANGED <<eventVars, byUser, rev, reserved, sel, bound, job, engineVars, seen, missing,
                 rows, cur, dec, held, now, faults>>

(* process_event_cancellations: remove the requests of the jobs, named by  *)
(* stored id or by annotation, and settle the rows; then list candidates,  *)
(* unless an event is on air.                                              *)
Jobs == {d \in Decision : job[d] = "pending"}
\* variant: jobs are closed without removing anything
NoneFound == {}
Found == {d \in Jobs : bound[d] \in {0, epoch}}
\* SelectSeq, as a recursive function
Without(s, gone) ==
  LET kept[n \in 0 .. Len(s)] ==
        IF n = 0 THEN <<>>
        ELSE IF s[n] \in gone THEN kept[n - 1] ELSE Append(kept[n - 1], s[n])
  IN  kept[Len(s)]
Sweep ==
  /\ pc = "sweep"
  /\ queue' = Without(queue, Found)
  /\ status' = [d \in Decision |-> IF d \in Jobs /\ status[d] # "started" THEN "failed" ELSE status[d]]
  /\ job' = [d \in Decision |-> IF d \in Jobs THEN "done" ELSE job[d]]
  /\ LET busy == \E o \in Occ : state[o] = "STARTED" /\ sel[o] # 0 /\ onair = Current(o)
     IN /\ rows' = IF busy THEN {} ELSE {o \in Occ : state[o] \in Waiting /\ enabled[EventOf[o]]}
        /\ pc' = IF busy THEN "collect" ELSE "scan"
  /\ UNCHANGED <<eventVars, occVars, bound, epoch, onair, log, seen, missing, cur, dec,
                 held,
                 now, faults>>

----------------------------------------------------------------------------
(* The scan: the first candidate left, re-read under the station lock.     *)
First(o)      == pc = "scan" /\ o \in rows /\ \A p \in rows : o <= p
Superseded(o) == /\ EventOf[o] \notin Once /\ ~reserved[o]
                 /\ \E p \in rows \cap OccOf(EventOf[o]) : Due[p] > Due[o] /\ Due[p] <= now
Overdue(o)    == now > Due[o] + Late[EventOf[o]] /\ state[o] \notin {"QUEUED", "STARTED"} /\ ~reserved[o]
Adoptable(o)  == state[o] \in {"PENDING", "READY"} /\ sel[o] # 0 /\ status[Current(o)] = "queued"
Distant(o)    == state[o] = "PENDING" /\ Due[o] > now + Lead

scanned == <<eventVars, byUser, rev, bound, job, engineVars, seen, missing, now, faults>>

(* A decision that is queued already: the row follows it, and with the     *)
(* commit the lock is gone.  The scan goes on with this row, whatever has  *)
(* become of it.                                                           *)
Adopt(o) ==
  /\ First(o) /\ Adoptable(o)
  /\ state' = [state EXCEPT ![o] = "QUEUED"]
  /\ cur' = o /\ pc' = "adopted"
  /\ UNCHANGED <<scanned, reserved, sel, status, rows, dec, held>>

InHand(o) == \/ First(o) /\ state[o] \in Waiting /\ ~Adoptable(o)
             \/ pc = "adopted" /\ o = cur
Leave(o)  == rows' = rows \ {o} /\ cur' = 0 /\ pc' = "scan"

Miss(o) ==
  /\ InHand(o)
  /\ Superseded(o) \/ Overdue(o)
  /\ state' = [state EXCEPT ![o] = "MISSED"]
  /\ status' = [d \in Decision |->
       IF ~Superseded(o) /\ sel[o] # 0 /\ d = Current(o) /\ status[d] \in {"selected", "submitting"}
       THEN "failed" ELSE status[d]]
  /\ Leave(o)
  /\ UNCHANGED <<scanned, reserved, sel, dec, held>>

Eligible(o) == InHand(o) /\ ~Superseded(o) /\ ~Overdue(o)

Pass(o) ==
  /\ \/ First(o) /\ state[o] \notin Waiting
     \/ Eligible(o) /\ (state[o] \notin {"PENDING", "READY"} \/ Distant(o))
  /\ Leave(o)
  /\ UNCHANGED <<scanned, state, reserved, sel, status, dec, held>>

(* prepare_decision commits, and with the commit the lock is gone.         *)
Prepare(o) ==
  /\ Eligible(o) /\ state[o] = "PENDING" /\ ~Distant(o)
  /\ state' = [state EXCEPT ![o] = "READY"]
  /\ sel' = [sel EXCEPT ![o] = rev[o]]
  /\ status' = [status EXCEPT ![[occ |-> o, rev |-> rev[o]]] = "selected"]
  /\ cur' = o /\ pc' = "check"
  /\ UNCHANGED <<scanned, reserved, rows, dec, held>>

Unplayable(o) ==
  /\ Eligible(o) /\ state[o] = "PENDING" /\ ~Distant(o)
  /\ state' = [state EXCEPT ![o] = "FAILED"]
  /\ Leave(o)
  /\ UNCHANGED <<scanned, reserved, sel, status, dec, held>>

Consider(o) ==
  /\ Eligible(o) /\ state[o] = "READY"
  /\ cur' = o /\ pc' = "check" /\ held' = (pc = "scan")
  /\ UNCHANGED <<scanned, state, reserved, sel, status, rows, dec>>

(* One event owns the queue; it must be due; a HARD one must be allowed to *)
(* cut in, a SOFT one waits for every other event's request to leave.      *)
Owned(o) == \E p \in Occ \ {o} : state[p] = "QUEUED"
DueNow(o) == IF EventOf[o] \in Hard THEN now >= Due[o] ELSE now + Early[EventOf[o]] >= Due[o]
Open(o) == IF EventOf[o] \in Hard
           THEN onair = Silence \/ (onair = Music /\ EventOf[o] \in Cuts)
           ELSE queue = <<>>
MayGo(o) == state[o] = "READY" /\ ~Owned(o) /\ DueNow(o) /\ Open(o)

Wait ==
  /\ pc = "check" /\ ~MayGo(cur)
  /\ rows' = rows \ {cur} /\ cur' = 0 /\ pc' = "scan" /\ held' = FALSE
  /\ UNCHANGED <<scanned, state, reserved, sel, status, dec>>

(* interrupt_for_event: freo_queue.flush_and_skip. *)
CutIn ==
  /\ pc = "check" /\ MayGo(cur) /\ EventOf[cur] \in Hard
  /\ queue' = <<>> /\ onair' = Silence
  /\ dec' = Current(cur) /\ pc' = "submit"
  /\ UNCHANGED <<eventVars, occVars, decVars, epoch, log, seen, missing, rows, cur, held, now,
                 faults>>

Reserve ==
  /\ pc = "check" /\ MayGo(cur) /\ EventOf[cur] \notin Hard
  /\ dec' = Current(cur) /\ pc' = "submit"
  /\ UNCHANGED <<scanned, state, reserved, sel, status, rows, cur, held>>

(* _queue_event: the first commit writes the reservation and 'submitting'. *)
Submit ==
  /\ pc = "submit"
  /\ status' = [status EXCEPT ![dec] = "submitting"]
  /\ reserved' = IF EventOf[cur] \in Hard THEN reserved ELSE [reserved EXCEPT ![cur] = TRUE]
  /\ pc' = "push" /\ held' = FALSE
  /\ UNCHANGED <<scanned, state, sel, rows, cur, dec>>

(* push_decision: it locks the station and re-reads the occurrence only if *)
(* the occurrence still names the decision.                                *)
Valid == Linked(dec) =>
  \/ state[cur] = "STARTED"
  \/ /\ enabled[EventOf[cur]] /\ state[cur] \in Waiting
     /\ rev[cur] = revision[EventOf[cur]]
Accept == queue' = IF EventOf[cur] \in Hard THEN Append(queue, dec) ELSE <<dec>> \o queue

Push ==
  /\ pc = "push" /\ Valid
  /\ Accept
  /\ held' = Linked(dec) /\ pc' = "ack"
  /\ UNCHANGED <<eventVars, occVars, decVars, epoch, onair, log, seen, missing, rows, cur, dec,
                 now, faults>>

(* Refused, by the revalidation or by the storage; or accepted without an  *)
(* answer: the tick ends with the row still submitting.                    *)
PushFails ==
  /\ pc = "push" /\ Restarted
  /\ \/ ~Valid /\ UNCHANGED <<queue, faults>>
     \/ Valid /\ Fault("answer") /\ (Accept \/ UNCHANGED queue)
  /\ UNCHANGED <<eventVars, occVars, decVars, epoch, onair, log, missing, now>>

Ack ==
  /\ pc = "ack" /\ Restarted
  /\ status' = [status EXCEPT ![dec] = "queued"]
  /\ bound' = [bound EXCEPT ![dec] = epoch]
  /\ state' = [state EXCEPT ![cur] = "QUEUED"]
  /\ UNCHANGED <<eventVars, byUser, rev, reserved, sel, job, engineVars, missing, now,
                 faults>>

ScanDone ==
  /\ pc = "scan" /\ rows = {} /\ Restarted
  /\ UNCHANGED <<eventVars, occVars, decVars, engineVars, missing, now, faults>>

WorkerCrash ==
  /\ Fault("crash") /\ Restarted
  /\ missing' = [d \in Decision |-> "no"]
  /\ UNCHANGED <<eventVars, occVars, decVars, engineVars, now>>

----------------------------------------------------------------------------
Web    == \/ WebGenerate
          \/ \E o \in Occ : CancelOccurrence(o)
          \/ \E e \in Event, on \in BOOLEAN : Invalidate(e, on)
Engine == Starts \/ MusicStarts \/ MusicEnds \/ \E w \in BOOLEAN : Ends(w)
Follow == \/ Collect \/ Record \/ Inventory \/ Reconcile \/ Resolve
          \/ Refresh \/ ExpireDue \/ Sweep
Scan   == \/ Wait \/ CutIn \/ Reserve \/ Submit \/ Push \/ PushFails \/ Ack \/ ScanDone
          \/ \E o \in Occ : \/ Adopt(o) \/ Miss(o) \/ Pass(o) \/ Prepare(o) \/ Unplayable(o)
                            \/ Consider(o)
Worker == Follow \/ Scan
Faults == EngineRestart \/ WorkerCrash

Next == Web \/ Engine \/ Worker \/ Faults \/ Tick \/ \E d \in Decision : WindowCloses(d)

Fairness ==
  /\ WF_vars(Worker)
  /\ WF_vars(Starts) /\ WF_vars(MusicEnds \/ \E written \in BOOLEAN : Ends(written))
  /\ \A d \in Decision : WF_vars(WindowCloses(d))

Spec     == Init /\ [][Next]_vars
FairSpec == Spec /\ Fairness

----------------------------------------------------------------------------
(* Properties. *)

(* The type invariant. *)
TypeOK ==
  /\ revision \in [Event -> 1..MaxRevision] /\ enabled \in [Event -> BOOLEAN]
  /\ generated \in [Event -> BOOLEAN]
  /\ state \in [Occ -> States] /\ byUser \in [Occ -> BOOLEAN] /\ rev \in [Occ -> 0..MaxRevision]
  /\ reserved \in [Occ -> BOOLEAN] /\ sel \in [Occ -> 0..MaxRevision]
  /\ status \in [Decision -> Statuses] /\ bound \in [Decision -> Nat]
  /\ job \in [Decision -> {"none", "pending", "done"}]
  /\ epoch \in Nat /\ queue \in Seq(Decision) /\ onair \in Decision \cup {Silence, Music}
  /\ log \in Seq([kind: {"START", "END"}, dec: Decision])
  /\ pc \in {"collect", "inventory", "reconcile", "resolve", "timed", "expire", "sweep",
             "scan", "adopted", "check", "submit", "push", "ack"}
  /\ seen \subseteq Decision /\ rows \subseteq Occ
  /\ missing \in [Decision -> {"no", "open", "closed"}]
  /\ cur \in Occ \cup {0} /\ dec \in Decision \cup {NoDecision}
  /\ now \in 0..MaxTime /\ faults \in 0..MaxFault /\ held \in BOOLEAN

(* "A durable exception so generation does not recreate it": an occurrence *)
(* that a person cancelled, and that the worker is not just handing to the *)
(* engine, never comes back: whatever is edited, generated, confirmed or   *)
(* crashes afterwards, it is not prepared, queued, played or open to edits *)
(* again.  (While it is handed over, the acknowledgement overwrites the    *)
(* cancellation: CancelledStaysCancelled below does not hold.)             *)
HandedOver(o) == cur = o /\ pc \in {"submit", "push", "ack"}
Withdrawn(o)  == byUser[o] /\ state[o] \in {"CANCELLED", "MISSED"} /\ ~HandedOver(o)
CancellationSurvivesEdits == [][\A o \in Occ : Withdrawn(o) => Withdrawn(o)']_vars

(* A boundary, once reserved, is not given up for lateness or for a later  *)
(* repeat, by the sweep of stale occurrences or by the scan.               *)
ReservedIsNotMissed ==
  [][\A o \in Occ : reserved[o] /\ reserved'[o] => ~(state[o] # "MISSED" /\ state'[o] = "MISSED")]_vars

(* "Later worker passes cannot resurrect the failed occurrence from that   *)
(* historical start": an occurrence that plays can only complete or fail,   *)
(* and then stays so, whatever is edited, cancelled, expired, restarted or  *)
(* acknowledged late.                                                       *)
Settled(o) == state[o] = "COMPLETED" \/ (state[o] = "FAILED" /\ sel[o] # 0
                                         /\ status[Current(o)] = "started")
PlayedOnlySettles ==
  [][\A o \in Occ : /\ Settled(o) => state'[o] = state[o]
                    /\ state[o] = "STARTED" => state'[o] \in {"STARTED", "COMPLETED", "FAILED"}]_vars

(* "Cancellation removes the event's future requests, including requests   *)
(* whose acceptance response was lost": when a cancellation is processed   *)
(* its request is no longer waiting in the engine, and never comes back.   *)
WithdrawnIsRemoved == \A d \in Decision : job[d] = "done" => d \notin Elements(queue)

(* "A missing END is failure, not evidence of successful playback", and    *)
(* "restart marks interrupted event execution failed": no occurrence whose  *)
(* start is tied to an engine stays Playing for ever, whether its audio     *)
(* ends, is cut, or dies with the engine, and whoever edits meanwhile.      *)
PlayingEnds == \A o \in Occ :
  (state[o] = "STARTED" /\ sel[o] # 0 /\ bound[Current(o)] # 0) ~> state[o] \in {"COMPLETED", "FAILED"}

(* "Concurrent edits and cancellation serialize on the station record": an *)
(* occurrence a person cancelled before it started is not queued by the    *)
(* worker afterwards.                                                      *)
CancelledStaysCancelled ==
  [][\A o \in Occ : byUser[o] /\ state[o] = "CANCELLED" => state'[o] = "CANCELLED"]_vars
=============================================================================

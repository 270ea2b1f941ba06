--------------------------- MODULE EventSequence ---------------------------
(***************************************************************************)
(* One execution of an ordered sequence (event_blocks, process_block): a   *)
(* frozen list of items that owns the station's queue until it is over.    *)
(* A timed execution stages all its items in one command; one that a clock *)
(* starts hands them over one by one.  The module begins where the         *)
(* execution and its items have just been committed.                       *)
(*                                                                         *)
(* The web service may abort it, or cancel its occurrence; the engine may  *)
(* restart, the worker die, an answer get lost, content become unplayable. *)
(* The handoff of one request is Playout's, definitions are TimedEvents'.  *)
(***************************************************************************)
EXTENDS Naturals, FiniteSets, SequencesExt

CONSTANTS
  Count,        \* items are 1..Count, by position
  Aborting,     \* the items with failure_policy ABORT_BLOCK; the others are skipped
  Staged,       \* the kinds of execution: TRUE timed, FALSE clock
  MaxTry,       \* bound: decisions made for one item
  Faulty, MaxFault   \* bounds

Item == 1..Count

ASSUME SequenceAssumption ==
  /\ Count \in Nat \ {0} /\ Aborting \subseteq Item /\ Staged \subseteq BOOLEAN
  /\ MaxTry \in Nat \ {0} /\ MaxFault \in Nat
  /\ Faulty \subseteq {"crash", "stop", "answer", "content"}

Decision == [item: Item, try: 1..MaxTry]
Silence  == [item |-> 0, try |-> 0]

VARIABLES
  \* EventBlockExecution, its items, its occurrence
  exec, abort, item, try, timed, linked, occ,
  \* SelectionDecision and EventQueueCancellation rows; known are the decisions
  \* whose request id is recorded
  status, bound, job, known,
  \* the engine, and the unread lines of its event file
  epoch, queue, onair, log, aired,
  \* the worker; late is 1 when a decision's length has passed, 2 after 120 s more
  pc, block, seen, missing, late, batch, held,
  faults

rowVars    == <<exec, abort, item, try, timed, linked, occ>>
decVars    == <<status, bound, job, known>>
engineVars == <<epoch, queue, onair, log, aired>>
memVars    == <<pc, block, seen, missing, late, batch, held>>
vars       == <<rowVars, decVars, engineVars, memVars, faults>>

Active   == {"PENDING", "QUEUED", "STARTED"}
Over     == {"COMPLETED", "ABORTED", "FAILED", "CANCELLED"}
Finished == {"COMPLETED", "SKIPPED", "FAILED"}

Elements(s) == {s[i] : i \in DOMAIN s}
Dec(p)      == [item |-> p, try |-> try[p]]         \* item.selection_decision
Has(p)      == try[p] # 0
Owns(d)     == try[d.item] = d.try                  \* decision.block_item_execution
StatusOf(p) == IF Has(p) THEN status[Dec(p)] ELSE "none"
With(st)    == {p \in Item : item[p] = st}
Live        == Elements(queue) \cup ({onair} \cap Decision)
Fault(kind) == kind \in Faulty /\ faults < MaxFault /\ faults' = faults + 1

Init ==
  /\ exec = "PENDING" /\ abort = FALSE /\ item = [p \in Item |-> "PENDING"]
  /\ try = [p \in Item |-> 0] /\ timed \in Staged /\ linked = timed
  /\ occ = IF timed THEN "READY" ELSE "none"
  /\ status = [d \in Decision |-> "none"] /\ bound = [d \in Decision |-> 0]
  /\ job = [d \in Decision |-> "none"] /\ known = {}
  /\ epoch = 1 /\ queue = <<>> /\ onair = Silence /\ log = <<>> /\ aired = <<>>
  /\ pc = "collect" /\ block = FALSE /\ seen = {} /\ missing = [d \in Decision |-> "no"]
  /\ late = [d \in Decision |-> 0] /\ batch = <<>> /\ held = FALSE
  /\ faults = 0

----------------------------------------------------------------------------
(* The web service. *)

RequestAbort ==
  /\ exec \in Active /\ ~abort /\ abort' = TRUE
  /\ UNCHANGED <<exec, item, try, timed, linked, occ, decVars, engineVars, memVars, faults>>

(* cancel_occurrence of a timed execution: what may be in the engine gets  *)
(* a job, the occurrence lets go of the execution.                         *)
CancelOccurrence ==
  /\ linked /\ ~held /\ occ \in {"READY", "QUEUED"} /\ exec # "STARTED"
  /\ LET old == {Dec(p) : p \in {q \in Item : Has(q)}}
     IN /\ job' = [d \in Decision |->
             IF d \in old /\ status[d] \in {"queued", "submitting"} /\ job[d] = "none"
             THEN "pending" ELSE job[d]]
        /\ status' = [d \in Decision |->
             IF d \in old /\ status[d] = "selected" THEN "failed" ELSE status[d]]
  /\ exec' = "CANCELLED" /\ linked' = FALSE /\ occ' = "CANCELLED"
  /\ UNCHANGED <<abort, item, try, timed, bound, known, engineVars, memVars, faults>>

----------------------------------------------------------------------------
(* The engine, and time. *)
Line(kind, d) == [kind |-> kind, dec |-> d]

Starts ==
  /\ onair = Silence /\ queue # <<>>
  /\ onair' = Head(queue) /\ queue' = Tail(queue)
  /\ log' = Append(log, Line("START", Head(queue)))
  /\ aired' = Append(aired, [item |-> Head(queue).item, epoch |-> epoch])
  /\ UNCHANGED <<rowVars, decVars, epoch, memVars, faults>>

(* An interrupted request writes no END. *)
Ends(written) ==
  /\ onair # Silence /\ onair' = Silence
  /\ log' = IF written THEN Append(log, Line("END", onair)) ELSE log
  /\ UNCHANGED <<rowVars, decVars, epoch, queue, aired, memVars, faults>>

EngineRestart ==
  /\ Fault("stop")
  /\ epoch' = epoch + 1 /\ queue' = <<>> /\ onair' = Silence /\ log' = <<>>
  /\ UNCHANGED <<rowVars, decVars, aired, memVars>>

WindowCloses(d) ==
  /\ missing[d] = "open" /\ missing' = [missing EXCEPT ![d] = "closed"]
  /\ UNCHANGED <<rowVars, decVars, engineVars, pc, block, seen, late, batch, held, faults>>

LengthPasses(d) ==
  /\ status[d] = "started" /\ item[d.item] = "STARTED" /\ Owns(d) /\ late[d] < 2
  /\ late' = [late EXCEPT ![d] = @ + 1]
  /\ UNCHANGED <<rowVars, decVars, engineVars, pc, block, seen, missing, batch, held, faults>>

----------------------------------------------------------------------------
(* Rows as one value, for the lines of a page and for nested updates. *)
Rows == [exec |-> exec, item |-> item, occ |-> occ, status |-> status, bound |-> bound, job |-> job]
Write(r) == \E w \in {r} :                       \* (TLC evaluates r once)
  /\ exec' = w.exec /\ item' = w.item /\ occ' = w.occ
  /\ status' = w.status /\ bound' = w.bound /\ job' = w.job

(* The occurrence follows, if there is one.                                *)
\* variant: once it is queued
TellQueued(r, st) == IF linked /\ r.occ \in {"QUEUED", "STARTED"} THEN [r EXCEPT !.occ = st] ELSE r
Tell(r, st) == IF linked THEN [r EXCEPT !.occ = st] ELSE r

(* finish_execution: a partial run completes, an entirely failed one fails. *)
\* variant: an entirely failed run completes
FinishAsSuccess(r) == Tell([r EXCEPT !.exec = "COMPLETED"], "COMPLETED")
FinishExecution(r) ==
  LET played == \E p \in Item : r.item[p] = "COMPLETED"
  IN Tell([r EXCEPT !.exec = IF played THEN "COMPLETED" ELSE "FAILED"],
          IF played THEN "COMPLETED" ELSE "FAILED")

(* cancel_future_items. *)
WithdrawItems(r, to) ==
  LET future == {p \in Item : r.item[p] \in {"PENDING", "QUEUED", "FAILED"}}
      old    == {Dec(p) : p \in {q \in future : Has(q)}}
  IN [r EXCEPT
       !.job = [d \in Decision |->
         IF d \in old /\ r.status[d] \in {"queued", "submitting"} /\ r.job[d] = "none"
         THEN "pending" ELSE r.job[d]],
       !.status = [d \in Decision |->
         IF d \in old /\ r.status[d] = "selected" THEN "failed" ELSE r.status[d]],
       !.item = [p \in Item |-> IF p \in future /\ r.item[p] # "FAILED" THEN to ELSE r.item[p]]]
\* variant: a state that items do not have
CancelWithExecution(r) == WithdrawItems(r, "CANCELLED")
CancelFutureItems(r) == WithdrawItems(r, "SKIPPED")

(* playback_started with confirm_item_started: the items before it are     *)
(* over, and the execution plays, whatever it was.                         *)
Confirm(r, d) ==
  IF r.status[d] \notin {"selected", "submitting", "queued", "failed"} THEN r
  ELSE LET s == [r EXCEPT !.status[d] = "started",
                          !.bound[d] = IF r.status[d] = "submitting" /\ r.bound[d] = 0
                                       THEN epoch ELSE r.bound[d]]
       IN IF ~Owns(d) THEN s
          ELSE Tell([s EXCEPT
                 !.exec = "STARTED",
                 !.item = [p \in Item |-> IF p = d.item THEN "STARTED"
                                          ELSE IF p < d.item /\ r.item[p] = "STARTED"
                                          THEN "COMPLETED" ELSE r.item[p]]], "STARTED")

(* confirm_finished. *)
Finish(r, d) ==
  IF r.status[d] # "started" \/ r.bound[d] # epoch \/ ~Owns(d) \/ r.item[d.item] # "STARTED" THEN r
  ELSE LET s == [r EXCEPT !.item[d.item] = "COMPLETED"]
       IN IF s.exec \in Active \cup {"COMPLETED"} /\ \A p \in Item : s.item[p] \in Finished
          THEN FinishExecution(s) ELSE s

Apply(r, line) == IF line.kind = "START" THEN Confirm(r, line.dec) ELSE Finish(r, line.dec)
\* FoldLeft, as a recursive function
Applied(r, lines) ==
  LET after[n \in 0..Len(lines)] == IF n = 0 THEN r ELSE Apply(after[n - 1], lines[n])
  IN  after[Len(lines)]

(* Both process_manual and process_block begin by collecting the event     *)
(* file and by reconcile_requests; block says which of them is running.    *)
Collect ==
  /\ pc = "collect" /\ pc' = "inventory"
  /\ Write(Applied(Rows, log)) /\ log' = <<>>
  /\ UNCHANGED <<abort, try, timed, linked, known, epoch, queue, onair, aired, block, seen, missing,
                 late, batch, held, faults>>

Inventory ==
  /\ pc = "inventory" /\ pc' = "reconcile" /\ seen' = Live
  /\ UNCHANGED <<rowVars, decVars, engineVars, block, missing, late, batch, held, faults>>

(* reconcile_requests: the labels of finished executions, interrupted      *)
(* items, lost requests.  A request that started before its id was         *)
(* recorded has none, and counts as absent even while it is on air.        *)
Absent(d, present) == d \notin present \/ d \notin known
Interrupted == {p \in With("STARTED") :
  /\ Has(p) /\ status[Dec(p)] = "started" /\ bound[Dec(p)] # 0
  /\ \/ bound[Dec(p)] # epoch
     \/ Absent(Dec(p), seen) /\ late[Dec(p)] = 2}
Gone == {d \in Decision : status[d] = "queued" /\ (bound[d] # epoch \/ d \notin seen)}
\* variant: a request that left the engine is waited for
LostWithEngine == {d \in Gone : bound[d] # epoch}
Lost == {d \in Gone : bound[d] # epoch \/ missing[d] = "closed"}
Relabelled == linked /\ exec \in Over /\ occ \in {"QUEUED", "STARTED"}

Reconcile ==
  /\ pc = "reconcile"
  /\ occ' = IF ~Relabelled THEN occ ELSE IF exec = "ABORTED" THEN "FAILED" ELSE exec
  /\ item' = [p \in Item |-> IF p \in Interrupted THEN "FAILED" ELSE item[p]]
  /\ status' = [d \in Decision |-> IF d \in Lost THEN "failed" ELSE status[d]]
  /\ missing' = [d \in Decision |->
       IF d \notin Gone \ Lost THEN "no" ELSE IF missing[d] = "no" THEN "open" ELSE missing[d]]
  /\ pc' = IF block THEN "act" ELSE "resolve"
  /\ seen' = IF block THEN {} ELSE Live            \* process_manual takes its own inventory
  /\ UNCHANGED <<exec, abort, try, timed, linked, bound, job, known, engineVars, block, late, batch,
                 held, faults>>

Resolve ==
  /\ pc = "resolve" /\ pc' = "sweep" /\ seen' = {}
  /\ LET open == {d \in Decision : status[d] = "submitting"}
     IN /\ status' = [d \in Decision |->
             IF d \in open THEN IF d \in seen THEN "queued" ELSE "selected" ELSE status[d]]
        /\ bound' = [d \in Decision |-> IF d \in open \cap seen THEN epoch ELSE bound[d]]
        /\ known' = known \cup (open \cap seen)
  /\ UNCHANGED <<rowVars, job, engineVars, block, missing, late, batch, held, faults>>

(* process_event_cancellations. *)
Jobs == {d \in Decision : job[d] = "pending"}
\* variant: jobs are closed without removing anything
NoneFound == {}
Found == {d \in Jobs : bound[d] \in {0, epoch}}
\* SelectSeq, as a recursive function
Without(s, gone) ==
  LET kept[n \in 0..Len(s)] ==
        IF n = 0 THEN <<>>
        ELSE IF s[n] \in gone THEN kept[n - 1] ELSE Append(kept[n - 1], s[n])
  IN  kept[Len(s)]
Sweep ==
  /\ pc = "sweep" /\ queue' = Without(queue, Found)
  /\ status' = [d \in Decision |-> IF d \in Jobs /\ status[d] # "started" THEN "failed" ELSE status[d]]
  /\ job' = [d \in Decision |-> IF d \in Jobs THEN "done" ELSE job[d]]
  /\ block' = (~block /\ exec \in Active) /\ pc' = "collect"
  /\ UNCHANGED <<rowVars, bound, known, epoch, onair, log, aired, seen, missing, late, batch, held,
                 faults>>

----------------------------------------------------------------------------
(* process_block, after it has reconciled. *)
resting == <<try, timed, linked, abort, known, engineVars, seen, missing, late, held, faults>>

(* What one pass writes before it ends the tick, or goes on to sweep.      *)
Done(r, next) == Write(r) /\ pc' = next /\ block' = (next = "sweep") /\ batch' = <<>>

Abort ==
  /\ pc = "act" /\ abort
  /\ Done([Tell(CancelFutureItems(Rows), "CANCELLED") EXCEPT !.exec = "ABORTED"], "sweep")
  /\ UNCHANGED resting

(* Items whose request was recovered. *)
Adopted == {p \in With("PENDING") : StatusOf(p) = "queued"}
Adopt ==
  /\ pc = "act" /\ ~abort /\ Adopted # {}
  /\ Write(Tell([Rows EXCEPT !.exec = "QUEUED",
                   !.item = [p \in Item |-> IF p \in Adopted THEN "QUEUED" ELSE item[p]]], "QUEUED"))
  /\ UNCHANGED <<resting, pc, block, batch>>

Ready  == pc = "act" /\ ~abort /\ Adopted = {}
Whole  == linked /\ exec = "PENDING" /\ \A p \in Item : item[p] \in {"PENDING", "FAILED", "SKIPPED"}

(* submit_snapshot: what is playable is committed as submitting, in order; *)
(* an unplayable item fails, and may fail the whole execution.             *)
Playable(bad) == Without([p \in Item |-> p], Item \ (With("PENDING") \ bad))
Fresh(p) == [item |-> p, try |-> IF Has(p) THEN try[p] ELSE 1]

Stage(bad) ==
  /\ Ready /\ Whole /\ bad \subseteq With("PENDING") /\ bad \cap Aborting = {}
  /\ IF bad = {} THEN UNCHANGED faults ELSE Fault("content")
  /\ Playable(bad) # <<>>
  /\ batch' = [i \in DOMAIN Playable(bad) |-> Fresh(Playable(bad)[i])]
  /\ try' = [p \in Item |-> IF p \in With("PENDING") \ bad THEN Fresh(p).try ELSE try[p]]
  /\ status' = [d \in Decision |-> IF d \in Elements(batch') THEN "submitting" ELSE status[d]]
  /\ item' = [p \in Item |-> IF p \in bad THEN "FAILED" ELSE item[p]]
  /\ pc' = "push"
  /\ UNCHANGED <<exec, abort, timed, linked, occ, bound, job, known, engineVars, block, seen, missing,
                 late, held>>

(* Nothing playable, or an item that aborts: the items before it have been *)
(* given decisions that nobody pushes.                                     *)
StageFails(bad) ==
  /\ Ready /\ Whole /\ bad \subseteq With("PENDING")
  /\ \/ bad = With("PENDING") /\ bad \cap Aborting = {}
     \/ \E p \in bad : p \in Aborting /\ \A q \in bad : q <= p
  /\ IF bad = {} THEN UNCHANGED faults ELSE Fault("content")
  /\ LET before == {p \in With("PENDING") \ bad : \E q \in bad : p < q}
     IN /\ try' = [p \in Item |-> IF p \in before THEN Fresh(p).try ELSE try[p]]
        /\ status' = [d \in Decision |->
             IF d \in {Fresh(p) : p \in before} THEN "submitting" ELSE status[d]]
  /\ item' = [p \in Item |-> IF p \in bad THEN "FAILED" ELSE item[p]]
  /\ exec' = "FAILED" /\ occ' = IF linked THEN "FAILED" ELSE occ
  /\ pc' = "collect" /\ block' = FALSE
  /\ UNCHANGED <<abort, timed, linked, bound, job, known, engineVars, seen, missing, late, batch,
                 held>>

(* push_sequence and push_decision: one command, under the station lock    *)
(* and after a fresh look at the occurrence, if there still is one.  A     *)
(* sequence is put in front of the queue, and so is a single item of a     *)
(* SOFT event; one of any other event, or of a clock, goes to the end.     *)
(* (The event's timing mode is left open.)                                 *)
Valid  == linked => occ \in {"READY", "QUEUED", "STARTED"}
Accept == \/ (pc = "push" \/ linked) /\ queue' = batch \o queue
          \/ pc = "push one" /\ queue' = queue \o batch

Submits(from, to) ==
  /\ pc = from /\ Valid /\ Accept
  /\ held' = linked /\ pc' = to
  /\ UNCHANGED <<rowVars, decVars, epoch, onair, log, aired, block, seen, missing, late, batch, faults>>
Push    == Submits("push", "ack")
PushOne == Submits("push one", "ack one")

(* The command is refused, or its answer is lost.                          *)
Refused == \/ ~Valid /\ UNCHANGED <<queue, faults>>
           \/ Valid /\ Fault("answer") /\ (Accept \/ UNCHANGED queue)

unsubmitted == <<abort, try, timed, linked, known, epoch, onair, log, aired, seen, missing, late, held>>
Pushed(r, st, p, is) == [r EXCEPT
  !.status = [d \in Decision |-> IF d \in Elements(batch) THEN st ELSE r.status[d]],
  !.item = [q \in Item |-> IF \E d \in Elements(batch) : d.item = q THEN p ELSE r.item[q]],
  !.exec = is]

(* submit_snapshot: a refused sequence fails as a whole, and everything    *)
(* that may have been accepted is removed.                                 *)
PushFails ==
  /\ pc = "push" /\ Refused
  /\ Done(Tell(Pushed(CancelFutureItems(Rows), "failed", "FAILED", "FAILED"), "FAILED"), "collect")
  /\ UNCHANGED unsubmitted
PushOneFails ==
  /\ pc = "push one" /\ Refused
  /\ Done(Pushed(Rows, "failed", "FAILED", IF batch[1].item \in Aborting THEN "FAILED" ELSE exec),
          "collect")
  /\ UNCHANGED unsubmitted

Bound(r) == [r EXCEPT
  !.bound = [d \in Decision |-> IF d \in Elements(batch) THEN epoch ELSE bound[d]]]
Ack ==
  /\ pc = "ack" /\ held' = FALSE /\ known' = known \cup Elements(batch)
  /\ Done(Tell(Bound(Pushed(Rows, "queued", "QUEUED", "QUEUED")), "QUEUED"), "collect")
  /\ UNCHANGED <<try, timed, linked, abort, engineVars, seen, missing, late, faults>>
AckOne ==
  /\ pc = "ack one" /\ held' = FALSE /\ known' = known \cup Elements(batch)
  /\ Done(Tell(Bound(Pushed(Rows, "queued", "QUEUED", IF exec = "PENDING" THEN "QUEUED" ELSE exec)),
               IF occ = "READY" THEN "QUEUED" ELSE occ), "collect")
  /\ UNCHANGED <<try, timed, linked, abort, engineVars, seen, missing, late, faults>>

(* Lost requests become failed items.                                      *)
LostItems == {p \in With("QUEUED") : StatusOf(p) = "failed"}
Rest == [Rows EXCEPT !.item = [p \in Item |-> IF p \in LostItems THEN "FAILED" ELSE item[p]]]
Left(st) == {p \in Item : Rest.item[p] = st}
Settles == Ready /\ ~Whole
Doomed  == LostItems \cap Aborting # {}

FailSequence ==
  /\ Settles /\ Doomed
  /\ Done([Tell(CancelFutureItems(Rest), "FAILED") EXCEPT !.exec = "FAILED"], "sweep")
  /\ UNCHANGED resting

FinishSequence ==
  /\ Settles /\ ~Doomed /\ Left("STARTED") \cup Left("PENDING") \cup Left("QUEUED") = {}
  /\ Done(FinishExecution(Rest), "collect")
  /\ UNCHANGED resting

(* prepare_next: the next item, one decision for every attempt.            *)
Next1 == Min(Left("PENDING"))
Advances == Settles /\ ~Doomed /\ Left("PENDING") # {} /\ Left("QUEUED") = {}
PrepareNext ==
  /\ Advances /\ try[Next1] < MaxTry
  /\ try' = [try EXCEPT ![Next1] = @ + 1]
  /\ batch' = <<[item |-> Next1, try |-> try[Next1] + 1]>>
  /\ status' = [status EXCEPT ![batch'[1]] = "submitting"]
  /\ item' = Rest.item /\ pc' = "push one"
  /\ UNCHANGED <<exec, abort, timed, linked, occ, bound, job, known, engineVars, block, seen, missing,
                 late, held, faults>>
NextUnavailable ==
  /\ Advances /\ Fault("content")
  /\ Done([Rest EXCEPT !.item[Next1] = "FAILED",
                       !.exec = IF Next1 \in Aborting THEN "FAILED" ELSE exec], "collect")
  /\ UNCHANGED <<try, timed, linked, abort, known, engineVars, seen, missing, late, held>>

(* The last item, absent and without its END: a timed execution calls      *)
(* it failed 120 s after its length, a clock's completed at once.          *)
Final == LET started == Left("STARTED") IN
  IF started # {} /\ Left("PENDING") \cup Left("QUEUED") = {} /\ Cardinality(started) = 1
  THEN started ELSE {}
Unended == {p \in Final : late[Dec(p)] >= (IF linked THEN 2 ELSE 1) /\ Absent(Dec(p), {onair})}
EndUnconfirmed ==
  /\ Settles /\ ~Doomed /\ Unended # {}
  /\ Done(FinishExecution([Rest EXCEPT !.item = [p \in Item |->
            IF p \in Unended THEN IF linked THEN "FAILED" ELSE "COMPLETED" ELSE Rest.item[p]]]),
          "collect")
  /\ UNCHANGED resting

KeepWaiting ==
  /\ Settles /\ ~Doomed /\ ~Advances /\ Unended = {}
  /\ Left("STARTED") \cup Left("QUEUED") # {}
  /\ Done(Rest, "collect")
  /\ UNCHANGED resting

WorkerCrash ==
  /\ Fault("crash")
  /\ pc' = "collect" /\ block' = FALSE /\ seen' = {} /\ batch' = <<>> /\ held' = FALSE
  /\ missing' = [d \in Decision |-> "no"]
  /\ UNCHANGED <<rowVars, decVars, engineVars, late>>

----------------------------------------------------------------------------
Web    == RequestAbort \/ CancelOccurrence
Engine == Starts \/ \E written \in BOOLEAN : Ends(written)
Passes == \E d \in Decision : WindowCloses(d) \/ LengthPasses(d)
Worker == \/ Collect \/ Inventory \/ Reconcile \/ Resolve \/ Sweep
          \/ Abort \/ Adopt \/ \E bad \in SUBSET Item : Stage(bad) \/ StageFails(bad)
          \/ Push \/ PushOne \/ PushFails \/ PushOneFails \/ Ack \/ AckOne
          \/ FailSequence \/ FinishSequence \/ PrepareNext \/ NextUnavailable
          \/ EndUnconfirmed \/ KeepWaiting

Next == Web \/ Engine \/ Passes \/ Worker \/ EngineRestart \/ WorkerCrash

(* The worker ticks as long as it lives, and systemd starts it again; the  *)
(* engine airs what it holds, audio has an end, time passes.               *)
Fairness == WF_vars(Worker) /\ WF_vars(Engine) /\ WF_vars(Passes)

Spec     == Init /\ [][Next]_vars
FairSpec == Spec /\ Fairness

----------------------------------------------------------------------------
(* Properties. *)

(* The type invariant. *)
TypeOK ==
  /\ exec \in Active \cup Over /\ abort \in BOOLEAN
  /\ item \in [Item -> {"PENDING", "QUEUED", "STARTED"} \cup Finished]
  /\ try \in [Item -> 0..MaxTry] /\ timed \in BOOLEAN /\ linked \in BOOLEAN
  /\ occ \in {"none", "READY", "QUEUED", "STARTED", "COMPLETED", "FAILED", "CANCELLED"}
  /\ status \in [Decision -> {"none", "selected", "submitting", "queued", "started", "failed"}]
  /\ bound \in [Decision -> Nat] /\ job \in [Decision -> {"none", "pending", "done"}]
  /\ known \subseteq Decision /\ epoch \in Nat /\ queue \in Seq(Decision) /\ onair \in Decision \cup {Silence}
  /\ log \in Seq([kind: {"START", "END"}, dec: Decision]) /\ aired \in Seq([item: Item, epoch: Nat])
  /\ pc \in {"collect", "inventory", "reconcile", "resolve", "sweep", "act", "push", "ack",
             "push one", "ack one"}
  /\ block \in BOOLEAN /\ seen \subseteq Decision /\ late \in [Decision -> 0..2]
  /\ missing \in [Decision -> {"no", "open", "closed"}] /\ batch \in Seq(Decision)
  /\ held \in BOOLEAN /\ faults \in 0..MaxFault

(* A "station-scoped ordered sequence": as long as the engine lives, items *)
(* are heard once and in the order of their positions, whatever is         *)
(* skipped, lost or retried.  (A restarted engine has lost the STARTs that *)
(* were not read: the items they name are heard again.)                    *)
InOrder == \A i, j \in DOMAIN aired :
  i < j /\ aired[i].epoch = aired[j].epoch => aired[i].item < aired[j].item

(* A sequence owns the queue while it lasts, so it must not last for ever. *)
Released == (exec \in Active) ~> (exec \in Over)

(* "Never call an entirely failed run success": what is called completed   *)
(* has been heard.                                                         *)
CompletedWasAired == exec = "COMPLETED" =>
  \E p \in Item : item[p] = "COMPLETED" /\ \E a \in Elements(aired) : a.item = p

(* What the record of a sequence says was heard, in the order it says.     *)
AiredAsRecorded == CompletedWasAired /\ InOrder

(* "Aborting a sequence removes future items and lets the active item      *)
(* finish": once the abort has been worked off, no item waits.  (Of a      *)
(* timed execution; an item handed over alone whose answer was lost gets   *)
(* no job.)                                                                *)
AbortRemoves == linked /\ exec = "ABORTED" /\ Jobs = {} /\ pc # "sweep" => queue = <<>>

(* "Repair stale Playing labels": an occurrence whose sequence is over      *)
(* settles too.                                                            *)
OccurrenceSettles == (linked /\ exec \in Over) ~>
  (occ \in {"COMPLETED", "FAILED", "CANCELLED"} \/ exec \in Active)

(* Neither an execution nor the occurrence it belongs to stays open.       *)
SequenceEnds == Released /\ OccurrenceSettles

(* "Cancellation removes the event's future requests": when its jobs have  *)
(* been worked off, nothing of a cancelled sequence waits in the engine.   *)
CancelledIsRemoved == occ = "CANCELLED" /\ exec = "CANCELLED" /\ Jobs = {} => queue = <<>>
=============================================================================

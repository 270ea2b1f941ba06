------------------------------ MODULE Playout ------------------------------
(***************************************************************************)
(* The life of a SelectionDecision between three parties that share no     *)
(* transaction: the PostgreSQL row, the automation worker that hands the   *)
(* decision to a station's Liquidsoap process over a Unix socket, and that *)
(* process, which reports a rendered start only by appending a line to     *)
(* events.log.  Every commit, every socket exchange and every engine move  *)
(* is a step of its own; the worker may die between any two of them, the   *)
(* engine may restart under it, a socket answer may be lost after the      *)
(* engine has accepted the request, and a transaction may fail.            *)
(*                                                                         *)
(* One station, one worker (worker_lease admits no second), AUTO mode.     *)
(* A tick is  collect, record*, inventory, reconcile  for the manual       *)
(* phase, then  stock, resolve, (submit, push, ack)* ; and the same four   *)
(* steps followed by  (select, push, ack)*  for the refill phase.          *)
(*                                                                         *)
(* A definition marked  variant  is not part of the specification: it is a *)
(* likely mistake in the definition that follows it, kept so that every    *)
(* property can be seen to fail.                                           *)
(***************************************************************************)
EXTENDS Naturals, Sequences, FiniteSets

CONSTANTS
  Routine,            \* decisions the refill loop selects
  Leader,          \* attempts at the playlist leader of one occurrence
  Manual,          \* decisions a person commits through the web service
  Side,            \* the Manual decisions that play on deck B or the cart
  NoDecision,      \* no decision (a model value)
  TargetDepth,     \* tick(target_depth=2)
  QueueCap,        \* process_manual stops at 20 queued requests
  Page,            \* lines one collect() reads: readlines(65536)
  Faulty,          \* the kinds of fault that may happen, among FaultKinds
  MaxFault         \* bound: faults in one behaviour

Decisions == Routine \cup Leader \cup Manual

ASSUME KindAssumption ==
  /\ Routine \cap Leader = {} /\ Routine \cap Manual = {} /\ Leader \cap Manual = {}
  /\ Side \subseteq Manual
  /\ NoDecision \notin Decisions

(* crash: the worker dies.  stop: the engine's unit stops.  record, ack:   *)
(* the transaction that records a START, or a push, fails.  answer: the    *)
(* engine accepts a push but its answer is lost.  channel: a side channel  *)
(* does not answer the inventory.                                          *)
FaultKinds == {"crash", "stop", "record", "ack", "answer", "channel"}

ASSUME BoundAssumption ==
  /\ TargetDepth \in Nat /\ QueueCap \in Nat /\ Page \in Nat \ {0}
  /\ Faulty \subseteq FaultKinds /\ MaxFault \in Nat

VARIABLES
  \* PostgreSQL: the columns of a SelectionDecision
  status, reason, rid, sock,
  \* the engine: process and socket, its two kinds of source, its event file
  up, epoch, nextRid, queue, onair, confirmed, log,
  \* the worker's memory, lost when it dies
  phase, pc, cur, got, batch, reader, seen, ident, complete, missing, room,
  \* history: decisions ever written to a log, pushes ever accepted, START
  \* lines whose transaction failed
  told, accepted, dropped,
  \* faults so far
  faults

dbVars     == <<status, reason, rid, sock>>
engineVars == <<up, epoch, nextRid, queue, onair, confirmed, log>>
memVars    == <<phase, pc, cur, got, batch, reader, seen, ident, complete, missing, room>>
history    == <<told, accepted, dropped>>
vars       == <<dbVars, engineVars, memVars, history, faults>>

Statuses == {"none", "selected", "submitting", "queued", "started", "failed"}
Reasons  == {"", "queue_failed", "manual_queue_failed", "refused",
             "leader_submission_uncertain", "leader_request_not_submitted",
             "playout_restarted", "request_not_started", "late_event_confirmation"}
Buses    == {"program", "side"}
Bus(d)   == IF d \in Side THEN "side" ELSE "program"

Request   == [id: Nat \ {0}, dec: Decisions]
NoRequest == [id |-> 0, dec |-> NoDecision]

Elements(s) == {s[i] : i \in DOMAIN s}

(* Everything the engine holds: queued_ids | active_ids | channel queues.  *)
LiveOn(b) == Elements(queue[b]) \cup ({onair[b]} \ {NoRequest})
Live      == UNION {LiveOn(b) : b \in Buses}

Ids(requests)  == {r.id : r \in requests}
Decs(requests) == {r.dec : r \in requests}
RidOf(d, requests) == (CHOOSE r \in requests : r.dec = d).id

Fault(kind) == kind \in Faulty /\ faults < MaxFault /\ faults' = faults + 1

----------------------------------------------------------------------------
Init ==
  /\ status = [d \in Decisions |-> "none"]
  /\ reason = [d \in Decisions |-> ""]
  /\ rid = [d \in Decisions |-> 0]
  /\ sock = [d \in Decisions |-> 0]
  /\ up = TRUE /\ epoch = 1 /\ nextRid = 1
  /\ queue = [b \in Buses |-> <<>>]
  /\ onair = [b \in Buses |-> NoRequest]
  /\ confirmed = [b \in Buses |-> NoDecision]
  /\ log = <<>>
  /\ phase = "manual" /\ pc = "collect" /\ cur = NoDecision /\ got = 0
  /\ batch = <<>> /\ reader = [file |-> 0, pos |-> 0]
  /\ seen = {} /\ ident = 0 /\ complete = TRUE
  /\ missing = [d \in Decisions |-> "no"] /\ room = 0
  /\ told = {} /\ accepted = [d \in Decisions |-> 0] /\ dropped = {}
  /\ faults = 0

----------------------------------------------------------------------------
(* The web service commits an operator's intent; it never meets the engine.*)
WebQueue(d) ==
  /\ d \in Manual /\ status[d] = "none"
  /\ status' = [status EXCEPT ![d] = "selected"]
  /\ UNCHANGED <<reason, rid, sock, engineVars, memVars, history, faults>>

----------------------------------------------------------------------------
(* The engine.  A source takes its next request; the 100 ms poll (or the   *)
(* cart's on_track) appends the START line of an audible request unless it *)
(* already wrote that decision last; a request leaves its source, possibly *)
(* before the poll saw it.                                                 *)
EngineNext(b) ==
  /\ up /\ onair[b] = NoRequest /\ queue[b] # <<>>
  /\ onair' = [onair EXCEPT ![b] = Head(queue[b])]
  /\ queue' = [queue EXCEPT ![b] = Tail(@)]
  /\ UNCHANGED <<dbVars, up, epoch, nextRid, confirmed, log, memVars, history, faults>>

EngineConfirm(b) ==
  /\ up /\ onair[b] # NoRequest /\ onair[b].dec # confirmed[b]
  /\ log' = Append(log, onair[b].dec)
  /\ confirmed' = [confirmed EXCEPT ![b] = onair[b].dec]
  /\ told' = told \cup {onair[b].dec}
  /\ UNCHANGED <<dbVars, up, epoch, nextRid, queue, onair, memVars, accepted, dropped, faults>>

EngineEnd(b) ==
  /\ up /\ onair[b] # NoRequest
  /\ onair' = [onair EXCEPT ![b] = NoRequest]
  /\ UNCHANGED <<dbVars, up, epoch, nextRid, queue, confirmed, log, memVars, history, faults>>

(* freo-playout@ stops: its requests die with it and systemd removes the   *)
(* RuntimeDirectory that holds control.sock and events.log.                *)
EngineStop ==
  /\ up /\ Fault("stop")
  /\ up' = FALSE
  /\ queue' = [b \in Buses |-> <<>>] /\ onair' = [b \in Buses |-> NoRequest]
  /\ confirmed' = [b \in Buses |-> NoDecision] /\ log' = <<>>
  /\ UNCHANGED <<dbVars, epoch, nextRid, memVars, history>>

(* A new process: a new socket inode, an empty log, request ids from 1.    *)
EngineStart ==
  /\ ~up
  /\ up' = TRUE /\ epoch' = epoch + 1 /\ nextRid' = 1
  /\ UNCHANGED <<dbVars, queue, onair, confirmed, log, memVars, history, faults>>

----------------------------------------------------------------------------
(* A tick that raised: the session is rolled back, memory survives and the *)
(* next tick begins with the manual phase.                                 *)
AbortTick ==
  /\ phase' = "manual" /\ pc' = "collect" /\ cur' = NoDecision /\ got' = 0
  /\ batch' = <<>> /\ seen' = {} /\ ident' = 0 /\ complete' = TRUE /\ room' = 0

(* EventReader.collect: read on from the remembered offset, or from the    *)
(* beginning of a file this process has not read.  The offset moves here,  *)
(* before the lines are applied.                                           *)
\* variant
StaleFrom == reader.pos
From == IF reader.file = epoch THEN reader.pos ELSE 0
To   == IF From + Page < Len(log) THEN From + Page ELSE Len(log)

Collect ==
  /\ pc = "collect"
  /\ IF log = <<>>                                    \* FileNotFoundError
     THEN /\ reader' = [file |-> 0, pos |-> 0] /\ batch' = <<>>
     ELSE /\ reader' = [file |-> epoch, pos |-> To]
          /\ batch' = SubSeq(log, From + 1, To)
  /\ pc' = "record"
  /\ UNCHANGED <<dbVars, engineVars, phase, cur, got, seen, ident, complete, missing, room,
                 history, faults>>

Confirmable == {"selected", "submitting", "queued", "failed"}

(* playback_started: the only writer of 'started'. *)
Started(d) ==
  /\ status' = [status EXCEPT ![d] = "started"]
  /\ reason' = [reason EXCEPT ![d] = IF @ \in {"playout_restarted", "request_not_started"}
                                      THEN "late_event_confirmation" ELSE @]

(* One line of the batch, in a transaction of its own.  A submitting row   *)
(* without identity first takes the socket's; with no socket to stat, the  *)
(* tick aborts and the rest of the batch is gone.                          *)
Record ==
  /\ pc = "record" /\ batch # <<>>
  /\ LET d == Head(batch)
         unbound == status[d] = "submitting" /\ sock[d] = 0
     IN IF unbound /\ ~up
        THEN AbortTick /\ UNCHANGED <<dbVars, reader, missing>>
        ELSE /\ batch' = Tail(batch)
             /\ sock' = IF unbound THEN [sock EXCEPT ![d] = epoch] ELSE sock
             /\ IF status[d] \in Confirmable
                THEN Started(d) ELSE UNCHANGED <<status, reason>>
             /\ UNCHANGED <<rid, phase, pc, cur, got, reader, seen, ident, complete, missing, room>>
  /\ UNCHANGED <<engineVars, history, faults>>

(* The database refuses the transaction: the offset is already past.       *)
RecordFault ==
  /\ pc = "record" /\ batch # <<>> /\ Fault("record")
  /\ dropped' = dropped \cup Elements(batch)
  /\ AbortTick
  /\ UNCHANGED <<dbVars, engineVars, reader, missing, told, accepted>>

Recorded ==
  /\ pc = "record" /\ batch = <<>>
  /\ pc' = "inventory"
  /\ UNCHANGED <<dbVars, engineVars, phase, cur, got, batch, reader, seen, ident, complete,
                 missing, room, history, faults>>

----------------------------------------------------------------------------
(* Ask every channel what it holds.  The program queue and the active      *)
(* requests must answer or the tick fails; a side channel that does not    *)
(* answer leaves the inventory incomplete.                                 *)
ReadEngine(next) ==
  /\ pc' = next
  /\ ident' = epoch
  /\ \/ /\ seen' = Live /\ complete' = TRUE
        /\ UNCHANGED faults
     \/ /\ Fault("channel")
        /\ seen' = LiveOn("program") /\ complete' = FALSE
  /\ UNCHANGED <<dbVars, engineVars, phase, cur, got, batch, reader, missing, room,
                 history>>

Inventory == up /\ pc = "inventory" /\ ReadEngine("reconcile")
TakeStock == up /\ pc = "stock" /\ ReadEngine("resolve")

(* Any socket exchange with a stopped engine is an OSError of the tick.    *)
Unavailable ==
  /\ ~up /\ pc \in {"inventory", "stock"}
  /\ AbortTick
  /\ UNCHANGED <<dbVars, engineVars, reader, missing, history, faults>>

(* The 10 s confirmation window of a request that has not been seen.       *)
WindowCloses(d) ==
  /\ missing[d] = "open"
  /\ missing' = [missing EXCEPT ![d] = "closed"]
  /\ UNCHANGED <<dbVars, engineVars, phase, pc, cur, got, batch, reader, seen, ident, complete,
                 room, history, faults>>

(* _reconcile_untracked_leaders: a leader that never got its request id.   *)
Untracked ==
  {d \in Leader : rid[d] = 0 /\ \/ status[d] \in {"selected", "submitting"}
                                \/ status[d] = "failed" /\ reason[d] = "queue_failed"}
FoundLeader   == {d \in Untracked : d \in Decs(seen)}
LostLeader    == Untracked \ FoundLeader
ExpiredLeader == {d \in LostLeader : complete /\ missing[d] = "closed"}

(* The queued rows of reconcile_requests. *)
\* variant
QueuedOrStarted == {d \in Decisions : status[d] \in {"queued", "started"}}
Queued   == {d \in Decisions : status[d] = "queued"}
Severed  == {d \in Queued : sock[d] # ident}
Absent   == {d \in Queued \ Severed : complete /\ rid[d] \notin Ids(seen)}
\* variant
VanishedAtOnce == Absent
\* variant
NeverVanished  == {}
Vanished == {d \in Absent : missing[d] = "closed"}

(* The leaders are committed first, the queued rows (lost, as far as the   *)
(* pass got) afterwards.  Only the worker writes these rows, from the      *)
(* inventory it holds: the two transactions differ from one only if it     *)
(* dies in between.                                                        *)
Judged(lost) ==
  /\ status' = [d \in Decisions |->
       CASE d \in FoundLeader -> "queued"
         [] d \in ExpiredLeader \cup lost -> "failed"
         [] d \in LostLeader \ ExpiredLeader /\ status[d] = "failed" -> "selected"
         [] OTHER -> status[d]]
  /\ reason' = [d \in Decisions |->
       CASE d \in FoundLeader -> ""
         [] d \in ExpiredLeader -> "leader_request_not_submitted"
         [] d \in LostLeader \ ExpiredLeader /\ status[d] = "failed" -> "leader_submission_uncertain"
         [] d \in lost \cap Severed -> "playout_restarted"
         [] d \in lost \cap Vanished -> "request_not_started"
         [] OTHER -> reason[d]]
  /\ rid' = [d \in Decisions |-> IF d \in FoundLeader THEN RidOf(d, seen) ELSE rid[d]]
  /\ sock' = [d \in Decisions |-> IF d \in FoundLeader THEN ident ELSE sock[d]]

Reconcile ==
  /\ pc = "reconcile" /\ Judged(Severed \cup Vanished)
  /\ missing' = [d \in Decisions |->
       IF d \in (IF complete THEN LostLeader \ ExpiredLeader ELSE {}) \cup (Absent \ Vanished)
       THEN IF missing[d] = "no" THEN "open" ELSE missing[d]
       ELSE "no"]
  /\ pc' = IF phase = "manual" THEN "stock" ELSE "fill"
  /\ room' = IF phase = "refill" /\ Len(queue["program"]) < TargetDepth
              THEN TargetDepth - Len(queue["program"]) ELSE 0
  /\ seen' = {} /\ ident' = 0 /\ complete' = TRUE
  /\ UNCHANGED <<engineVars, phase, cur, got, batch, reader, history, faults>>

(* The worker dies between the two. *)
ReconcileCut ==
  /\ pc = "reconcile" /\ Fault("crash") /\ Judged({})
  /\ AbortTick
  /\ reader' = [file |-> 0, pos |-> 0]
  /\ missing' = [d \in Decisions |-> "no"]
  /\ UNCHANGED <<engineVars, history>>

(* process_manual, first loop: a push that outlived its worker is adopted  *)
(* by its annotation; anything else still submitting is made ready again.  *)
Submitting == {d \in Decisions : status[d] = "submitting"}
\* variant
NoneAdopted == {}
Adopted == Submitting \cap Decs(seen)
Resolve ==
  /\ pc = "resolve"
  /\ status' = [d \in Decisions |->
       IF d \in Adopted THEN "queued" ELSE IF d \in Submitting THEN "selected" ELSE status[d]]
  /\ rid' = [d \in Decisions |-> IF d \in Adopted THEN RidOf(d, seen) ELSE rid[d]]
  /\ sock' = [d \in Decisions |-> IF d \in Adopted THEN ident ELSE sock[d]]
  /\ pc' = "manual" /\ seen' = {} /\ complete' = TRUE
  /\ UNCHANGED <<reason, engineVars, phase, cur, got, batch, reader, ident, missing, room,
                 history, faults>>

----------------------------------------------------------------------------
(* process_manual, second loop. *)
Ready == {d \in Manual : status[d] = "selected"}
Free(d) == d \in Side => LiveOn("side") = {}

(* Permission withdrawn since the intent was committed, or a program-bus   *)
(* intent while the station is in DJ_BOOTH.                                *)
Refuse(d) ==
  /\ pc = "manual" /\ d \in Ready
  /\ status' = [status EXCEPT ![d] = "failed"]
  /\ reason' = [reason EXCEPT ![d] = "refused"]
  /\ UNCHANGED <<rid, sock, engineVars, memVars, history, faults>>

Submit(d) ==
  /\ up /\ pc = "manual" /\ d \in Ready /\ Free(d) /\ Len(queue["program"]) < QueueCap
  /\ status' = [status EXCEPT ![d] = "submitting"]
  /\ cur' = d /\ pc' = "push"
  /\ UNCHANGED <<reason, rid, sock, engineVars, phase, got, batch, reader, seen, ident, complete,
                 missing, room, history, faults>>

ManualDone ==
  /\ pc = "manual"
  /\ ~up \/ Len(queue["program"]) >= QueueCap \/ \A d \in Ready : ~Free(d)
  /\ phase' = "refill" /\ pc' = "collect" /\ ident' = 0
  /\ UNCHANGED <<dbVars, engineVars, cur, got, batch, reader, seen, complete, missing, room,
                 history, faults>>

----------------------------------------------------------------------------
(* refill_station: select_next commits its choice before the push. While   *)
(* an attempt at the leader is pending nothing is selected; a leader that  *)
(* never started is due again.                                             *)
\* variant
LeaderPendingUnqueued == \E d \in Leader : status[d] \in {"selected", "submitting"}
LeaderPending == \E d \in Leader : status[d] \in {"selected", "submitting", "queued"}
LeaderAired   == \E d \in Leader : status[d] = "started"
\* variant
CandidatesRetried ==
  IF LeaderPending THEN {}
  ELSE {d \in (IF LeaderAired \/ Leader = {} THEN Routine ELSE Leader) : status[d] \in {"none", "failed"}}
Candidates ==
  IF LeaderPending THEN {}
  ELSE {d \in (IF LeaderAired \/ Leader = {} THEN Routine ELSE Leader) : status[d] = "none"}

\* variant
SelectUnbounded(d) ==
  /\ pc = "fill" /\ d \in Candidates
  /\ status' = [status EXCEPT ![d] = "selected"]
  /\ cur' = d /\ pc' = "push"
  /\ UNCHANGED <<reason, rid, sock, engineVars, phase, got, batch, reader, seen, ident, complete,
                 missing, room, history, faults>>

Select(d) ==
  /\ pc = "fill" /\ room > 0 /\ d \in Candidates
  /\ status' = [status EXCEPT ![d] = "selected"]
  /\ cur' = d /\ pc' = "push"
  /\ UNCHANGED <<reason, rid, sock, engineVars, phase, got, batch, reader, seen, ident, complete,
                 missing, room, history, faults>>

FillDone ==
  /\ pc = "fill" /\ (room = 0 \/ Candidates = {})
  /\ phase' = "manual" /\ pc' = "collect" /\ room' = 0
  /\ UNCHANGED <<dbVars, engineVars, cur, got, batch, reader, seen, ident, complete, missing,
                 history, faults>>

----------------------------------------------------------------------------
(* push_decision: one socket exchange. *)
Accept(d) ==
  /\ queue' = [queue EXCEPT ![Bus(d)] = Append(@, [id |-> nextRid, dec |-> d])]
  /\ nextRid' = nextRid + 1
  /\ accepted' = [accepted EXCEPT ![d] = @ + 1]
  /\ UNCHANGED <<up, epoch, onair, confirmed, log, told, dropped>>

(* The except branches: the row fails and the loop it came from goes on    *)
(* (process_manual) or stops (refill_station).                             *)
PushError ==
  /\ status' = [status EXCEPT ![cur] = "failed"]
  /\ reason' = [reason EXCEPT ![cur] = IF phase = "manual" THEN "manual_queue_failed"
                                       ELSE "queue_failed"]
  /\ pc' = IF phase = "manual" THEN "manual" ELSE "collect"
  /\ phase' = "manual"
  /\ cur' = NoDecision /\ got' = 0 /\ room' = IF phase = "manual" THEN room ELSE 0
  /\ UNCHANGED <<rid, sock, batch, reader, seen, ident, complete, missing>>

\* variant
PushCountsAsPlay ==
  /\ pc = "push" /\ up
  /\ Accept(cur)
  /\ status' = [status EXCEPT ![cur] = "started"]
  /\ got' = nextRid /\ pc' = "ack"
  /\ UNCHANGED <<reason, rid, sock, phase, cur, batch, reader, seen, ident, complete, missing, room, faults>>

Push ==
  /\ pc = "push" /\ up
  /\ Accept(cur)
  /\ got' = nextRid /\ pc' = "ack"
  /\ UNCHANGED <<dbVars, phase, cur, batch, reader, seen, ident, complete, missing, room, faults>>

(* Revalidation under the allocation lock refuses, or no engine answers.   *)
PushRefused ==
  /\ pc = "push"
  /\ PushError
  /\ UNCHANGED <<engineVars, history, faults>>

(* The engine accepts and the answer is lost. *)
PushUnanswered ==
  /\ pc = "push" /\ up /\ Fault("answer")
  /\ Accept(cur)
  /\ PushError

(* The acknowledgement: process_manual stores the identity it read before  *)
(* the push, refill_station stats the socket again after it.               *)
\* variant
StatAgain   == epoch
AckIdentity == IF phase = "manual" THEN ident ELSE epoch

Ack ==
  /\ pc = "ack" /\ (phase = "manual" \/ up)
  /\ status' = [status EXCEPT ![cur] = "queued"]
  /\ rid' = [rid EXCEPT ![cur] = got]
  /\ sock' = [sock EXCEPT ![cur] = AckIdentity]
  /\ pc' = IF phase = "manual" THEN "manual" ELSE "fill"
  /\ room' = IF phase = "manual" THEN room ELSE room - 1
  /\ cur' = NoDecision /\ got' = 0
  /\ UNCHANGED <<reason, engineVars, phase, batch, reader, seen, ident, complete, missing,
                 history, faults>>

(* The socket is gone when refill_station stats it. *)
AckNoSocket ==
  /\ pc = "ack" /\ phase = "refill" /\ ~up
  /\ PushError
  /\ UNCHANGED <<engineVars, history, faults>>

(* The acknowledging commit fails: the row keeps what was committed before *)
(* the push, and the tick aborts.                                          *)
AckFault ==
  /\ pc = "ack" /\ Fault("ack")
  /\ AbortTick
  /\ UNCHANGED <<dbVars, engineVars, reader, missing, history>>

----------------------------------------------------------------------------
(* The worker dies at any point; a fresh one remembers nothing.            *)
WorkerCrash ==
  /\ Fault("crash")
  /\ AbortTick
  /\ reader' = [file |-> 0, pos |-> 0]
  /\ missing' = [d \in Decisions |-> "no"]
  /\ UNCHANGED <<dbVars, engineVars, history>>

Manually == Resolve \/ ManualDone \/ \E d \in Decisions : Refuse(d) \/ Submit(d)
Refill   == FillDone \/ \E d \in Decisions : Select(d)
Handoff  == Push \/ PushRefused \/ PushUnanswered \/ Ack \/ AckNoSocket
Worker   == Collect \/ Record \/ Recorded \/ Inventory \/ TakeStock \/ Unavailable
            \/ Reconcile \/ Manually \/ Refill \/ Handoff
Engine   == EngineStart \/ \E b \in Buses : EngineNext(b) \/ EngineConfirm(b) \/ EngineEnd(b)
Faults   == RecordFault \/ AckFault \/ ReconcileCut \/ WorkerCrash \/ EngineStop

Next == \/ Worker \/ Engine \/ Faults
        \/ \E d \in Decisions : WebQueue(d) \/ WindowCloses(d)

(* systemd restarts both processes when they fail (Restart=on-failure),    *)
(* audio ends, the clock advances.  Nothing obliges a person to queue or a *)
(* fault to occur.                                                         *)
Fairness ==
  /\ WF_vars(Worker)
  /\ WF_vars(EngineStart)
  /\ \A b \in Buses : WF_vars(EngineNext(b)) /\ WF_vars(EngineEnd(b))
  /\ \A d \in Decisions : WF_vars(WindowCloses(d))

Spec     == Init /\ [][Next]_vars
FairSpec == Spec /\ Fairness

----------------------------------------------------------------------------
(* Properties. *)

DbOK ==
  /\ status \in [Decisions -> Statuses] /\ reason \in [Decisions -> Reasons]
  /\ rid \in [Decisions -> Nat] /\ sock \in [Decisions -> Nat]
EngineOK ==
  /\ up \in BOOLEAN /\ epoch \in Nat \ {0} /\ nextRid \in Nat \ {0}
  /\ queue \in [Buses -> Seq(Request)]
  /\ onair \in [Buses -> Request \cup {NoRequest}]
  /\ confirmed \in [Buses -> Decisions \cup {NoDecision}]
  /\ log \in Seq(Decisions)
WorkerOK ==
  /\ phase \in {"manual", "refill"}
  /\ pc \in {"collect", "record", "inventory", "reconcile", "stock", "resolve", "manual",
             "fill", "push", "ack"}
  /\ cur \in Decisions \cup {NoDecision} /\ got \in Nat
  /\ batch \in Seq(Decisions) /\ reader \in [file: Nat, pos: Nat]
  /\ seen \subseteq Request /\ ident \in Nat /\ complete \in BOOLEAN
  /\ missing \in [Decisions -> {"no", "open", "closed"}] /\ room \in Nat
HistoryOK ==
  /\ told \subseteq Decisions /\ accepted \in [Decisions -> Nat] /\ dropped \subseteq Decisions
  /\ faults \in 0..MaxFault

(* The type invariant. *)
TypeOK == DbOK /\ EngineOK /\ WorkerOK /\ HistoryOK

(* "Never invent an airplay": a row says started only if some engine wrote *)
(* that decision's START line, whatever crashed or was lost on the way.    *)
StartedWasAired == \A d \in Decisions : status[d] = "started" => d \in told

(* A confirmed start is durable history: no reconciliation, resolution,    *)
(* late acknowledgement or failed push ever takes it back.                 *)
StartedIsFinal == [][\A d \in Decisions : status[d] = "started" => status'[d] = "started"]_vars

(* The confirmation window is long enough: a row is written off as         *)
(* request_not_started only when the running engine never logged its start *)
(* (or the transaction recording that line failed).                        *)
NoFalseVanish ==
  \A d \in Decisions :
    status[d] = "failed" /\ reason[d] = "request_not_started" /\ sock[d] = epoch
      => d \notin Elements(log) \ dropped

(* The refill loop hands each of its selections to an engine at most once, *)
(* also when the answer, the commit or the worker is lost after the push.  *)
RefillSubmitsOnce == \A d \in Routine \cup Leader : accepted[d] <= 1

(* One engine process never starts two attempts at the same leader, unless *)
(* the transaction recording the first start failed.                       *)
LeaderStartsOncePerEngine == Cardinality(Leader \cap (Elements(log) \ dropped)) <= 1

(* The program bus never holds two requests of one decision at a time: an  *)
(* accepted push whose worker died is adopted, not pushed beside itself.   *)
NoDuplicateRequest ==
  \A r, s \in LiveOn("program") : r.dec = s.dec => r = s

(* Nothing is handed over, or heard, twice by one engine.                  *)
NothingTwice == LeaderStartsOncePerEngine /\ NoDuplicateRequest

(* A request id a row holds under the engine's current identity names the  *)
(* request the engine made for that row, although ids restart at 1 with    *)
(* every engine (rows of process_manual).                                  *)
ManualIdentifies ==
  \A d \in Manual : \A r \in Live :
    status[d] = "queued" /\ sock[d] = epoch /\ rid[d] = r.id => r.dec = d

(* No intent of a person and no attempt at a leader stays open for ever.   *)
IntentResolved ==
  \A d \in Manual \cup Leader :
    status[d] \in {"selected", "submitting", "queued"} ~> status[d] \in {"started", "failed"}

(* "Reuse the matching request rather than submitting twice": an item whose*)
(* START the running engine has already logged is not handed to it again.  *)
NotReplayed ==
  [][\A d \in Manual : accepted'[d] > accepted[d] => d \notin Elements(log)]_vars

(* The worker reads the log: a START line is recorded unless the engine's  *)
(* restart removes the line first.                                         *)
LoggedStartIsRecorded ==
  \A d \in Decisions : d \in Elements(log) ~> (status[d] = "started" \/ d \notin Elements(log))
=============================================================================

---------------------------- MODULE MCLive ----------------------------------
(***************************************************************************)
(* Components that share no state with one another, each checked on its     *)
(* own: "part" is the one that runs, and the others stay as they began.     *)
(***************************************************************************)
EXTENDS Naturals, Sequences, FiniteSets

CONSTANT Parts   \* the components that a run looks at
CONSTANTS SwitchCommand, Mode, MaxSwitchEdits, MaxSwitchFaults   \* ScheduleSwitch
CONSTANTS ListenerRequest, Depth, Refilled, MaxRows, MaxProgramEdits, MaxCrashes, MaxOutages   \* Lookahead
CONSTANTS Upload, MaxRequests, MaxMediaFaults   \* MediaLibrary
CONSTANTS ProducerDraft, MaxOrders, MaxDeaths   \* Production
CONSTANTS Occ, File, Framed, MaxEdits, MaxStops   \* Bulletin
CONSTANTS MaxAsks, MaxCentralFaults   \* CentralIdentity
CONSTANTS Extended, Life, Hour, Gap, MaxTime, MaxReportEdits, MaxReportFaults   \* CentralReport
CONSTANTS u1, u2, d1, d2, o1, o2

VARIABLE part
VARIABLES
  command, age, switch_channel, target, planned, switch_engine, starts, known, step, late, cuts,
  released, edited, failures
VARIABLES
  programming, open, requests, cursor, rows, fifo, air, life, unread, lookahead_pc, back, room,
  auto, todo, ids, rewound, lost, lookahead_faults
VARIABLES
  media_draft, staged, media_job, media_aged, media_song, audio, media_check, erase, picked,
  media_row, cancel, queued, broadcast, lock, media_work, asked, media_faults
VARIABLES
  production_draft, attempt, production_aged, production_job, production_song, granted, key,
  production_work, ingest, orders, deaths
VARIABLES
  bulletin_row, bulletin_time, bulletin_job, bulletin_file, worker, bulletin_engine, bus, bodies,
  decisions, bulletin_edits, stops
VARIABLES
  reg, inst, state, central_file, server, central_check, rep, allowed, asks, central_faults
VARIABLES
  report_time, report_channel, synced, last, hours, api, report_pc, then, wire, reconcile,
  unsure, witnessed, report_edits, failed

Switch == INSTANCE ScheduleSwitch WITH
  channel <- switch_channel, engine <- switch_engine, Command <- SwitchCommand,
  MaxEdits <- MaxSwitchEdits, MaxFaults <- MaxSwitchFaults
Lookahead == INSTANCE Lookahead WITH
  pc <- lookahead_pc, faults <- lookahead_faults, Request <- ListenerRequest,
  MaxEdits <- MaxProgramEdits
Media == INSTANCE MediaLibrary WITH
  draft <- media_draft, job <- media_job, aged <- media_aged, song <- media_song,
  check <- media_check, row <- media_row, work <- media_work, faults <- media_faults,
  MaxFaults <- MaxMediaFaults
Production == INSTANCE Production WITH
  draft <- production_draft, aged <- production_aged, job <- production_job,
  song <- production_song, work <- production_work, Draft <- ProducerDraft
Bulletin == INSTANCE Bulletin WITH
  row <- bulletin_row, time <- bulletin_time, job <- bulletin_job, file <- bulletin_file,
  engine <- bulletin_engine, edits <- bulletin_edits
Central == INSTANCE CentralIdentity WITH
  file <- central_file, check <- central_check, faults <- central_faults,
  MaxFaults <- MaxCentralFaults
Report == INSTANCE CentralReport WITH
  time <- report_time, channel <- report_channel, pc <- report_pc, edits <- report_edits,
  MaxEdits <- MaxReportEdits

switch == <<command, age, switch_channel, target, planned, switch_engine, starts, known, step, late, cuts,
  released, edited, failures>>
lookahead == <<programming, open, requests, cursor, rows, fifo, air, life, unread, lookahead_pc, back, room,
  auto, todo, ids, rewound, lost, lookahead_faults>>
media == <<media_draft, staged, media_job, media_aged, media_song, audio, media_check, erase, picked,
  media_row, cancel, queued, broadcast, lock, media_work, asked, media_faults>>
production == <<production_draft, attempt, production_aged, production_job, production_song, granted, key,
  production_work, ingest, orders, deaths>>
bulletin == <<bulletin_row, bulletin_time, bulletin_job, bulletin_file, worker, bulletin_engine, bus, bodies,
  decisions, bulletin_edits, stops>>
central == <<reg, inst, state, central_file, server, central_check, rep, allowed, asks, central_faults>>
report == <<report_time, report_channel, synced, last, hours, api, report_pc, then, wire, reconcile,
  unsure, witnessed, report_edits, failed>>
vars == <<part, switch, lookahead, media, production, bulletin, central, report>>

SwitchNext == part = "switch" /\ Switch!Next /\ UNCHANGED <<part, lookahead, media, production, bulletin, central, report>>
LookaheadNext == part = "lookahead" /\ Lookahead!Next /\ UNCHANGED <<part, switch, media, production, bulletin, central, report>>
MediaNext == part = "media" /\ Media!Next /\ UNCHANGED <<part, switch, lookahead, production, bulletin, central, report>>
ProductionNext == part = "production" /\ Production!Next /\ UNCHANGED <<part, switch, lookahead, media, bulletin, central, report>>
BulletinNext == part = "bulletin" /\ Bulletin!Next /\ UNCHANGED <<part, switch, lookahead, media, production, central, report>>
CentralNext == part = "central" /\ Central!Next /\ UNCHANGED <<part, switch, lookahead, media, production, bulletin, report>>
ReportNext == part = "report" /\ Report!Next /\ UNCHANGED <<part, switch, lookahead, media, production, bulletin, central>>

Init ==
  /\ part \in Parts
  /\ Switch!Init /\ (switch_channel.relay => part = "switch")
  /\ Lookahead!Init
  /\ Media!Init
  /\ Production!Init
  /\ Bulletin!Init
  /\ Central!Init
  /\ Report!Init
Next ==
  \/ SwitchNext
  \/ LookaheadNext
  \/ MediaNext
  \/ ProductionNext
  \/ BulletinNext
  \/ CentralNext
  \/ ReportNext
Spec == Init /\ [][Next]_vars

(* What a component has in work, numbered, so that one formula follows each. *)
Unended(i) ==
  \/ part = "switch"     /\ i \in Switch!Unended
  \/ part = "lookahead"  /\ <<1 \in Lookahead!Queued, Lookahead!Retracting(1), Lookahead!Retracting(2), FALSE, FALSE>>[i]
  \/ part = "media"      /\ <<u1, u2, "check", "erase", "song">>[i] \in Media!Unended
  \/ part = "production" /\ i <= 4 /\ <<<<"order", d1>>, <<"order", d2>>, <<"ingest", d1>>, <<"ingest", d2>>>>[i] \in Production!Unended
  \/ part = "bulletin"   /\ i <= 2 /\ <<o1, o2>>[i] \in Bulletin!Unended
  \/ part = "central"    /\ i = 1 /\ Central!Unended
  \/ part = "report"     /\ i = 1 /\ Report!Withdrawn

(* Each component's own fairness while it is the one that runs: a formula   *)
(* has one disjunct for it.  Time passes twice, so that the third one is    *)
(* the download's afterwards.                                               *)
Fair1 ==
  \/ part = "switch" /\ Switch!Work /\ UNCHANGED <<part, lookahead, media, production, bulletin, central, report>>
  \/ part = "lookahead" /\ Lookahead!Worker /\ UNCHANGED <<part, switch, media, production, bulletin, central, report>>
  \/ part = "media" /\ Media!Worker /\ UNCHANGED <<part, switch, lookahead, production, bulletin, central, report>>
  \/ part = "production" /\ Production!Worker /\ UNCHANGED <<part, switch, lookahead, media, bulletin, central, report>>
  \/ part = "bulletin" /\ Bulletin!Worker /\ UNCHANGED <<part, switch, lookahead, media, production, central, report>>
  \/ part = "central" /\ Central!Reporter /\ UNCHANGED <<part, switch, lookahead, media, production, bulletin, report>>
  \/ part = "report" /\ (Report!Reports \/ Report!Rounds) /\ UNCHANGED <<part, switch, lookahead, media, production, bulletin, central>>
Fair2 ==
  \/ part = "switch" /\ Switch!Grows /\ UNCHANGED <<part, lookahead, media, production, bulletin, central, report>>
  \/ part = "lookahead" /\ Lookahead!Engine /\ UNCHANGED <<part, switch, media, production, bulletin, central, report>>
  \/ part = "media" /\ Media!Automation /\ UNCHANGED <<part, switch, lookahead, production, bulletin, central, report>>
  \/ part = "production" /\ Production!Ingest /\ UNCHANGED <<part, switch, lookahead, media, bulletin, central, report>>
  \/ part = "bulletin" /\ Bulletin!TimeIsUp /\ UNCHANGED <<part, switch, lookahead, media, production, central, report>>
  \/ part = "report" /\ Report!Takes /\ UNCHANGED <<part, switch, lookahead, media, production, bulletin, central>>
Fair3 ==
  \/ part = "media" /\ (\E u \in Upload : Media!StageCommits(u)) /\ UNCHANGED <<part, switch, lookahead, production, bulletin, central, report>>
  \/ part = "bulletin" /\ (\E o \in Occ : Bulletin!Passes(o) \/ Bulletin!Fetched(o)) /\ UNCHANGED <<part, switch, lookahead, media, production, central, report>>
  \/ part = "report" /\ Report!DayPasses /\ UNCHANGED <<part, switch, lookahead, media, production, bulletin, central>>
Strong == part = "lookahead" /\ Lookahead!Looks(Lookahead!Waits) /\ UNCHANGED <<part, switch, media, production, bulletin, central, report>>
FairSpec == Spec /\ SF_vars(Strong) /\ WF_vars(Fair1) /\ WF_vars(Fair2) /\ WF_vars(Fair3)

(* A mode switch, a selection that carries a request, one that a refresh    *)
(* marked, a job of an upload, an order of a producer, a bulletin on its    *)
(* way to the air and a connection check come to an end, and so does a      *)
(* withdrawal from the directory: TransitionEnds of ScheduleSwitch,         *)
(* RequestSettles and RefreshEnds of Lookahead, JobsEnd of MediaLibrary,    *)
(* ProductionEnds of Production, BulletinsEnd of Bulletin, CheckEnds of     *)
(* CentralIdentity, WithdrawalArrives of CentralReport.                     *)
WorkEnds == \A i \in 1..5 : Unended(i) ~> ~Unended(i)

=============================================================================

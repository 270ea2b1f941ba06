---------------------------- MODULE MCServices ------------------------------
(***************************************************************************)
(* Components that share no state with one another, each checked on its     *)
(* own: "part" is the one that runs, and the others stay as they began.     *)
(***************************************************************************)
EXTENDS Naturals, Sequences, FiniteSets

CONSTANT Parts   \* the components that a run looks at
CONSTANTS Overlap, MaxStationRequests, MaxStationFaults   \* StationRuntime
CONSTANTS MaxCommands, MaxUpgradeFaults   \* Maintenance
CONSTANTS Upload, MaxMediaRequests, MaxMediaFaults   \* MediaLibrary
CONSTANTS ProducerDraft, MaxOrders, MaxDeaths   \* Production
CONSTANTS Occ, File, Framed, MaxEdits, MaxStops   \* Bulletin
CONSTANTS MaxAsks, MaxCentralFaults   \* CentralIdentity
CONSTANTS Extended, Life, Hour, Gap, MaxTime, MaxReportEdits, MaxReportFaults   \* CentralReport
CONSTANTS SwitchCommand, Mode, MaxSwitchEdits, MaxSwitchFaults   \* ScheduleSwitch
CONSTANTS ListenerRequest, Depth, Refilled, MaxRows, MaxProgramEdits, MaxCrashes, MaxOutages   \* Lookahead
CONSTANTS u1, u2, d1, d2, o1, o2

VARIABLE part
VARIABLES
  stations_row, stream, listing, stations_files, unit, stations_pc, stations_lock, held,
  stations_asked, stations_faults
VARIABLES
  journal, op, upgrades_row, marker, guarded, running, code, schema, upgrades_files, catalog,
  bundle, taken, upgrades_pc, caller, upgrades_reconcile, quiet, migrations, commands,
  upgrades_faults
VARIABLES
  media_draft, staged, media_job, media_aged, media_song, audio, media_check, erase, picked,
  media_row, cancel, queued, broadcast, media_lock, media_work, media_asked, media_faults
VARIABLES
  production_draft, attempt, production_aged, production_job, production_song, granted, key,
  production_work, ingest, orders, deaths
VARIABLES
  bulletin_row, bulletin_time, bulletin_job, bulletin_file, worker, bulletin_engine, bus, bodies,
  decisions, bulletin_edits, stops
VARIABLES
  reg, inst, state, central_file, server, central_check, rep, allowed, asks, central_faults
VARIABLES
  report_time, report_channel, synced, last, hours, api, report_pc, then, wire, report_reconcile,
  unsure, witnessed, report_edits, failed
VARIABLES
  command, age, switch_channel, target, planned, switch_engine, starts, known, step, late, cuts,
  released, edited, failures
VARIABLES
  programming, open, requests, cursor, rows, fifo, air, life, unread, lookahead_pc, back, room,
  auto, todo, ids, rewound, lost, lookahead_faults

Stations == INSTANCE StationRuntime WITH
  row <- stations_row, files <- stations_files, pc <- stations_pc, lock <- stations_lock,
  asked <- stations_asked, faults <- stations_faults, MaxRequests <- MaxStationRequests,
  MaxFaults <- MaxStationFaults
Upgrades == INSTANCE MaintenanceProofs WITH
  row <- upgrades_row, files <- upgrades_files, pc <- upgrades_pc,
  reconcile <- upgrades_reconcile, faults <- upgrades_faults, MaxFaults <- MaxUpgradeFaults
Media == INSTANCE MediaLibrary WITH
  draft <- media_draft, job <- media_job, aged <- media_aged, song <- media_song,
  check <- media_check, row <- media_row, lock <- media_lock, work <- media_work,
  asked <- media_asked, faults <- media_faults, MaxRequests <- MaxMediaRequests,
  MaxFaults <- MaxMediaFaults
Production == INSTANCE Production WITH
  draft <- production_draft, aged <- production_aged, job <- production_job,
  song <- production_song, work <- production_work, Draft <- ProducerDraft
Bulletin == INSTANCE Bulletin WITH
  row <- bulletin_row, time <- bulletin_time, job <- bulletin_job, file <- bulletin_file,
  engine <- bulletin_engine, edits <- bulletin_edits
Central == INSTANCE CentralIdentity WITH
  file <- central_file, check <- central_check, faults <- central_faults,
  MaxFaults <- MaxCentralFaults
Report == INSTANCE CentralReport WITH
  time <- report_time, channel <- report_channel, pc <- report_pc, reconcile <- report_reconcile,
  edits <- report_edits, MaxEdits <- MaxReportEdits
Switch == INSTANCE ScheduleSwitch WITH
  channel <- switch_channel, engine <- switch_engine, Command <- SwitchCommand,
  MaxEdits <- MaxSwitchEdits, MaxFaults <- MaxSwitchFaults
Ahead == INSTANCE Lookahead WITH
  pc <- lookahead_pc, faults <- lookahead_faults, Request <- ListenerRequest,
  MaxEdits <- MaxProgramEdits

stations == <<stations_row, stream, listing, stations_files, unit, stations_pc, stations_lock, held,
  stations_asked, stations_faults>>
upgrades == <<journal, op, upgrades_row, marker, guarded, running, code, schema, upgrades_files, catalog,
  bundle, taken, upgrades_pc, caller, upgrades_reconcile, quiet, migrations, commands,
  upgrades_faults>>
media == <<media_draft, staged, media_job, media_aged, media_song, audio, media_check, erase, picked,
  media_row, cancel, queued, broadcast, media_lock, media_work, media_asked, media_faults>>
production == <<production_draft, attempt, production_aged, production_job, production_song, granted, key,
  production_work, ingest, orders, deaths>>
bulletin == <<bulletin_row, bulletin_time, bulletin_job, bulletin_file, worker, bulletin_engine, bus, bodies,
  decisions, bulletin_edits, stops>>
central == <<reg, inst, state, central_file, server, central_check, rep, allowed, asks, central_faults>>
report == <<report_time, report_channel, synced, last, hours, api, report_pc, then, wire, report_reconcile,
  unsure, witnessed, report_edits, failed>>
switch == <<command, age, switch_channel, target, planned, switch_engine, starts, known, step, late, cuts,
  released, edited, failures>>
lookahead == <<programming, open, requests, cursor, rows, fifo, air, life, unread, lookahead_pc, back, room,
  auto, todo, ids, rewound, lost, lookahead_faults>>
vars == <<part, stations, upgrades, media, production, bulletin, central, report, switch, lookahead>>

StationsNext == part = "stations" /\ Stations!Next /\ UNCHANGED <<part, upgrades, media, production, bulletin, central, report, switch, lookahead>>
UpgradesNext == part = "upgrades" /\ Upgrades!Next /\ UNCHANGED <<part, stations, media, production, bulletin, central, report, switch, lookahead>>
MediaNext == part = "media" /\ Media!Next /\ UNCHANGED <<part, stations, upgrades, production, bulletin, central, report, switch, lookahead>>
ProductionNext == part = "production" /\ Production!Next /\ UNCHANGED <<part, stations, upgrades, media, bulletin, central, report, switch, lookahead>>
BulletinNext == part = "bulletin" /\ Bulletin!Next /\ UNCHANGED <<part, stations, upgrades, media, production, central, report, switch, lookahead>>
CentralNext == part = "central" /\ Central!Next /\ UNCHANGED <<part, stations, upgrades, media, production, bulletin, report, switch, lookahead>>
ReportNext == part = "report" /\ Report!Next /\ UNCHANGED <<part, stations, upgrades, media, production, bulletin, central, switch, lookahead>>
SwitchNext == part = "switch" /\ Switch!Next /\ UNCHANGED <<part, stations, upgrades, media, production, bulletin, central, report, lookahead>>
LookaheadNext == part = "lookahead" /\ Ahead!Next /\ UNCHANGED <<part, stations, upgrades, media, production, bulletin, central, report, switch>>

Init ==
  /\ part \in Parts
  /\ Stations!Init
  /\ Upgrades!Init
  /\ Media!Init
  /\ Production!Init
  /\ Bulletin!Init
  /\ Central!Init
  /\ Report!Init
  /\ Switch!Init /\ (switch_channel.relay => part = "switch")
  /\ Ahead!Init
Next ==
  \/ StationsNext
  \/ UpgradesNext
  \/ MediaNext
  \/ ProductionNext
  \/ BulletinNext
  \/ CentralNext
  \/ ReportNext
  \/ SwitchNext
  \/ LookaheadNext
Spec == Init /\ [][Next]_vars

(* The type invariant of the component that runs.                           *)
TypeOK == 
  CASE part = "stations" -> Stations!TypeOK
    [] part = "upgrades" -> Upgrades!TypeOK
    [] part = "media" -> Media!TypeOK
    [] part = "production" -> Production!TypeOK
    [] part = "bulletin" -> Bulletin!TypeOK
    [] part = "central" -> Central!TypeOK
    [] part = "report" -> Report!TypeOK
    [] part = "switch" -> Switch!TypeOK
    [] part = "lookahead" -> Ahead!TypeOK

(* A deleted station leaves no unit, file or mount behind; settings become  *)
(* those of record only when the unit that runs under ON plays them, and    *)
(* then the configuration of the next start holds them (StationRuntime).    *)
StationsSafe ==
  part = "stations" =>
    Stations!DeletedLeavesNothing /\ Stations!ConfiguredAsRecorded /\ Stations!RecordedWhenHeard

(* An upgrade migrates the schema at most once, and nothing runs on a code  *)
(* and a schema that do not belong together (Maintenance).                  *)
MigratesOnce == part = "upgrades" => Upgrades!MigratesOnce /\ Upgrades!NothingRunsUnmatched

(* The maintenance of an installation implements what Installation          *)
(* promises.                                                                *)
ImplementsInstallation == Upgrades!ImplementsInstallation

(* The file of a song is kept while a decision or the engine still needs    *)
(* it, except from a deletion that is let through while the broadcast is    *)
(* OFF; no order of a producer is paid twice, and a take has one owner      *)
(* (MediaLibrary, Production).                                              *)
PaidOnce == 
  /\ part = "media" => Media!FileOutlivesQueue
  /\ part = "production" => Production!PaidOnce /\ Production!OneOwner

(* The installation registers once, and what it registered is kept          *)
(* (CentralIdentity).                                                       *)
OneIdentity == part = "central" => Central!OneIdentity /\ Central!CredentialKept

(* What the reporter closed or counts as synchronised is what the server    *)
(* holds, and no hour claims more than was seen of it (CentralReport).      *)
ServerAgrees == part = "report" => Report!HourIsHeld /\ Report!SyncedIsHeld /\ Report!OnlyWitnessed

(* A mode switch that was given up but may have happened holds automation;  *)
(* the engine cuts the program once for each, and a mode is active only     *)
(* once it has (ScheduleSwitch).                                            *)
SwitchIsSafe == part = "switch" => Switch!HeldWhenUncertain /\ Switch!SwitchedOnce

(* Nothing of the programme is played twice: no request of a listener, no   *)
(* position of the programming (Lookahead).                                 *)
PlayedOnce == part = "lookahead" => Ahead!LookaheadPlaysOnce

(* A revision of a bulletin is aired once, and the history says once that a *)
(* bulletin was aired, and only of one that was (Bulletin).                 *)
AiredOnce == part = "bulletin" => Bulletin!AiredOnce

(* What a step reports, saves, publishes or sends is what it was permitted  *)
(* to: a report of a job is true, an edit is not overwritten, a take is     *)
(* published only while its producer may, the engine is handed the newest   *)
(* revision of a bulletin, a rejected credential is not used                *)
(* (StationRuntime, MediaLibrary, Production, Bulletin, CentralIdentity).   *)
StepsPermitted == 
  /\ Stations!ReportIsTrue /\ Media!EditsKept /\ Production!PublishedWhilePermitted
  /\ Bulletin!CurrentIsHanded /\ Central!RejectedStops

=============================================================================

# A TLA+ model of freo

freo runs radio stations. Each station is one Liquidsoap process (the *engine*), one
automation worker, and rows in PostgreSQL that a web service and the worker share. The
hard part of the program is that these three parties share no transaction: what was
decided is a row, what was accepted is a socket answer that may be lost, and what was
aired is a line the engine appends to a file. Around the stations stand workers that
import, produce and fetch audio, a reporter that speaks to a central service, and the root
helpers that switch units on and off and upgrade the installation. This directory models
these protocols, checks them with TLC on small instances, and proves most of the safety
properties with TLAPS for instances of any size.

Sources are named relative to `src/`. `W:n` is line n of `app/automation_worker.py`.

* [1 Inventory](#1-inventory)
* [2 How to run](#2-how-to-run)
* [3 The modules and the code](#3-the-modules-and-the-code)
* [4 Runs: what they check and show](#4-runs-what-they-check-and-show)
* [5 Fairness](#5-fairness)
* [6 What is proved](#6-what-is-proved)
* [7 Where code and documentation disagree](#7-where-code-and-documentation-disagree)
* [8 What is not modelled](#8-what-is-not-modelled)
* [9 Plan](#9-plan)

## 1 Inventory

The parties of one station:

| party | lives in | dies how | talks to |
|---|---|---|---|
| web service (`app/routes`, `app/services`) | request threads, database transactions | any request may fail | database; microphone gateway over HTTP |
| automation worker (`app/automation_worker.py`) | one loop, ~2 s (250 ms while a microphone or a deck needs it) | crash, restarted by systemd after 5 s; a lease admits no second | database; engine over a Unix socket; engine's `events.log` |
| engine (`deploy/liquidsoap/station.liq.template`) | one process, several threads | stop or crash; restart forgets its queues, its microphone token, and numbers its requests from 1 again | socket commands in, log lines out |
| microphone gateway (`app/mic_gateway.py`) | one asyncio process, sessions in memory | restart after 2 s forgets every session | web service, worker, engine (audio) |

### Components

**Decision handoff and confirmation** (`automation_worker.py`, `services/automation.py`,
`services/playout_queue.py`).
State: a `SelectionDecision` row per item (status, request id, socket identity, failure
reason); the engine's queues; the offset into `events.log` and the confirmation windows in the
worker's memory. Operations: commit an intent, select, submit, push, acknowledge, adopt
what a dead worker pushed, read START lines, reconcile rows with the engine's inventory.
Hard: a crash or a lost answer between any two of these; ids reused by a restarted engine;
an inventory taken while a short song starts and ends. Correct when: no row says *started*
that was not aired; a start once recorded is never taken back; no row is written off that aired; nothing
is submitted twice; every intent ends.

**Timed events** (`services/timed_events.py`, `routes/admin_events.py`, W:649-886).
State: event definitions with a revision, their occurrences, a decision per prepared
occurrence, cancellation jobs, the reserved boundary. Operations: define, edit, disable,
cancel, generate ahead, expire, prepare, hand over (HARD or SOFT), START, END, repair.
Hard: the station lock is released between the commit and the push; edits and
cancellations arrive there. Correct when: what a person cancelled (outside the handover itself) stays cancelled and leaves nothing in the
engine; a reserved occurrence is not given up; whatever plays ends and is not resurrected.

**Event sequences** (`services/event_blocks.py`, W:302-380).
State: one execution and its items, the occurrence it may belong to, the decision of each
item. Operations: stage all in one command (timed) or one by one (clock), START, END, abort,
cancel, lose, skip or fail by policy, finish. Hard: it owns the station's queue, so anything
that stalls it stalls the station. Correct when: it airs in order, an abort removes what
was handed over, a sequence is completed only if something of it aired, and the queue is given back.

**Engine script** (`deploy/liquidsoap/station.liq.template`).
State: program queue, side decks, event bus, microphone phase, token and lease, mixer mode.
Modelled where a worker can see it: queues, ids, START/END lines, insertion and removal,
the microphone threads, mixer and decks, the mode switch, the bulletin sources and the event bus.

**Leader playlists** (`services/playlists.py`): the opening song of a playlist, chosen once
per engine life, tried again if unanswered. Correct when: it starts at most once per engine life.

**Booth commands** (`services/live_assist.py`, `routes/admin_live.py`): an operator queues a
song, takes over, uses decks and carts, aborts a sequence, changes the mode. Hard: a takeover
destroys what plays before its target is pushed. Queueing, decks, abort and mode changes are in
the modelled parts; takeover and carts are not.

**Booth cue** (`services/booth_cue.py`): an ordered list that both the operator edits
and the worker advances at END lines, under the station lock; END lines are read again after a worker
restart. Correct when: an END line advances the cue once, by the order that was saved.

**Live microphone** (`mic_gateway.py`, `services/live_mic.py`, `routes/live_mic.py`, the
microphone threads of the engine). State: the gateway's session (owner, desired LIVE/READY,
leaving, observed), the engine's phase (OFF AIR, READY, FADING, LIVE, RETURNING, FAILED), token
and lease, the audited answers to failures. Operations: offer, GO LIVE, END, disconnect,
disappear, reap, prepare, take, keep, return, expel, answer a failure. Hard: three leases
run out independently; the engine and gateway each forget. Correct when: the air is taken once per GO
LIVE, an intentional departure is no failure, and a microphone
without page, session or right leaves the air.

**Live sessions and recordings** (`services/live_sessions.py`, `recording_manager.py`): one
operator owns a show; it is released when automation is heard again. Recording is not modelled.

**Schedule switch**, **programming refresh** (`services/schedule_switch.py`,
`services/programming_refresh.py`): a durable token, an engine fade, an acknowledgement that may be late;
and three steps (mark, remove, rewind) to replace automatic lookahead. Correct when: database and engine
agree on the mode in the end, and no lookahead or cursor is lost or rewound twice.

**Listener requests** (`services/listener_requests.py`): an uncertain submission must be
neither lost nor played twice; a switch inside the last ten seconds invalidates the tail.

**Relay** (`services/relay.py`): a selected relay defers and reserves events.

**Schedule resolution**, **selection rules** (`services/schedule.py`, `clocks.py`,
`selection_policy.py`, ...): pure functions of rows and time; cursors and separation history
are their only state. Correct when they agree with a reference definition at day and hour boundaries.

**Traffic** (`services/traffic.py`, `calendar.py`): placements follow item executions.

**Upgrade and recovery**, **hosting administration** (`freo_ops/upgrade.py`, `web_updates.py`,
`recovery.py`, `admin*.py`): a journal of phases, an operation record, a marker file that the
units' guards look at, a plan row of the web, with a death or reboot between any two writes. Correct
when: the installation is replaced only while nothing runs and after a backup of exactly its
data, nothing runs on parts that do not match, and an interrupted request never migrates twice.

**Ingest, analysis, production and bulletins** (`ingest_worker.py`, `services/import_sessions.py`,
`analysis_queue.py`, `music_delete.py`, `production*.py`, `services/bulletins.py`,
`deploy/liquidsoap/bulletin.liq`): claims with retries, work that takes minutes between two commits while browsers
edit, revoke and delete. Correct when: a job ends, an order is paid once, a file outlives
the engine's need of it, an edit is not overwritten by an analysis, a bulletin is aired once and only as it was last defined.

**Media library and catalogue** (`services/media.py`, `routes/admin_media.py`, `catalog_editor.py`): the song that
these jobs make, check, enable and erase.

**Station lifecycle and runtime** (`services/stations.py`, `station_lifecycle.py`, `station_runtime.py`,
`master_broadcast.py`, `station_audio.py`, `cli.py`): a request in the row, carried out by a job of root's timer, or by an operator's
command. Correct when: a deleted station leaves nothing, the files say what the row says, and what is
reported of a broadcast is true.

**Central API, statistics and reporting** (`services/central_api/`): one identity registered over an unreliable
network, kept in a file and a row; hourly numbers, the channel's metadata and what plays, sent until
acknowledged. Correct when: nothing is registered that nobody asked for, no credential is lost, and what counts
as sent is what the server holds.

Without a protocol of their own, and only seen through choices in the modelled parts: accounts and
permissions; website and player; directories, domains and licensing; schema and migrations;
command line and release tools.

`PROJECT.json` lists all 27 components with their files and what of each is modelled, and every hazard
of this code met so far with its line and with the properties that cover it, or why none does.

### How they interact

    web service --rows--> PostgreSQL <--rows-- automation worker
         |                                      |         ^
         | HTTP                          socket |         | events.log
         v                                      v         |
    microphone gateway ----- audio --------->  engine ----+
         ^---------- one POST per pass ---- automation worker

The row lock on `Station` is the only lock the web service and the automation worker share. It is
*not* held over a socket exchange except inside `push_decision` and `stage_block`, and only
for a decision still linked to an occurrence: most of what the models of the station found is there.
The other workers (ingest, production, bulletins in the automation worker, the central reporter, `freo-provision` and the
updater) each claim a row, work without a lock, and look at the row again before they commit.

## 2 How to run

    tlc -workers 2 -config MCPlayout.cfg MCPlayout      # a run: section 4 names module and cfg
    tlapm PlayoutProofs.tla                             # the proofs of a module, some minutes each

Each `MC*.tla` gives model values and bounds; each `.cfg` names a specification, constants and
the properties of one run. A definition whose comment says *variant* (or *mutant of X*) is a likely mistake in
the definition it stands beside (a dropped guard, a missing reset); it is not part of any
specification. `PROJECT.json` (`mutants`) says which variant breaks which property.

## 3 The modules and the code

### Playout

One station in AUTO mode. Its steps are the worker's commits and socket exchanges in
the order of `tick()`, each a step of its own, interleaved with the engine, the operator and
systemd.

| state | code |
|---|---|
| `status, reason, rid, sock` | `SelectionDecision.status, failure_reason, liquidsoap_request_id`, the socket identity stored with it |
| `up, epoch, queue, onair, nextRid` | the engine process, its socket (`socket_identity`), its sources, its request counter |
| `log, confirmed` | `events.log` of the running engine; confirmation of what is on air (`station.liq.template:813`) |
| `phase, pc, cur, got, batch, reader, seen, ident, complete, missing, room` | `Automation` object and locals of a tick: gone at `WorkerCrash` |
| `told, accepted, dropped` | history only: START lines written, pushes accepted, lines lost with a failed transaction |

| actions | code |
|---|---|
| `Collect, Record, Recorded` (fault `RecordFault`) | `collect()` W:57-110: the offset moves first, then the lines are applied one transaction each |
| `Inventory, TakeStock, Reconcile` (fault `ReconcileCut`) | W:210-299, 383-395: one inventory, then every row against it. The code commits the leaders (W:206) before the queued rows (W:296). Only the worker writes these rows, from the inventory it holds, so the two commits differ from one only if the worker dies between them, which is `ReconcileCut` |
| `Resolve, Refuse, Submit, Push, PushRefused, PushUnanswered, Ack, AckNoSocket` | `process_manual` W:396-447 |
| `Select, Push, Ack, PushError, FillDone` | the refill loop W:111-163 |
| `EngineNext, EngineConfirm, EngineEnd, EngineStop, EngineStart` | the engine script and its unit |
| `WebQueue` | `queue_song` of the booth: a person's row |
| `WindowCloses` | the confirmation window (`missing`) of one row runs out |

`Routine`, `Leader` and `Manual` are three kinds of decision with different recovery: an
automatic one is abandoned after an uncertain push, a leader is tried again, a person's is
adopted or submitted again. Ids start at 1 with every engine and 0 stands for NULL.

Abstractions: the identity of the socket is read together with the inventory; a window may close at any time;
rows of people are taken in any order; an engine that accepts after the client gave up is not
modelled; a cart's `on_track` START uses the same confirmation step. Eligibility at submission
is one choice (`Refuse`).

### TimedEvents

Occurrences of single-track events: two sides of the station lock. Here a request is named
by its decision and the engine restarts in one step: the handoff underneath is
`Playout`'s.

| state | code |
|---|---|
| `revision, enabled, generated` | `TimedEvent` |
| `state, byUser, rev, reserved, sel` | `TimedEventOccurrence`; `byUser` is a cancellation with a user |
| `status, bound, job` | the decision, the engine it was bound to, its `EventQueueCancellation` |
| `held` | whether the worker holds the station row |
| `rows, cur, dec` | candidates of this scan, the one considered, its decision |

`Withdrawn` is what `CancellationSurvivesEdits` speaks of: cancelled by a person, and not just now being handed over (`HandedOver`). A
cancellation inside the handover is overwritten (section 7).

Actions of the web service: `CancelOccurrence`, `Invalidate` (edit, disable), `WebGenerate`. Of the
worker: `Collect, Inventory, Reconcile, Refresh, ExpireDue, Sweep`, then for each candidate `Adopt, Miss, Pass,
Prepare, Unplayable, Wait, CutIn, Reserve, Submit, Push, Ack` (W:783-886). `Adopt` commits and thereby gives the lock up, and the scan goes on with the row
without looking at its state again (*adopted*). `Refresh` merges repair and
generation, which follow each other without a release of the lock. Time advances only between ticks. `Unplayable`
is a choice, for the content checks of `prepare_decision`.

A result worth recording: for single-track events the revalidation in `push_decision` can never
refuse in the model. The lock is either held since the checks, or the decision is no longer linked, and then
the revalidation is skipped.

### EventSequence

One execution from its commit to its end. `exec, abort, item, try, timed, linked, occ` are
the execution, its abort request, its items with the number of decisions made for each, and its
occurrence; `late` is 0, 1 (the length of a playing item has passed) or 2 (120 s more).
`Stage/StageFails/Ack` are the timed path (`stage_block`), `PrepareNext/PushOne/PushOneFails/AckOne` the one-by-one
path of a clock, `Abort`, `Adopt`, `FailSequence`, `FinishSequence`, `EndUnconfirmed` the other exits of `process_block`. One
pass ends at the same places as the code's `return`s. `Relabelled` (`event_blocks.py:261`) is modelled although no behaviour
needs it: it is a second line of defence.

`known` are the decisions whose request id was stored: a START that is read before the acknowledgement leaves it NULL, and W:242 and W:374 take such a request for
absent although it plays. The occurrence's timing mode is not kept, so a push that is made one by one goes in front or behind (`playout_queue.py:215`), either.

Not in it: blocks an operator starts (MANUAL), the abort in DJ mode (W:1162-1177), the event bus of DJ mode
(W:712-762). Other content of the queue is left out, so "the queue is given back" is `exec \notin Active`.

### LiveMicrophone

The page, the gateway session, the show, the worker's pass and the engine's microphone. A
worker pass is `show, close, read, fail, command, mixer` (W:1088-1128): read the engine
once, post it to the gateway, answer a failure, command the engine by the gateway's answer.
`AskGo`/`Go` split GO LIVE where the route has claimed the show but the gateway has not yet
heard of it; `AskMode`/`CommitMode` split a mode change between its guard and its commit.

Time is abstract. Leases run out (`LeaseRunsOut`, `Reap`) only where no pass renews them or after a fault
*stall*; the real lengths are 6 s (engine), 15 s (gateway), 10 s (heartbeat), against passes of 250 ms.
Abstractions: the three-second return to AUTO is one step; carts do not affect readiness; reading the
engine and posting to the gateway is one step, as is checking the right and sending the command (they
commute with everything between). Recordings are left out.

### BoothCue

The booth in DJ mode: two decks, the working Cue, AUTO_CUE. The web's requests edit the Cue and leave one deck command
(`order`); the worker's tick is `collect, recover, mixer, order, submit, push, take, advance, choose, return, observe`.

| state | code |
|---|---|
| `cue, plays, order` | `BoothCue`, `CuePlayback` with its decision, `LiveControlCommand` |
| `opmode, before, shown` | `AutomationState.operator_mode`, plays older than the last taking of control, `LiveQueueSnapshot.mixer` |
| `emode, waiting, runs, incoming, lease, returned, deck, log, life` | the engine's mixer, decks, event file and identity |
| `offset, pc, seen, dirty, active, grace, identity` | the worker's memory, gone in a crash |
| `fate, turns, stale, unmarked` | history: how each play left its deck, rotations granted, an automatic start that was not asked for, cuts nobody recorded |

PAUSE or CLEAR of the one deck that runs leases a return to AUTO (`StopLeases`), which the engine
completes by itself between two and fifteen seconds of silence later (`StoppedReturns`); whether a successor could be prepared is a choice.

A transaction under `booth_cue.locked` is one action, or keeps the web out while `Locked`. Gains, search and carts are
abstract or absent. `RotationEarned` names what the code does not promise: a play cut by a change of mode, by a crash that rolls its mark
back, or by a command that arrives as the deck has gone on to a repeat, rotates although it did not end by itself.

### ScheduleSwitch

A change of the scheduling mode (`services/schedule_switch.py`, with the requests of `visual_schedule.py` and the engine's
switch, `station.liq.template:680-720`). `command` is a `ScheduleTransition` per operator's request, `channel` the mode, revision and
hold in the database, `target` the decision that the new mode starts with, `engine` token, phase, queue and identity.
`channel.relay` says whether the station may carry a relay; an audible one makes the engine switch at once and without a START (`AskUnderRelay`, `Apply`). `engine.prepared`
is whether the target was taken out of the queue when the fade began: it is put back as the fade ends, also if it had been removed or played meanwhile.
The worker's pass is `Enter`, then one of `Prepare, Push, Track, Intend, Ask, LateStatus, AwaitStart, LateStart, Apply, Expire, Refuse`. Time
is `age`: 30 s and 120 s after the request.

### Lookahead

What automation selects ahead (`programming_refresh.py`, `listener_requests.py`, the refill loop): `cursor`, `rows`
(selections with their slot, the signature they were made under and the request they carry), the engine's `fifo`, START lines. An edit of
the programming makes rows obsolete: `Mark`, `RemoveFuture` and `Settle` (which rewinds the cursor to the first row
taken back) are separate commits. A listener's request goes `pending, queued, played / rejected / expired` with its row.
A row that is not found in the engine has ten seconds; in which pass they are over is a choice for each row (`Looks(late)`). `RestoreBefore` keeps the cursor if a later row has started or a
later block has begun, the latter a choice.

### Installation and Maintenance

`Installation` is what maintenance promises, in four actions: units serve, stop, the data are saved, the installation is replaced;
replaced only while nothing serves and a backup holds exactly the present data, serving only on whole versions.
`Maintenance` is `freo_ops`: `upgrade.py`, `web_updates.py`, `admin_upgrade.py`, `admin_backup.py`,
`recovery.py`, one step per durable write, with deaths of the process and reboots between any two.

| state | code |
|---|---|
| `journal, op, row` | the updater's `journal.json`, the administrator's `operation.json`, the `system_upgrades` row |
| `marker, guarded, running` | the maintenance file, the units' condition on it, what runs |
| `code, schema, files` | what `current` points to, the database's revision, the attached roots |
| `catalog, bundle, taken` | approved backups, the one being made, the path reserved for it. What was saved between two versions is *mixed*, and `Isolate` refuses it (`admin_backup.py:217-226`) |

`ImplementsInstallation` maps `running` to *serving*, `quiet` (nothing ran since the last backup) to *kept*, and `code`
to *version* where code, schema and files belong together, *between* elsewhere. `BeginsBeside` is the step the refinement does not survive: the web's upgrade begins
beside an unfinished operation, which `upgrade.py:245-248` never looks at.

### StationRuntime

A station from creation to deletion: the intents of browsers (`RequestBroadcast, QueueSettings, QueueListing, RequestDelete,
Retry`), the job of root's timer that carries them out in four parts (broadcast, lifecycle, audio, directory), and operators'
commands (`cli.py`), which write the same files and units. `lock` is `station-provision.lock`; the commands of an
operator do not take it, which is what `Overlap` is about: FALSE means that an operator waits until the timer's job is over.
Each step ends where something of the row, the files under `/etc/freo` or the unit becomes visible. Deaths, reboots and failing commands are faults.
Settings are an encoder, for which the unit restarts, and a processor, which the engine changes as it plays; `unit.sound` is what a running unit plays, and `Told` and
`Restarted` are the only ways to change it.

### MediaLibrary

Uploads of one piece of audio, the one ingest worker and the song. Browsers stage, edit, save, dismiss and retry drafts,
upload directly, and edit, disable, decommission, check, re-analyse and delete the song; the worker prepares, ingests,
verifies, analyses and erases, with its claims in the job rows; automation picks the song, records it, hands it over and acknowledges
cancellations. A step of the worker ends at its commits and wherever it looks at the database again.
`broadcast` is what a browser wants of the station and whether the engine runs: OFF is recorded at once (`Switch`), the engine stops later (`Follow`), and in between cancellations no longer
hold back the eraser (`MayErase`, `ingest_worker.py:46-50`) while automation no longer carries them out (`Cancelling`). A deletion that goes ahead then is `broadcast.overruled`.

### Production

Drafts, their attempts (voice, render, save), the production worker (`Reconcile, CleanUp, Claim, Begins, Result, Publish`), the
ingest worker that makes a song of a saved draft, and the browsers that order, delete, revoke a grant or replace
the credential meanwhile. `Publish` is the last look at draft and grants together with the commit (in the code
nothing slow happens between them, `production_worker.py:93-103`, and what a browser commits there counts as later). `attempt.calls` counts the paid calls of an attempt: a worker that dies during one finds a running attempt and writes it off.

### Bulletin

Occurrences whose audio is fetched: `row` with its `runtime`, `job` and `file` of the worker's download pool, the
engine's bulletin (`bulletin.liq`: IDLE, PREPARING, READY, INTRO, BODY, OUTRO, COMPLETED, FAILED) and the event `bus` it
reserves. The worker's pass over one occurrence is `Look, Prepare, Hand, Observe, Judge, Commit`; the engine's clock, the feed,
other holders of the bus, edits and cancellations run between. `bodies` counts how often each revision was begun.

### CentralIdentity and CentralReport

The reporter's two halves. `CentralIdentity`: registration or enrolment, the credential file (`none, attempted, token, identity`), activation codes and connection
checks, each write of the row, write of the file and request a step of its own. The answer to a
request is written to the row as it was read before it (`Base`); of the heartbeats only that of the installation alone does so, those of stations commit before they are sent (`Report`). `CentralReport`: hours sampled from a
clock that may be set back, the channel's metadata with the digest last acknowledged, what plays, and the one request under way
(`wire`), which the server may take before or after the client gives up. The server (`Takes*`) is external: it replaces
what it holds by what it receives. `Extended` is the contract with a daily reconciliation.

### Compositions

`MCServices` and `MCLive` put components that share no state into one state space: `part` is the component that runs, and the
others stand still (`MCServices!Next` is a disjunction of their next-state relations, each with the rest unchanged). This adds no interleavings,
which would show nothing, and lets one run ask one question of each. The proofs in `ServicesProofs` and `StepsProofs` are about
this composition, so that they state what the run checks.

### Proof modules

| module | extends | about |
|---|---|---|
| `PlayoutProofs` | `Playout` | the handoff |
| `TimedEventsProofs` | `TimedEvents` | occurrences of events |
| `LiveMicrophoneProofs` | `LiveMicrophone` | the microphone |
| `EventSequenceProofs` | `EventSequence` | the order of a sequence, and what an abort leaves |
| `BoothCueProofs` | `BoothCue` | the Cue, the decks and the event file |
| `MaintenanceProofs` | `Maintenance` | the maintenance; instantiated by `MCServices` |
| `ServicesProofs` | `MCServices` | the reports, the switch, and invariants of the composition |
| `StepsProofs` | `ServicesProofs` | bulletins, what each component's steps are permitted, the songs selected ahead, and the types |

## 4 Runs: what they check and show

| run | module, cfg | bounds | distinct states | properties |
|---|---|---|---|---|
| `playout_faults` | `MCPlayout`, `MCPlayout.cfg` | two attempts at a leader, one manual row, queue 1, any 2 of 5 kinds of fault | 2.5 M | `TypeOK, StartedWasAired, NoFalseVanish, RefillSubmitsOnce, NothingTwice, ManualIdentifies, StartedIsFinal` |
| `playout_liveness` | `MCPlayout`, `MCPlayoutLive.cfg` | one row of each kind, the manual one on a side channel that may stay silent, any 1 of 5 faults | 195 k | `IntentResolved, LoggedStartIsRecorded` |
| `timed_edits` | `MCTimedEvents`, `MCTimedEvents.cfg` | one SOFT definition with two occurrences, two revisions, three times, one crash | 2.8 M | `TypeOK, WithdrawnIsRemoved, CancellationSurvivesEdits, ReservedIsNotMissed` |
| `timed_playing` | `MCTimedEvents`, `MCTimedEventsLive.cfg` | a HARD and a SOFT event due together, music between, any 1 of 3 faults | 282 k | `PlayingEnds, PlayedOnlySettles` |
| `sequence` | `MCEventSequence`, `.cfg` | two items, skippable and aborting, timed or from a clock, any 1 of 4 faults | 206 k | `TypeOK, AiredAsRecorded, AbortRemoves, SequenceEnds` |
| `microphone` | `MCLiveMicrophone`, `.cfg` | one operator, one session, one GO LIVE, one mode change, any 1 of 5 faults | 3.5 M | `TypeOK, OneTakePerGo, DepartureKeepsMode` |
| `microphone_live` | `MCLiveMicrophone`, `MCLiveMicrophoneLive.cfg` | the same without mode changes | 337 k | `AirReleased` |
| `booth` | `MCBoothCue`, `.cfg` | two entries, two plays, one edit, one switch of the schedule or one fault | 933 k | `TypeOK, RotationEarned, AutomaticStartIsCurrent, PendingStartResolves` |
| `services` | `MCServices`, `.cfg` | nine components, see below | 1.68 M | `TypeOK, StationsSafe, MigratesOnce, PaidOnce, PlayedOnce, AiredOnce, OneIdentity, ServerAgrees, SwitchIsSafe, ImplementsInstallation, StepsPermitted` |
| `live` | `MCLive`, `.cfg` | seven components, smaller bounds | 165 k | `WorkEnds` |
| `maintenance_recovery` | `MCMaintenance`, `.cfg` | `Overlap`, two commands, one fault | counterexample | `NothingRunsUnmatched` (section 7) |
| `report_withdrawal` | `MCCentralReport`, `MCReportWithdrawal.cfg` | the earlier contract, three edits, one lost answer | counterexample | `WithdrawalArrives` (section 7) |

`.cfg` alone stands for the module's own name.

Why the bounds are enough to meet the cases:

* *Playout.* Two attempts at one leader are what a leader started twice needs; a
  manual row beside them makes the adopted, the re-submitted and the foreign request possible. Two faults reach
  "crash after the push, then engine restart", where ids are reused. A queue of 1 makes it fill. A
  page of 8 lines is more than a behaviour writes; section 6 says what happens with a shorter one.
* *TimedEvents.* Two occurrences are the least that coalesce and compete for a
  boundary; two revisions are the least that revive; times 0 to 2 are before, at and
  after the deadlines.
* *EventSequence.* Two items are the least with an order and with both policies. Three items with
  one fault (1.2 M states) and two items with two faults (0.9 M) were explored too, with the same result.
* *LiveMicrophone.* One session suffices for what is stated, since every property is
  about one token; one mode change is what can race a GO LIVE. `microphone_live` leaves it out for the size of the graph; explored
  for ten minutes with it, `AirReleased` holds on all 3.5 M states. The show such a GO LIVE claimed does end under the microphone (`admin_live.py:96`): no property denies it.
* *BoothCue.* Two entries are the least that rotate, two plays the least that race for a deck. The action constraint
  `WebBetweenJudgements` tries the web's requests only before the worker's steps that read what they change; they commute with the others. `OneDisturbance` allows a
  switch of the schedule or a fault in one behaviour, not both; the three safety properties are proved without either bound.
* *services.* Stations: 3 requests, 1 fault, no overlap (a second request before the first is done; a fault in its middle). Upgrades: 2
  commands, 1 fault (an operation left behind, and its recovery). Media: 2 uploads of the same bytes, 4 requests, 1 fault (a
  duplicate, an edit, a deletion, a death). Production: 2 drafts, 4 orders, 1 death. Bulletins: 2 occurrences, a file with frame and a
  live feed, 1 edit; with one stop added the part has 1.2 M states and the same result. Central: 3 asks, 1
  fault. Report: three ticks in hours of two, 1 edit, 1 fault. Switch: 2 commands, 1 fault, no edit of the schedule. Lookahead: 1
  request, depth 2, 3 rows, 1 edit, 1 crash, no restart of the engine (with one lost answer added the part has 2.4 M states and the same result). Each part has between 26 k (production) and 534 k (switch) states, and none
  shares one with another. Stations with 4 requests and 2 faults (533 k states) have the same result.
* *live.* One command, one upload, one occurrence: the properties follow one piece of work at a time, and each part keeps one fault.

Properties, in words (each stands in its module under a comment that says more):

* `StartedWasAired`, `StartedIsFinal`, `NoFalseVanish`: the airplay record is neither invented, nor taken back,
  nor denied. `RefillSubmitsOnce`, `NothingTwice`: nothing goes to the engine, or on the air, twice.
  `ManualIdentifies`: a stored id never names another row's request. `IntentResolved`, `LoggedStartIsRecorded`: every intent ends; every start is recorded.
  That an operator's row which meets a full queue waits and is not failed is only in the guard of `Submit`: *failed* ends an intent too.
* `CancellationSurvivesEdits`, `WithdrawnIsRemoved`: what a person cancelled while it was not being handed over stays cancelled, and a processed cancellation leaves nothing in the engine.
  `ReservedIsNotMissed`, `PlayingEnds`, `PlayedOnlySettles`.
  `PlayingEnds` speaks of starts bound to an engine: one read while its row is back in
  *selected* stores no socket identity and is listed among the hazards (W:104).
* `AiredAsRecorded` (order, and nothing called completed that was not heard), `AbortRemoves`, `SequenceEnds`. The order is within one engine life,
  `AbortRemoves` for executions still linked to their rows.
* `OneTakePerGo` (once more for each restart of the engine), `DepartureKeepsMode` (for sessions that were left), `AirReleased`.
* `RotationEarned`, `AutomaticStartIsCurrent`, `PendingStartResolves`: an END advances the Cue once; AUTO_CUE
  starts what is next at that moment; a pending start ends.
* `StationsSafe`: a deleted station leaves nothing, files say what the row says, and new settings become those of record only once a running unit plays them (for settings installed while ON was wanted). `MigratesOnce`, `ImplementsInstallation`. `PaidOnce`: no
  order is paid twice, a take has one owner, a file outlives its use unless it was deleted while OFF was wanted and the engine still ran. `PlayedOnce`: no listener's request is played
  twice, and no position while worker and engine live and the station is refilled. `AiredOnce`: no body of a bulletin is. `OneIdentity`: nothing is registered that nobody asked for, no
  credential is lost. `ServerAgrees`: what counts as sent is held. `SwitchIsSafe`: an uncertain
  switch holds automation; the engine cuts once per command, and a mode is active only once its target was heard or under a relay. `StepsPermitted`: five action properties, one per component (reports
  are true, edits are kept, nothing is published without permission, no old definition is handed over, a rejected credential rests).
* `WorkEnds`: the work of each of the seven components ends; `MCLive` lists the formulas it joins.

## 5 Fairness

Fairness is asked of the program's own loops only. Nobody has to act: no operator, no fault, no edit is fair.

* The worker's steps (`WF`): a loop that sleeps 2 s or 250 ms, restarted by systemd
  (`freo-automation.service`: `Restart=on-failure`, `RestartSec=5`), so a crash is followed by a new pass.
* The engine restarts after it stops (`freo-playout@.service`, `Restart=on-failure`,
  `RestartSec=5`), and what it plays ends: songs have a length.
* Confirmation windows and leases run out: they are clocks.
* In `EventSequence`, `Passes` is the time of `late`; in `LiveMicrophone`, `Thread` is the engine's 50-100 ms threads, `Reap`
  the gateway's loop, `DepartureArrives` the delivery of the page's last request.
* In `BoothCue` the worker and the engine (songs and fades end). In `MCLive` each part has its own component's fairness
  (weak fairness in `Fair1` to `Fair3`, strong in `Strong`): the loops of the workers (systemd restarts all of them), the engine, a clock that grows, the daily
  reconciliation. `Fetched` is the one step that is not a loop: a download has a time limit and so succeeds or fails.
  `Strong` is `Looks(Waits)` of the lookahead: passes go on, each looks again at the rows it does not find, and in one of them the ten seconds of all of them are over. A clock that
  grows gives no less; it is strong because the pass leaves and comes back.
* Faults are bounded by `MaxFault`; the liveness runs say what holds once they stop.

## 6 What is proved

Every theorem is checked by TLAPS down to its last leaf, for **every** value of the constants that satisfies the stated assumptions: any
set of decisions, occurrences, drafts or commands, and **any number** of requests, edits and faults. The assumptions
are the named ones of each module (the kinds of decision are disjoint, bounds are naturals, and the like) and, where a theorem
has more, it says so in its statement:

* `Apart` (`MaintenanceProofs`), `UpgradesApart` (`ServicesProofs`): no step of the behaviour is `BeginsBeside`, that is, the web's upgrade does not begin beside an unfinished
  operation. It is a premise in the statement of `RunsMatched`, `Implements`, `MigratesOnceAlways` (its second half) and `ImplementsAlways`. The code does not enforce it
  (`upgrade.py:245-248`), and the run `maintenance_recovery` refutes `RunsMatched` without it, so these theorems say what the rest of the code achieves. That a plan is migrated at
  most once, and the types, need no such premise.
* `~Overlap` (`StationRuntime`): an operator's command does not run beside the job of the timer. The code does not enforce it; an exploration refutes what
  depends on it (section 7). `StationsSafeAlways`, `StepsPermittedAlways` and `TypesAlways` state it, the last two for the sake of the stations only.
* `[]KeepsUp` (`Playout`): at the beginning of a tick no more than a page of lines is unread.
* `[]ReadUp` (`TimedEvents`): when the worker resolves unanswered requests, none of them has a START it has not read.
* `"answer" \notin Faulty` (`EventSequence`): no answer to a command is lost. For the order it is asked only of timed executions
  (`Staged \subseteq {FALSE}` otherwise); `TypeCorrect` and `CompletedIsHeard` do without. The run `sequence` loses answers, with two items and one
  fault, and finds nothing; with three faults TLC refutes
  the order of three items, and the abort (section 7).
* `MaxEdits \in Nat` (`Bulletin`), `SwitchAssumption` (`ScheduleSwitch`), `MaxRows, MaxProgramEdits, MaxOutages \in Nat` (`Lookahead`),
  and for the types also `MaxStops`, `MaxAsks`, `MaxCentralFaults`, `MaxReportEdits`, `MaxReportFaults \in Nat`, `Hour` and `MaxTime`
  positive, *active* among the lives a station may have, and `Parts` made of the nine components there are.

| module | theorem | property | says |
|---|---|---|---|
| `PlayoutProofs` | `TypeCorrect` | `TypeOK` | every reachable state is well typed |
| | `NoInventedAirplay` | `StartedWasAired` | a row is *started* only if an engine wrote its START line |
| | `ConfirmedStartIsFinal` | `StartedIsFinal` | no step of anyone takes a recorded start back |
| | `AutomaticSubmittedOnce` | `RefillSubmitsOnce` | the refill hands each of its rows over at most once |
| | `StoredIdsIdentify` | `ManualIdentifies` | the id stored for a person's row names that row's request, across engine restarts |
| | `NeverBesideItself` | (`NoDuplicateRequest`) | the program bus never holds two requests of one decision |
| | `NoStartWrittenOff` | `NoFalseVanish` | no row is written off that was heard (`[]KeepsUp`) |
| | `NothingHandedTwice` | `NothingTwice` | no leader starts twice in an engine's life (`[]KeepsUp`) |
| `TimedEventsProofs` | `TypeCorrect` | `TypeOK` | every reachable state is well typed |
| | `CancelledForGood` | `CancellationSurvivesEdits` | what a person cancelled, and the worker was not just handing over, stays withdrawn |
| | `ReservationHolds` | `ReservedIsNotMissed` | a reserved boundary is not given up |
| | `PlayedSettles` | `PlayedOnlySettles` | what has started only ends, and stays ended |
| | `WithdrawnForGood` | `WithdrawnIsRemoved` | a processed cancellation leaves no request behind (`[]ReadUp`) |
| `LiveMicrophoneProofs` | `TypeCorrect` | `TypeOK` | every reachable state is well typed |
| | `DepartureIsNoFailure` | `DepartureKeepsMode` | a microphone that is left on purpose never becomes FAILED |
| | `TakenOncePerGo` | `OneTakePerGo` | the air is taken at most once for each GO LIVE, and once more for each restart of the engine |
| `EventSequenceProofs` | `TypeCorrect` | `TypeOK` | every reachable state is well typed |
| | `CompletedIsHeard` | (`CompletedWasAired`) | what is called completed was heard, with any fault |
| | `HeardInOrder` | `AiredAsRecorded` | within an engine's life, items are heard once and in their order (see above) |
| | `AbortEmptiesQueue` | `AbortRemoves` | an aborted execution leaves nothing in the engine once its jobs are done (see above) |
| `BoothCueProofs` | `TypeCorrect` | `TypeOK` | every reachable state is well typed |
| | `AutomaticStart` | `AutomaticStartIsCurrent` | AUTO_CUE starts only what is next, armed and beside a silent deck at that moment |
| | `RotationIsEarned` | `RotationEarned` | a play rotates the Cue at most once, and only for an end that was not recorded as a cut |
| `MaintenanceProofs` | `MigratesAtMostOnce` | (`MigratesOnce`) | the row of a plan migrates at most once |
| | `RunsMatched` | (`NothingRunsUnmatched`) | what runs finds code, schema and files of one version (`Apart`) |
| | `Implements` | (`ImplementsInstallation`) | the refinement of `Installation` (`Apart`) |
| | `TypeCorrect` | (`Upgrades!TypeOK`) | journal, operation, installation and process are well typed |
| `ServicesProofs` | `ReportAgrees` | (`Report!HourIsHeld`, `Report!SyncedIsHeld`, `Report!OnlyWitnessed`) | what counts as sent is held, and no hour claims more than was seen |
| | `UncertainSwitchHolds` | (`Switch!HeldWhenUncertain`) | a switch that was given up but may have happened holds automation |
| | `CutsOncePerCommand` | (`Switch!SwitchedOnce`) | the engine cuts once per command; a mode is active only once its target was heard, or under a relay |
| | `ServerAgreesAlways`, `SwitchIsAlwaysSafe`, `MigratesOnceAlways`, `ImplementsAlways` | `ServerAgrees`, `SwitchIsSafe`, `MigratesOnce`, `ImplementsInstallation` | these results, as the run states them (`UpgradesApart` for the last two, except that a plan migrates once) |
| | `OneIdentityAlways` | `OneIdentity` | nothing is registered that nobody asked for, no credential is lost |
| | `PaidOnceAlways` | `PaidOnce` | an order is paid once, a take has one owner, a file outlives its use (but for the deletion under OFF, section 7) |
| | `StationsSafeAlways` | `StationsSafe` | a deleted station leaves nothing, files say what the row says, settings of record were heard (`~Overlap`) |
| `StepsProofs` | `AiredOnceAlways` | `AiredOnce` | no body of a bulletin is aired twice, and none is counted that was not heard |
| | `PlayedOnceAlways` | `PlayedOnce` | no listener's request is heard twice, whatever fails; no position is, while worker and engine live (section 7) |
| | `StepsPermittedAlways` | `StepsPermitted` | the five action properties (`~Overlap`, for the stations) |
| | `TypesAlways` | `TypeOK` | every reachable state of every one of the nine components is well typed (`~Overlap`, for the stations) |

A property in brackets belongs to the component; the run states it through `MCServices`, or within another property.

### The handoff

`StartedWasAired` is not inductive: a row becomes *started* from a line of the page the worker is
applying, and that page was read from the engine's log some steps before. Nor is `TypeOK`: `room` is decreased after
a push. `IInv` adds that every line in the log and in the worker's page is of a decision an engine rendered (`LinesAired`), that a push
under way is of a *selected* or *submitting* row with room left (`CurPending`), and that each loop runs in its own phase (`PhaseOK`).

`RowMoves`: no step makes a row new again or takes it out of *started*. It needs `IInv`: an
acknowledgement and a failed push write a row that was loaded earlier, and only `CurPending` shows that it cannot have
started in between. `FirstAttempt`: a row of the refill that does not exist
yet was never accepted by an engine, and neither was the one about to be pushed; every way out of a push leaves it accepted at most once.

`IdInv`, for the stored ids: a live request has an id already given out, no two decisions share one, no stored identity is
later than the running engine's (`IdsOK`); under that identity each id in the inventory, in the answer to a push and in a queued row names its
decision (`SeenOK, AckOK, RowsOK`). "If a live request has id *i*, it is *d*'s" is stable because live requests only disappear and a new
one has a fresh id.

`HeldInv` says what the engine holds against what the rows and the worker believe: a new row is in no engine, what may be pushed is not in it,
it holds one request per decision, and nothing entered it since the inventory was read. That makes adoption and re-submission
exclude each other, hence `NeverBesideItself`, without any hypothesis.

`LineInv` follows the START lines: each is unread, in the page, recorded or dropped with a failed transaction; a row whose
confirmation window is open was absent from the engine, and its lines have been read when the window is looked at. Then a
row written off was never heard. Its step `Collect` is where `KeepsUp` is used. The hypothesis is not idle: with `Page = 1` and one crash TLC
refutes `NoFalseVanish` and `NothingTwice`. In the code the page is `readlines(65536)` (W:67), so a log that grew by more than 64 KB while no
worker ran outlasts the ten seconds of the window.

`LeaderInv` for the opening song: an attempt whose fate is unknown is made pending by the next reconciliation, one that was given up is in no
engine and in no line that was not dropped, so the next attempt begins when every other is away. A proof attempt showed
that two arms of the CASE in `Playout!Reconcile` overlapped; they are now exclusive.
`Reconcile` and `ReconcileCut` judge the rows alike (`Judges`), and the invariants rest on that.

### Timed events

`IInv` is the type, with what a pass has in hand (`PassOK`) and how revisions grow (`RevisionOK`). `AllMoves` then lists once
what any step may do to a decision, a row, the engine and the pass, and the invariants below rest on it and not on the actions:

* `UserOK`: an occurrence a person cancelled is neither absent nor pending nor ready.
* `CompletedOK`: a completed occurrence has a decision, and that decision is *started*.
* `LinksInv`: a decision that is linked to its occurrence has no cancellation job; a revision that is still to be prepared has no decision.
* `StageInv`: after *resolve* no request is unanswered, and what is scanned has not played.
* `OldInv`: a request bound to an earlier engine is still unanswered while it waits, and otherwise is nowhere.

`WithdrawnIsRemoved` needs `ReadUp` in `OldInv`. Without it and with five faults there is a counterexample: a request that is unanswered for a third
time airs between the reading of the log and the resolution, goes back to *selected*, and keeps the id and identity of an earlier engine,
which nothing clears (W:396-408, 649-666, 693-702); a cancellation then looks for it in the wrong engine. In the model a fresh worker
reads the event file from its beginning; lines it has applied change nothing.

A row's queue is filtered by a recursive function (`Without`); what it returns is proved with `Induction`, the induction
principle over sets, since the library's theorem takes an operator as parameter.

### The sequences

Neither `AiredAsRecorded` nor `AbortRemoves` is inductive: nothing in them ties the rows to the queue. TLC checked the invariant below
before it was proved (two items with three faults, 3.2 M states; three items with two, 7.0 M; one by one with lost answers, 2.1 M).

* `StoryInv` is about the rows and needs no hypothesis: a decision is *started* only for an item that was heard (`Recorded`, over `LogNow`), an item that is called
  played has a started decision and one that waits has none (`Truthful`), an execution is *COMPLETED* by an item (`Completed`), decisions are made in
  the order of their numbers (`Made`), and what is handed over is *submitting* (`BatchOK`).
* `QueueInv`: the queue is sorted by position and comes after all that this engine has played (`Lined`); what is about to be pushed comes after both
  (`AtPush`), and every item that still waits comes later or was itself handed over with its answer lost (`BatchFirst, Onward`). This is where the
  hypothesis is used: a push of a timed execution inserts in front (`playout_queue.py:215`), so the queue must be empty then.
* `StateInv`: by the time `process_block` decides, what is in the engine is known to be (`Phase`); a decision that is missed is nowhere (`Miss`); requests
  whose answer is unknown are withdrawn all or none (`Uniform`).
* `LinkInv`, of a timed execution: what the engine holds waits in its row, or is skipped with a cancellation that the next sweep executes (`Accounted`), and an
  aborted one has nothing that waits (`Aborted`). `AbortRemoves` follows.

`Applied` (the lines of a page) and `Without` (what a removal leaves) are recursive functions; that they keep types, order and elements is proved with the
induction principle over sets (`Induction`, `Recursion`), and cited everywhere else.

### The microphone

`IInv` is `TypeOK` by party, with what the types rest on: an engine life but the first costs a fault
(`CountOK`), a GO LIVE on its way has not used the last of its session (`GoOK`), and a pass closes a show it found, answers
a failure that has a session, and holds a reply with an owner (`PassOK`).

**Departures.** FAILED is reached from the air, without lease or without audio. `KInv` follows the gateway's session
until the engine has been seen off the air: while it exists and nothing was lost, it either has audio or is leaving
(`Silence, Deserted, Parting`), and what is on the air keeps lease and stream (`OnAirIsHeard`). The session is closed only by an observation off
the air, by the reaper when the engine no longer has its token, or with the gateway. After that a worker pass may still hold the reply it got
from the session; `Closed` says that such a pass finds the engine without that token, and `Numbered` that tokens are never given out twice.

**Takes.** What a token is `Allowed` is one take for each GO LIVE and one for each restart of the engine. `GInv`: until the engine restarts, a session that
still wants LIVE and has had what it is allowed is on the air or FAILED (`Served`), and a restart, which forgets that, raises the allowance; the
return from the air is ordered by an END, which no GO LIVE can precede within the pass (`Ending`), or by an expulsion that reached the gateway;
FAILED stays, since a pass that finds the session's own token prepares no other (`Known, Apart`). `OneTakePerGo` excepts the tokens of `untold`, whose
expulsion the worker could not tell the gateway. That is no convenience: without the exception three lost answers refute it (`live_sessions.py:300-309`,
`live_mic.py:110-115`).

### The booth

Neither property is inductive, and the type is not either: what the worker has in hand must be typed with it (`OrderShape`,
`Ordered`, together `TypeInv`).

**The automatic start.** A deck is chosen from what the worker read of the mixer; the web may edit the Cue and the operator may
give a command until this one is sent. `CurrentInv` keeps what still holds at each place of the worker: until the read is judged, what is heard
was heard when the mixer was read (`Heeded`); beside the deck of an automatic order nothing is heard (`Alone`); between load and
take the Cue is locked and the order's entry is the one that is next (`NextUp`).

**The rotation.** `WorkInv` first: one order is under way and a submitting play is its target (`Engaged, Submitted`), plays are
numbered in the order they were made (`Numbered`). `StoryInv` then follows a play from the deck to the END line: it is in one place of one deck
(`Apart`), was submitted before it was loaded (`Loaded`), had started before it ended and is on no deck after (`EndedWas`), and a START that was
read is on record (`ReadIs`). `Marked` and `Explained`: each end is that of the file, or has one of the three causes the code does not record, or its play is
marked as cut, in the database or in the open transaction. `Caught` and `Unsent`: a play that came and went before its submission was noted is read of
before it could be pushed again. `Granted` is the conclusion: one turn, for a play that is consumed (`done`), off the decks and with a cause. Each
step is shown to be an `AirMove` (the decks move) or a `PlayStep` (records change), and the invariant rests on these and not on the actions. The case
analysis showed that `SocketError` (W:504-512) was defined and missing from `Next`.

### The switch, the reports, the maintenance

*Switch.* `HeldWhenUncertain` and `SwitchedOnce` are inductive with: one command is in flight, the engine's token names one that
was handed over (`AskedInv`), what is to fade has a target tracked in a known engine life (`SentInv`), and the phase tells how often the engine cut (`CutsInv`).

*Reports.* While a request is under way nothing is sampled, so what it says of an hour is what the table says (`WireIsTrue`), and an answered one is held
(`AnsweredIsHeld`). `CountsInv`: the ticks an hour has counted lie before its `until`, so that a tick still to be counted is another one, although the
clock may go back.

*Maintenance.* `Still`: what does not match stands behind the marker, stopped, with a backup. `Operating`, `Process` and `Reached` say what each unfinished
operation and each place in the program has achieved. Each step is then shown to be `Serve`, `Stop`, `Save` or `Replace` of `Installation`, or to stutter.

### The services

`ServicesProofs` lifts these three to `MCServices`, where the other parts stand still, and adds:

* `CentralInv`: the identities registered and those on their way are no more than were asked for, where *on its way* is the
  state of the row or the reporter's place in the code; the file follows what is about to be asked for or recorded.
* `MediaInv`: from the commit that condemns a song on, nothing is handed over, and a song the engine holds has its row, after the
  condemnation a cancellation too, and is not being erased: all this unless its deletion was overruled by OFF.
* `ProductionInv`: an attempt that is pending or about to begin has not been paid; whoever owns a take has a song.
* `StationInv`: one process acts at a time (`OneActs`, where `~Overlap` is used), each place it can be at fixes what the steps before it left (`Places`), a
  deleted station rests, and the settings on record are in the file or in the oldest backup (`Recorded`). Where the timer commits a change of the
  settings while ON is wanted, the unit plays what it commits.

`StepsProofs` has the bulletins and the action properties:

* `HandsInv`: a download belongs to the revision that asked for it, and what the engine holds of an edited revision is dropped before the next is asked for.
  `AirsInv`: each revision is given to the engine at most once, its body is still to begin while it waits there, and the history counts what was heard.
* `Welcome`, for the rejected credential: where the reporter sends a request, the row does not say *rejected*.
* `Playable, Permitted, Reporting`: a unit that runs has a configuration, so it comes back when the engine dies; a newer request raises the
  revision; from the moment the job of the timer reads the newest request to its report no operator's command runs.
* For media and production one lemma each suffices: only an operator replaces an operator's boundaries; only `Publish` completes and only `Reconcile` enables.

and the lookahead:

* **Requests.** A selection that certainly was not heard is nowhere: not queued, not on the air, not among the STARTs unread (`AwayInv`). `Maintained` gives a
  request to a new selection only when all its earlier ones are such, so of its attempts all but one are (`OneAttempt`, `Waiting`). It needs what
  the rows know of the engine (`IdentityInv`), that what is pushed is not being taken back (`PushInv`), and what a refresh has in hand (`TodoInv`).
  Since this holds with any number of crashes, restarts and lost answers, so does the property.
* **Positions** (`Calm`, while `Undisturbed`). The positions of the selections that are current rise with their index and stay below the cursor; a
  refresh has rewound the cursor to the first row it takes back before it selects anything.
* `Without`, what a removal leaves of the queue, is a recursive function; that it keeps types and exactly the other elements is proved from
  the well-foundedness of the naturals (`UpTo`, `KeepingExists`, `WithoutKeeps`).

The types close the list. A component's type is not inductive by itself: a fetched body has the type of one only because of the revision the download
belongs to (`HandsInv`), an identity is within its bound only because each was asked for (`CentralInv`), an operation has a plan only at the
places that set it (`Process`). So each invariant above is joined with the *shape* of what is under way and with the bounds of the counters, and the type
is a consequence of the two. The report needs a count as well: an hour is credited with no more ticks than it is long, since each is at a time of its own
(`HourHasItsTicks`, from the cardinality of a set of times).

### What stays with TLC

* Liveness under fairness, everything with ENABLED, and the two refuted properties.
* The order of a timed sequence, and its abort, where answers are lost: they do not hold in general (section 7), only within the bounds of `sequence`.
* The refinement of `Installation` where an upgrade begins beside an unfinished operation: it does not hold there (section 7).

## 7 Where code and documentation disagree

Two runs each check one sentence and end in a counterexample:

* `maintenance_recovery` (`freo_ops/admin_backup.py:532`). `docs/recovery-and-upgrades.md:218` says of the guard that it
  "prevents enabled services from starting on a reboot in the middle of migration", and `upgrade.py:110` that a reboot must not restart old
  or new workers. A backup fails after it stopped the services and stays unfinished; the updater's timer takes a queued
  web upgrade, which does not ask for unfinished operations, and dies in its migration; the recovery of the backup removes the marker and starts the
  services on a half-migrated database.
* `report_withdrawal` (`services/central_api/__init__.py:305`). `docs/now-playing-reporting.md:20` says the worker "retries withdrawal if the API is
  unavailable". A channel opts in, the server takes it, the answer is lost, the owner opts out: the metadata equal the digest last
  acknowledged, so the withdrawal is never sent. The extended contract's daily reconciliation repairs it; the earlier contract has none.

### Observations without a run

Met while modelling or proving. A name in brackets is a sentence that its module states as a definition and no run checks; TLC or a failed proof
refuted it.

* W:407 (`Playout!NotReplayed`): after a crash between an accepted push and its acknowledgement, a row that no
  current request annotates is submitted again without a window; if it has already played, it plays twice.
* W:71: the file offset moves before the lines are applied; a START whose transaction fails is not read again by this process.
* W:663 (`TimedEvents!CancelledStaysCancelled`): a cancellation committed between the worker's commit and its push is overwritten by *QUEUED*. An edit then cancels
  the occurrence anonymously (`timed_events.py:136-156`) and the generation revives it (`:292`), so a person's cancellation from that window does not outlive an edit.
  `CancellationSurvivesEdits` and `CancelledForGood` except it by `HandedOver`.
* W:327 (`EventSequence!CancelledIsRemoved`): a cancellation committed after `process_block` has loaded its execution does not stop that pass.
* `playout_queue.py:215`: items of a timed sequence are inserted in front of the queue. After an engine restart they are handed over one at a time, and one whose answer
  was lost is taken for not handed over: the next goes in front of it, and is heard first. Refuted with three items, a worker crash, an engine
  restart and a lost answer (`EventSequence!InOrder`).
* W:398-405 with W:702: a sequence is accepted, the worker dies before it notes so, the recovery notes the engine's identity, and the engine restarts. The sequence is
  staged again with the same decisions, which keep that identity until a push is acknowledged. If this push is accepted and its answer is lost, the
  sequence fails, its cancellations look in the wrong engine and count as done, and its items play (three faults; `EventSequence!AbortRemoves`).
* `services/live_mic.py:125` (`LiveMicrophone!ReconnectionStaysOff`): the gateway keeps the LIVE intent of a failed session; a restart of the engine forgets the latch
  that held it back.
* `live_sessions.py:280` and `:287`: the release of an unused claim after 300 s can race the claim's first use.
* `station_runtime.py:313-327` (`StationRuntime!PlaysAsRecorded`): OFF is asked for after the job of the timer has looked at what is wanted, and the unit still runs. A
  change of the settings that is carried out now is committed without telling the unit; ON before the unit was stopped starts nothing, and the old sound goes on.
* `ingest_worker.py:46-50` with `master_broadcast.py:19` (`MediaLibrary!FileOutlivesAnyQueue`): OFF is recorded before root's timer stops the engine. From then on a cancellation
  neither holds back the eraser nor is carried out by automation, so a file may be erased while the engine still holds its request.
* Stations with `Overlap`: an operator's command beside the job of the timer can start a unit of a station that is being deleted.
* `central_api/__init__.py:275` against `routes/central_api.py:47-55`: the reporter writes the state it loaded, and an activation code
  queued meanwhile is lost (`CentralIdentity!ActivationKept`); a retry of the connection likewise.
* `services/media.py:251-252` against `docs/media-import-rollout.md:13`: a check that ends after a decommissioning enables the song (`MediaLibrary!DecommissionedStaysOff`).
* The queue of the production stalls on a draft whose song was decommissioned before it could be enabled.
* `bulletin.liq`: a bulletin that reserved the bus may keep it (`Bulletin!BusReleased`). An edit between the bulletin worker's read and its commit is overwritten;
  an edited occurrence that the same engine already holds is answered OK by its id and later fails.
* `programming_refresh.py:103-109` with 189: `_restore_before` keeps the cursor only if a later row has *started* or a later block has begun, and otherwise rewinds it over later rows that stay
  in the queue. Their positions are then selected, and played, again. It happens (a) when the worker dies between the removal and its record, although the comment
  at 148 says that a restarted worker finishes the removal "without selecting a duplicate successor or rewinding its cursor"; (b) when the engine restarts within
  a refill that has just retracted a request's row; (c) without any fault, when the station is held, or the operator is not in AUTO, and is therefore
  refreshed without a refill (`prefill`, W:1193). `Lookahead!Undisturbed` excepts these three. Within 5 rows TLC refutes `SlotPlaysOnce`
  with one edit and one crash; with one request, no edit and one engine restart (`Depth = 1`); and with one edit and `Refilled = BOOLEAN`.
* `import_sessions.py`: a preparation that fails overwrites a cancellation, although a comment says that cancellation must win; `cleanup_drafts` unlinks files
  before its commit; a song imported again while it waits for deletion is answered *duplicate* and then erased (`docs/sound-room.md:42`); an analysis
  requested while the last one is claimed stays requested; an analysis commits over a concurrent disabling.
* The production's cleanup may expire a draft that was ordered since it was read.
* A report that met a transient 404 stays blocked until an operator retries.

## 8 What is not modelled

* Audio: fades, ducking, gain, decoding, transcoding, WebRTC signalling. In the booth a deck that runs and holds a song is heard.
* Wording, logging, rendering, request parsing; the browser is only the operator that asks.
* Wall-clock time, except as the order of deadlines and windows that run out. Rate limits and `Retry-After` are abstract.
* Two stations at once: stations share no playout state.
* Relay, schedule resolution, selection rules, traffic, takeover and carts, recordings, the DJ-mode event bus of
  `process_dj_events`, the station limit under concurrent creation: not yet (section 9).
* Accounts, website, directories, schema, command line and release tools: no protocol between several actors;
  `PROJECT.json` gives the reason for each.

## 9 Plan

1. `Takeover`: skip, push, mixer of `process_manual` (W:448-640) over `BoothCue`, with the failure between skip and push.
2. `Relay`: a selected relay defers and reserves events; over `TimedEvents`.
3. `SelectionRules` and `ScheduleRules`: pure operators (separation, relaxation, clock slots; the week and its
   boundaries) against reference definitions, over bounded inputs.
4. `Traffic`: placements that follow item executions; recordings with their lease.
5. Compositions: `Playout` with `TimedEvents` (the decision of an occurrence going through the real handoff); an *airplay ledger* (an
   intent is open, recorded as aired, or written off, and what is recorded is final) that `Playout` refines under `status`.

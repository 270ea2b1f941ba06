---------------------------- MODULE StationRuntime ----------------------------
(***************************************************************************)
(* The runtime of one station.  Browsers and the command line store an      *)
(* intent; freo-provision runs as root when one is pending and carries it   *)
(* out: broadcast ON and OFF, creation and deletion, audio settings, the    *)
(* public directory.  Each step below ends where something of the station   *)
(* row, the files under /etc/freo or the playout unit becomes visible.      *)
(***************************************************************************)
EXTENDS Naturals, FiniteSets

CONSTANTS
  Overlap,      \* an operator's command may run while the job of the timer does
  MaxRequests,  \* bound: changes that browsers and operators ask for
  MaxFaults     \* bound: deaths, reboots, and commands that fail

VARIABLES
  row,      \* lifecycle_state, enabled, desired_state, broadcast_status and its revision
  stream,   \* audio_status, audio_revision, pending_audio and the active settings
  listing,  \* internet_radio_status, _pending, _enabled
  files,    \* the playout configuration, its audio backups, the credential and the site, the mount
  unit,     \* the playout unit: running, enabled at boot, and the settings it plays
  pc,       \* the job of the timer, and the operator's command
  lock,     \* who holds station-provision.lock
  held,     \* what a holder remembers: revision, running, error, the previous file
  asked, faults

stored      == <<row, stream, listing>>
machine     == <<files, unit>>
jobs        == <<pc, lock, held>>
runtimeVars == <<stored, machine, jobs, asked, faults>>

None     == "none"
Proc     == {"timer", "cli"}
(* Settings are an encoder, which takes a restart, and a processor, which   *)
(* the engine changes while it plays.                                       *)
Settings == {<<1, 1>>, <<1, 2>>, <<2, 1>>}
Sounds   == {1, 2} \X {1, 2}
Busy     == {"pending", "applying"}
Gone     == {"pending_delete", "delete_failed", "deleted"}
Nothing  == [rev |-> 0, running |-> FALSE, failed |-> FALSE, settings |-> <<>>]

Init ==
  /\ row = [life |-> "pending_create", enabled |-> TRUE, desired |-> "stopped", status |-> "ready", rev |-> 1]
  /\ stream = [status |-> "ready", rev |-> 1, pending |-> <<>>, active |-> <<1, 1>>]
  /\ listing = [status |-> "ready", pending |-> FALSE, enabled |-> FALSE]
  /\ files = [config |-> <<>>, saved |-> {}, secret |-> FALSE, mount |-> None]
  /\ unit = [on |-> FALSE, boot |-> FALSE, sound |-> <<>>]
  /\ pc = [p \in Proc |-> "idle"] /\ lock = None /\ held = [p \in Proc |-> Nothing]
  /\ asked = 0 /\ faults = 0

Deleted == row.life = "deleted"
Asks  == asked < MaxRequests /\ asked' = asked + 1 /\ UNCHANGED <<machine, jobs, faults>>
Fault == faults < MaxFaults /\ faults' = faults + 1
Quiet == UNCHANGED <<asked, faults>>

----------------------------------------------------------------------------
(* WHAT BROWSERS ASK FOR *)

Ready == row.enabled /\ row.life = "ready"

RequestBroadcast(on) ==
  /\ ~Deleted /\ (on => Ready) /\ Asks
  /\ row' = [row EXCEPT !.desired = IF on THEN "running" ELSE "stopped", !.rev = @ + 1, !.status = "pending"]
  /\ UNCHANGED <<stream, listing>>
QueueSettings(values) ==
  /\ Ready /\ stream.status \notin Busy /\ (values # stream.active \/ stream.status # "ready") /\ Asks
  /\ stream' = [stream EXCEPT !.pending = values, !.status = "pending", !.rev = @ + 1]
  /\ UNCHANGED <<row, listing>>
QueueListing(on) ==
  /\ listing.status \notin Busy /\ (on => Ready)
  /\ (listing.enabled # on \/ listing.status # "ready") /\ Asks
  /\ listing' = [listing EXCEPT !.pending = on, !.status = "pending"]
  /\ UNCHANGED <<row, stream>>
Condemned == [row EXCEPT !.life = "pending_delete", !.enabled = FALSE, !.desired = "stopped"]
RequestDelete == ~Deleted /\ row.life # "pending_delete" /\ row' = Condemned /\ Asks /\ UNCHANGED <<stream, listing>>
Retried == [row EXCEPT !.life = IF @ = "delete_failed" THEN "pending_delete" ELSE "pending_create"]
Retry ==
  /\ row.life \in {"create_failed", "delete_failed"} /\ row' = Retried /\ Asks
  /\ UNCHANGED <<stream, listing>>

----------------------------------------------------------------------------
(* THE PLAYOUT UNIT *)

(* A unit without its configuration does not start; one that runs is left.  *)
Started   == IF files.config = <<>> THEN [unit EXCEPT !.boot = TRUE]
             ELSE [on |-> TRUE, boot |-> TRUE, sound |-> IF unit.on THEN unit.sound ELSE files.config]
RestartedAnyway == [unit EXCEPT !.on = TRUE, !.sound = files.config]   \* mutant of Restarted
Restarted == IF files.config = <<>> THEN [unit EXCEPT !.on = FALSE, !.sound = <<>>]
             ELSE [unit EXCEPT !.on = TRUE, !.sound = files.config]
Stopped   == [on |-> FALSE, boot |-> FALSE, sound |-> <<>>]
(* Restart=on-failure. *)
EngineDies == unit.on /\ Fault /\ unit' = Restarted /\ UNCHANGED <<stored, files, jobs, asked>>

Goes(p, from, to) == pc[p] = from /\ pc' = [pc EXCEPT ![p] = to]
Takes(p)    == lock = None /\ lock' = p
Releases(p) == lock' = None /\ held' = [held EXCEPT ![p] = Nothing]
Keeps       == UNCHANGED <<lock, held>>

(* A process dies: the lock goes with it, and so does what it remembered.   *)
Dies(p) ==
  /\ pc[p] # "idle" /\ Fault /\ pc' = [pc EXCEPT ![p] = "idle"]
  /\ lock' = (IF lock = p THEN None ELSE lock) /\ held' = [held EXCEPT ![p] = Nothing]
  /\ UNCHANGED <<stored, machine, asked>>
Reboot ==
  /\ Fault /\ pc' = [p \in Proc |-> "idle"] /\ lock' = None /\ held' = [p \in Proc |-> Nothing]
  /\ unit' = IF unit.boot /\ files.config # <<>> THEN [unit EXCEPT !.on = TRUE, !.sound = files.config]
             ELSE [unit EXCEPT !.on = FALSE, !.sound = <<>>]
  /\ UNCHANGED <<stored, files, asked>>

----------------------------------------------------------------------------
(* MASTER BROADCAST: process_broadcast *)

PendingWork ==
  \/ row.life \in {"pending_create", "pending_delete"} \/ (~Deleted /\ row.status \in Busy)
  \/ listing.status \in Busy \/ stream.status \in Busy
Wakes ==
  /\ Goes("timer", "idle", "broadcast") /\ PendingWork /\ (Overlap \/ pc["cli"] = "idle")
  /\ Keeps /\ UNCHANGED <<stored, machine>> /\ Quiet

Still(p) == Keeps /\ UNCHANGED <<stored, machine>> /\ Quiet
NoBroadcast == Goes("timer", "broadcast", "lifecycle") /\ (Deleted \/ row.status \notin Busy) /\ Still("timer")
BeginBroadcast ==
  /\ Goes("timer", "broadcast", "switch") /\ ~Deleted /\ row.status \in Busy /\ Takes("timer")
  /\ held' = [held EXCEPT !["timer"] = [Nothing EXCEPT !.rev = row.rev, !.running = row.desired = "running" /\ Ready]]
  /\ row' = [row EXCEPT !.status = "applying"] /\ UNCHANGED <<stream, listing, machine>> /\ Quiet
Fails(p) == held' = [held EXCEPT ![p].failed = TRUE]
SwitchUnit ==
  /\ Goes("timer", "switch", "await") /\ unit' = IF held["timer"].running THEN Started ELSE Stopped
  /\ Keeps /\ UNCHANGED <<stored, files>> /\ Quiet
SwitchFails ==
  /\ Goes("timer", "switch", "report") /\ Fault /\ Fails("timer")
  /\ unit' \in {unit, [unit EXCEPT !.boot = held["timer"].running]} /\ UNCHANGED <<lock, stored, files, asked>>
(* ON waits for audio, as long as ON is wanted.                             *)
Await ==
  /\ Goes("timer", "await", "report") /\ UNCHANGED <<lock, stored, machine>> /\ Quiet
  /\ IF IF held["timer"].running THEN row.desired # "running" \/ ~unit.on ELSE unit.on
     THEN Fails("timer") ELSE UNCHANGED held
(* Mutant: the outcome of an older request is taken for the newest one's.   *)
ReportAny ==
  /\ Goes("timer", "report", "lifecycle") /\ Releases("timer")
  /\ row' = [row EXCEPT !.status = IF held["timer"].failed THEN "failed" ELSE "ready"]
  /\ UNCHANGED <<stream, listing, machine>> /\ Quiet
Report ==
  /\ Goes("timer", "report", "lifecycle") /\ Releases("timer")
  /\ row' = IF row.rev # held["timer"].rev THEN row
            ELSE [row EXCEPT !.status = IF held["timer"].failed THEN "failed" ELSE "ready"]
  /\ UNCHANGED <<stream, listing, machine>> /\ Quiet

----------------------------------------------------------------------------
(* CREATION AND DELETION: process_station, for the timer and the commands *)

After(p) == IF p = "timer" THEN "audio" ELSE "idle"
NoLifecycle(p) ==
  /\ Goes(p, "lifecycle", After(p)) /\ Still(p)
  /\ IF p = "timer" THEN row.life \notin {"pending_create", "pending_delete"}
     ELSE row.life \notin {"pending_create", "create_failed", "pending_delete", "delete_failed"}
BeginLifecycle(p) ==
  /\ \/ p = "timer" /\ row.life \in {"pending_create", "pending_delete"}
     \/ p = "cli" /\ row.life \in {"pending_create", "create_failed", "pending_delete", "delete_failed"}
  /\ Goes(p, "lifecycle", IF row.life \in Gone THEN "stop" ELSE "render")
  /\ Takes(p) /\ UNCHANGED <<held, stored, machine>> /\ Quiet

Rendered(values) == [files EXCEPT !.config = values, !.secret = TRUE, !.mount = IF @ = None THEN "0" ELSE @]
Render(p) ==
  /\ Goes(p, "render", "provisioned") /\ row.enabled /\ files' = Rendered(stream.active)
  /\ Keeps /\ UNCHANGED <<stored, unit>> /\ Quiet
(* The credential is written first; the mount follows the configuration.    *)
RenderFails(p) ==
  /\ Goes(p, "render", "uncreated") /\ Keeps /\ UNCHANGED <<stored, unit, asked>>
  /\ IF row.enabled
     THEN /\ Fault
          /\ files' \in {files, [files EXCEPT !.secret = TRUE], Rendered(stream.active),
                         [files EXCEPT !.secret = TRUE, !.config = stream.active]}
     ELSE UNCHANGED <<files, faults>>
Provisioned(p) ==
  /\ Goes(p, "provisioned", After(p)) /\ Releases(p)
  /\ row' = IF row.life = "pending_delete" THEN row ELSE [row EXCEPT !.life = "ready"]
  /\ UNCHANGED <<stream, listing, machine>> /\ Quiet

StopUnit(p) ==
  /\ Goes(p, "stop", "unlink") /\ unit' = Stopped /\ Keeps /\ UNCHANGED <<stored, files>> /\ Quiet
StopFails(p) ==
  /\ Goes(p, "stop", "undeleted") /\ Fault /\ unit' \in {unit, [unit EXCEPT !.boot = FALSE]}
  /\ Keeps /\ UNCHANGED <<stored, files, asked>>
(* Mutant: the configuration and its backups are left where they are.       *)
UnlinkSome(p) ==
  /\ Goes(p, "unlink", "delete") /\ files' = [files EXCEPT !.secret = FALSE, !.mount = None]
  /\ Keeps /\ UNCHANGED <<stored, unit>> /\ Quiet
(* status, then the files, the mount and the reloads.                       *)
Unlinked == [config |-> <<>>, saved |-> {}, secret |-> FALSE, mount |-> None]
Unlink(p) ==
  /\ Goes(p, "unlink", "delete") /\ files' = Unlinked
  /\ Keeps /\ UNCHANGED <<stored, unit>> /\ Quiet
UnlinkFails(p) ==
  /\ Goes(p, "unlink", "undeleted") /\ Fault /\ files' \in {files, [Unlinked EXCEPT !.mount = files.mount], Unlinked}
  /\ Keeps /\ UNCHANGED <<stored, unit, asked>>
Delete(p) ==
  /\ Goes(p, "delete", After(p)) /\ Releases(p)
  /\ row' = [row EXCEPT !.life = "deleted", !.enabled = FALSE, !.desired = "stopped"]
  /\ UNCHANGED <<stream, listing, machine>> /\ Quiet
(* A deletion that was asked for while the station was created stays.       *)
CreateFails(p) ==
  /\ Goes(p, "uncreated", After(p)) /\ Releases(p)
  /\ row' = IF row.life = "pending_delete" THEN row ELSE [row EXCEPT !.life = "create_failed"]
  /\ UNCHANGED <<stream, listing, machine>> /\ Quiet
DeleteFails(p) ==
  /\ Goes(p, "undeleted", After(p)) /\ Releases(p) /\ row' = [row EXCEPT !.life = "delete_failed"]
  /\ UNCHANGED <<stream, listing, machine>> /\ Quiet

----------------------------------------------------------------------------
(* AUDIO SETTINGS: process_audio, apply_audio, restore_audio *)

NoAudio == Goes("timer", "audio", "directory") /\ stream.status \notin Busy /\ Still("timer")
AudioRefused ==
  /\ Goes("timer", "audio", "directory") /\ stream.status \in Busy /\ lock = None /\ ~Ready
  /\ stream' = [stream EXCEPT !.status = "failed"] /\ Keeps /\ UNCHANGED <<row, listing, machine>> /\ Quiet
BeginAudio ==
  /\ Goes("timer", "audio", "install") /\ stream.status \in Busy /\ Ready /\ Takes("timer")
  /\ stream' = [stream EXCEPT !.status = "applying"] /\ UNCHANGED <<held, row, listing, machine>> /\ Quiet
Backup == {b \in files.saved : b[1] = stream.rev}
(* A backup that an interrupted attempt left is not replaced.               *)
Install ==
  /\ pc["timer"] = "install" /\ Ready /\ files.config # <<>> /\ UNCHANGED <<lock, stored, unit>> /\ Quiet
  /\ files' = [files EXCEPT !.config = stream.pending,
                            !.saved = @ \cup (IF Backup = {} THEN {<<stream.rev, files.config>>} ELSE {})]
  /\ held' = [held EXCEPT !["timer"].running = row.desired = "running"]
  /\ pc' = [pc EXCEPT !["timer"] = IF row.desired = "running" THEN "tell" ELSE "commit"]
InstallFails ==
  /\ Goes("timer", "install", "restore") /\ Keeps /\ UNCHANGED <<stored, machine, asked>>
  /\ IF Ready /\ files.config # <<>> THEN Fault ELSE UNCHANGED faults
Live(values) == values[1] = stream.active[1]
(* A unit that runs takes another processor as it plays, and keeps the      *)
(* encoder that it started with.                                            *)
Told(values) == [unit EXCEPT !.sound = <<unit.sound[1], values[2]>>]
(* Mutant: another encoder is taken for a matter of the processor too.      *)
TellProcessor ==
  /\ pc["timer"] = "tell" /\ UNCHANGED <<stored, files>> /\ Keeps /\ Quiet
  /\ IF unit.on THEN unit' = Told(stream.pending) /\ Goes("timer", "tell", "commit")
     ELSE UNCHANGED unit /\ Goes("timer", "tell", "restore")
(* The processor is told; another encoder takes a restart of the unit.      *)
Tell ==
  /\ pc["timer"] = "tell" /\ UNCHANGED <<stored, files>> /\ Keeps /\ Quiet
  /\ IF ~Live(stream.pending) THEN unit' = Restarted /\ Goes("timer", "tell", "hear")
     ELSE IF unit.on THEN unit' = Told(stream.pending) /\ Goes("timer", "tell", "commit")
     ELSE UNCHANGED unit /\ Goes("timer", "tell", "restore")
TellFails ==
  /\ Goes("timer", "tell", "restore") /\ Fault
  /\ unit' \in {unit} \cup (IF Live(stream.pending) THEN {} ELSE {[unit EXCEPT !.on = FALSE, !.sound = <<>>]})
  /\ Keeps /\ UNCHANGED <<stored, files, asked>>
Hear ==
  /\ pc["timer"] = "hear" /\ Still("timer")
  /\ Goes("timer", "hear", IF row.desired = "running" /\ unit.on THEN "commit" ELSE "restore")
Commit ==
  /\ Goes("timer", "commit", "finish")
  /\ stream' = [stream EXCEPT !.active = stream.pending, !.pending = <<>>, !.status = "ready"]
  /\ Keeps /\ UNCHANGED <<row, listing, machine>> /\ Quiet
CommitFails == Goes("timer", "commit", "restore") /\ Fault /\ Keeps /\ UNCHANGED <<stored, machine, asked>>
Finish ==
  /\ Goes("timer", "finish", "directory") /\ Releases("timer") /\ files' = [files EXCEPT !.saved = @ \ Backup]
  /\ UNCHANGED <<stored, unit>> /\ Quiet
(* The file that was saved, and an engine that plays it, before it is       *)
(* forgotten.                                                               *)
Saved == (CHOOSE b \in Backup : TRUE)[2]
Restored == [files EXCEPT !.config = Saved, !.saved = @ \ Backup]
(* Mutant: a failed change forgets the backup before it is played again.    *)
RestoreForgets ==
  /\ Goes("timer", "restore", "unapplied") /\ Keeps /\ UNCHANGED <<stored, unit>> /\ Quiet
  /\ files' = [files EXCEPT !.saved = @ \ Backup]
Restore ==
  /\ Goes("timer", "restore", "unapplied") /\ Keeps /\ UNCHANGED stored /\ Quiet
  /\ IF Backup = {} THEN UNCHANGED machine
     ELSE LET live == Live(Saved) /\ Live(files.config)
          IN IF row.desired # "running" THEN files' = Restored /\ UNCHANGED unit
             ELSE IF live /\ ~unit.on
             THEN files' = [files EXCEPT !.config = Saved] /\ UNCHANGED unit
             ELSE /\ files' = Restored
                  /\ unit' = IF live THEN Told(stream.active) ELSE [unit EXCEPT !.on = TRUE, !.sound = Saved]
RestoreFails ==
  /\ Goes("timer", "restore", "unapplied") /\ Backup # {} /\ Fault
  /\ files' \in {files, [files EXCEPT !.config = Saved]}
  /\ Keeps /\ UNCHANGED <<stored, unit, asked>>
AudioFails ==
  /\ Goes("timer", "unapplied", "directory") /\ Releases("timer")
  /\ stream' = [stream EXCEPT !.status = "failed"] /\ UNCHANGED <<row, listing, machine>> /\ Quiet

----------------------------------------------------------------------------
(* THE PUBLIC DIRECTORY: process_pending_directories *)

NoListing == Goes("timer", "directory", "idle") /\ listing.status \notin Busy /\ Still("timer")
BeginListing ==
  /\ Goes("timer", "directory", "list") /\ listing.status \in Busy /\ Takes("timer")
  /\ listing' = [listing EXCEPT !.status = "applying"] /\ UNCHANGED <<held, row, stream, machine>> /\ Quiet
Public(on) == IF on THEN "1" ELSE "0"
ApplyListing ==
  /\ Goes("timer", "list", "listed") /\ files.mount # None
  /\ files' = [files EXCEPT !.mount = Public(listing.pending)]
  /\ Keeps /\ UNCHANGED <<stored, unit>> /\ Quiet
ListingFails ==
  /\ Goes("timer", "list", "unlisted") /\ UNCHANGED <<stored, unit, asked>> /\ Keeps
  /\ IF files.mount = None THEN UNCHANGED <<files, faults>>
     ELSE Fault /\ files' \in {files, [files EXCEPT !.mount = Public(listing.pending)]}
Listed ==
  /\ Goes("timer", "listed", "idle") /\ Releases("timer")
  /\ listing' = [listing EXCEPT !.enabled = listing.pending, !.status = "ready"]
  /\ UNCHANGED <<row, stream, machine>> /\ Quiet
Unlisted ==
  /\ Goes("timer", "unlisted", "idle") /\ Releases("timer")
  /\ listing' = [listing EXCEPT !.status = "failed"] /\ UNCHANGED <<row, stream, machine>> /\ Quiet

----------------------------------------------------------------------------
(* THE OPERATOR'S COMMANDS: none but process_station and render locks *)

Command(to) ==
  /\ Goes("cli", "idle", to) /\ asked < MaxRequests /\ asked' = asked + 1
  /\ (Overlap \/ pc["timer"] = "idle") /\ UNCHANGED <<listing, files, lock, faults>>
CliStart ==
  /\ Command("c_render") /\ Ready /\ UNCHANGED <<row, stream, unit>>
  /\ held' = [held EXCEPT !["cli"].settings = stream.active]
(* render() waits for the lock and does not look at the row again.          *)
CliRender ==
  /\ Goes("cli", "c_render", "c_start") /\ lock = None /\ files' = Rendered(held["cli"].settings)
  /\ Keeps /\ UNCHANGED <<stored, unit>> /\ Quiet
CliStarts == Goes("cli", "c_start", "c_wait") /\ unit' = Started /\ Keeps /\ UNCHANGED <<stored, files>> /\ Quiet
CliWaits ==
  /\ Goes("cli", "c_wait", "idle") /\ unit.on /\ row' = [row EXCEPT !.desired = "running"]
  /\ held' = [held EXCEPT !["cli"] = Nothing] /\ UNCHANGED <<lock, stream, listing, machine>> /\ Quiet
CliGivesUp ==
  /\ Goes("cli", "c_wait", "idle") /\ unit' = Stopped /\ held' = [held EXCEPT !["cli"] = Nothing]
  /\ UNCHANGED <<lock, stored, files, asked>> /\ IF unit.on THEN Fault ELSE UNCHANGED faults
CliRestart ==
  /\ Command("idle") /\ ~Deleted /\ row.desired = "running" /\ unit' = Restarted /\ UNCHANGED <<row, stream, held>>
CliStop(disable) == Command(IF disable THEN "c_disable" ELSE "c_stop") /\ ~Deleted /\ UNCHANGED <<row, stream, held, unit>>
CliStops(disable) ==
  /\ Goes("cli", IF disable THEN "c_disable" ELSE "c_stop", IF disable THEN "c_disabled" ELSE "c_stopped")
  /\ unit' = Stopped /\ Keeps /\ UNCHANGED <<stored, files>> /\ Quiet
CliStopped ==
  /\ Goes("cli", "c_stopped", "idle") /\ row' = [row EXCEPT !.desired = "stopped"]
  /\ Keeps /\ UNCHANGED <<stream, listing, machine>> /\ Quiet
CliDisabled ==
  /\ Goes("cli", "c_disabled", "idle") /\ Keeps /\ UNCHANGED <<stream, listing, machine>> /\ Quiet
  /\ row' = IF row.life \in Gone THEN row ELSE [row EXCEPT !.enabled = FALSE, !.desired = "stopped"]
CliEnable ==
  /\ Command("idle") /\ row.life = "ready" /\ ~row.enabled
  /\ row' = [row EXCEPT !.enabled = TRUE] /\ UNCHANGED <<stream, held, unit>>
CliProcess(changed) == Command("lifecycle") /\ row' = changed /\ UNCHANGED <<stream, held, unit>>
CliDelete == ~Deleted /\ CliProcess(Condemned)
CliRetry  == row.life \in {"create_failed", "delete_failed"} /\ CliProcess(Retried)
CliCreate == row.life \in {"pending_create", "create_failed"} /\ CliProcess(row)

Lifecycle(p) ==
  \/ NoLifecycle(p) \/ BeginLifecycle(p) \/ Render(p) \/ RenderFails(p) \/ Provisioned(p) \/ StopUnit(p) \/ StopFails(p)
  \/ Unlink(p) \/ UnlinkFails(p) \/ Delete(p) \/ CreateFails(p) \/ DeleteFails(p)
Timer ==
  \/ Wakes \/ NoBroadcast \/ BeginBroadcast \/ SwitchUnit \/ SwitchFails \/ Await \/ Report
  \/ Lifecycle("timer")
  \/ NoAudio \/ AudioRefused \/ BeginAudio \/ Install \/ InstallFails \/ Tell \/ TellFails \/ Hear \/ Commit
  \/ CommitFails \/ Finish \/ Restore \/ RestoreFails \/ AudioFails
  \/ NoListing \/ BeginListing \/ ApplyListing \/ ListingFails \/ Listed \/ Unlisted
Operator ==
  \/ CliStart \/ CliRender \/ CliStarts \/ CliWaits \/ CliGivesUp \/ CliRestart
  \/ (\E disable \in BOOLEAN : CliStop(disable) \/ CliStops(disable)) \/ CliStopped \/ CliDisabled \/ CliEnable
  \/ CliDelete \/ CliRetry \/ CliCreate \/ Lifecycle("cli")
Browser ==
  \/ \E on \in BOOLEAN : RequestBroadcast(on) \/ QueueListing(on)
  \/ \E values \in Settings : QueueSettings(values)
  \/ RequestDelete \/ Retry
Next == Browser \/ Timer \/ Operator \/ EngineDies \/ Reboot \/ \E p \in Proc : Dies(p)
Spec == Init /\ [][Next]_runtimeVars

----------------------------------------------------------------------------
(* PROPERTIES *)

TypeOK ==
  /\ row.life \in Gone \cup {"pending_create", "create_failed", "ready"}
  /\ row.status \in Busy \cup {"ready", "failed"} /\ row.desired \in {"running", "stopped"}
  /\ stream.status \in Busy \cup {"ready", "failed"} /\ stream.active \in Settings
  /\ listing.status \in Busy \cup {"ready", "failed"}
  /\ files.config \in Settings \cup {<<>>} /\ files.mount \in {None, "0", "1"}
  /\ lock \in Proc \cup {None} /\ (unit.on => unit.sound \in Sounds)

(* What is deleted does not play, and leaves nothing that could.            *)
DeletedLeavesNothing ==
  Deleted => ~unit.on /\ files.config = <<>> /\ ~files.secret /\ files.mount = None

(* ON or OFF is reported done only for the newest request, and when the     *)
(* unit does what it asks for.                                              *)
ReportIsTrue ==
  [][row.status \in Busy /\ row'.status = "ready" /\ row'.life = "ready"
     => unit.on = (row'.desired = "running")]_runtimeVars

(* A change that is over, unless a backup was left behind, plays from the   *)
(* next start on what the settings of the station say.                      *)
ConfiguredAsRecorded ==
  lock = None /\ row.life = "ready" /\ stream.status \in {"ready", "failed"} /\ files.saved = {}
    => files.config = stream.active

(* Settings become those of record, while ON was wanted when they were      *)
(* installed, only once the unit that runs plays them: all of them after    *)
(* another encoder, and the processor that they name otherwise.             *)
RecordedWhenHeard ==
  pc["timer"] = "commit" /\ held["timer"].running /\ unit.on
    => unit.sound[2] = stream.pending[2] /\ (~Live(stream.pending) => unit.sound = stream.pending)

(* What does not hold, and no run checks: with OFF asked for while the unit *)
(* still runs, Install tells it nothing, and ON again before it was stopped *)
(* leaves it as it was.                                                     *)
PlaysAsRecorded ==
  lock = None /\ row.life = "ready" /\ stream.status = "ready" /\ files.saved = {}
  /\ row.desired = "running" /\ row.status = "ready" /\ unit.on => unit.sound = stream.active
=============================================================================

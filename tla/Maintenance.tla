----------------------------- MODULE Maintenance -----------------------------
(***************************************************************************)
(* Upgrade, backup and restore of one installation.  One administrative     *)
(* process runs at a time (administrative_lock) and journals what it does;  *)
(* it or the machine may die between any two of its steps.  A marker file,  *)
(* on which the guards of the units depend, keeps them from starting.       *)
(***************************************************************************)
EXTENDS Naturals

CONSTANTS
  Overlap,      \* bound: the web's upgrade may find an unfinished operation
  MaxCommands,  \* bound: commands of the server's administrator
  MaxFaults     \* bound: deaths of the process and reboots

VARIABLES
  journal,      \* /var/lib/freo-updates/journal.json
  op,           \* /var/lib/freo-admin/operation.json
  row,          \* the system_upgrades row of the plan
  marker,       \* the maintenance file
  guarded,      \* the units carry ConditionPathExists=!maintenance
  running,      \* units that run
  code, schema, files,  \* what "current" names, the database's revision, the attached roots
  catalog,      \* approved backups
  bundle,       \* the backup of the upgrade that is not registered yet
  taken,        \* the plan's backup path exists
  pc, caller, reconcile,   \* the administrative process
  quiet,        \* history: nothing ran since the last backup
  migrations,   \* history: migrations begun for the plan's row
  commands, faults

installed == <<code, schema, files>>
backups   == <<catalog, bundle, taken>>
process   == <<caller, reconcile>>
units     == <<running, quiet>>
bounds    == <<commands, faults>>
maintVars == <<journal, op, row, marker, guarded, units, installed, backups, pc, process, migrations, bounds>>

Unit      == {"web", "job"}     \* the job is what a timer starts
Versions  == {"old", "new"}
Rows      == {"prepared", "queued", "running", "complete", "failed"}
(* A backup made between two versions holds a schema that is not its code's.*)
Backups   == [version: Versions \cup {"mixed"}, row: Rows]
NoBackup  == [version |-> "none", row |-> "none"]
NoOp      == [kind |-> "none", phase |-> "none", active |-> {}, known |-> FALSE, restored |-> FALSE,
              point |-> FALSE, attached |-> FALSE, swapped |-> FALSE,
              target |-> NoBackup, over |-> FALSE]
Journals  == [phase: {"none", "preflight", "preflight_failed", "preflight_passed", "stopping", "backup",
                      "migration", "activation", "starting", "complete", "restarting_previous",
                      "recovery_required", "failed_before_migration"},
              active: SUBSET Unit, from: Versions]
Ops       == [kind: {"none", "upgrade.apply", "backup.create", "backup.restore"},
              phase: {"none", "preparing", "upgrading", "stopping", "frozen", "backup", "verified_restore",
                      "attaching", "attached", "starting", "complete", "failed_before_changes"},
              active: SUBSET Unit, known: BOOLEAN, restored: BOOLEAN, point: BOOLEAN,
              attached: BOOLEAN, swapped: BOOLEAN, target: Backups \cup {NoBackup}, over: BOOLEAN]

Init ==
  /\ journal = [phase |-> "none", active |-> {}, from |-> "old"] /\ op = NoOp /\ row = "prepared"
  /\ marker = FALSE /\ guarded = FALSE /\ running = Unit
  /\ code = "old" /\ schema = "old" /\ files = "whole"
  /\ catalog = {[version |-> "old", row |-> "prepared"]} /\ bundle = NoBackup /\ taken = FALSE
  /\ pc = "idle" /\ caller = "none" /\ reconcile = FALSE
  /\ quiet = FALSE /\ migrations = 0 /\ commands = 0 /\ faults = 0

(* Phases that do not stand in the way of another upgrade. *)
Settled    == {"none", "complete", "preflight_failed", "preflight_passed", "failed_before_migration"}
Unfinished == op.phase \notin {"none", "complete", "failed_before_changes"}
Blocked    == guarded /\ marker     \* no unit starts
Here       == [version |-> IF code = schema THEN code ELSE "mixed", row |-> row]

At(p, q)   == pc = p /\ pc' = q
Runs(us)   == running' = us /\ quiet' = (quiet /\ us = {})
Phase(p)   == journal' = [journal EXCEPT !.phase = p]
OpIs(new)  == op' = new
Keep       == UNCHANGED <<row, process, migrations, bounds>>

----------------------------------------------------------------------------
(* UNITS AND FAULTS *)

Alone == UNCHANGED <<journal, op, row, marker, guarded, installed, backups, pc, process, migrations, bounds>>
TimerStarts == "job" \notin running /\ ~Blocked /\ Runs(running \cup {"job"}) /\ Alone
JobEnds     == "job" \in running /\ Runs(running \ {"job"}) /\ Alone

Dies == /\ faults < MaxFaults /\ faults' = faults + 1 /\ pc' = "idle" /\ caller' = "none" /\ reconcile' = FALSE
        /\ UNCHANGED <<journal, op, row, marker, guarded, installed, backups, migrations, commands>>
Crash  == pc # "idle" /\ Dies /\ UNCHANGED units
Reboot == Dies /\ Runs(IF Blocked THEN {} ELSE Unit)

----------------------------------------------------------------------------
(* WHO STARTS IT *)

Command == pc = "idle" /\ commands < MaxCommands /\ commands' = commands + 1

(* distribution.request_upgrade: the page queues the prepared plan. *)
Queue ==
  /\ "web" \in running /\ row = "prepared" /\ row' = "queued"
  /\ UNCHANGED <<journal, op, marker, guarded, units, installed, backups, pc, process, migrations, bounds>>
(* freo-updater.timer: run_once claims the request for good. *)
RunOnce ==
  /\ (Unfinished => Overlap)
  /\ At("idle", "gate") /\ ~Blocked /\ row = "queued" /\ row' = "running"
  /\ caller' = "web" /\ reconcile' = FALSE
  /\ UNCHANGED <<journal, op, marker, guarded, units, installed, backups, migrations, bounds>>

(* Nothing in run_once looks at the operation: it begins beside one that is *)
(* unfinished.                                                              *)
BeginsBeside == RunOnce /\ Unfinished

(* begin: no unfinished operation, upgrade or maintenance. *)
MayBegin == ~Unfinished /\ journal.phase \in Settled /\ ~marker
BeginAs(kind, next) ==
  /\ Command /\ MayBegin /\ pc' = next /\ OpIs([NoOp EXCEPT !.kind = kind, !.phase = "preparing"])
  /\ caller' = "admin" /\ reconcile' = FALSE
  /\ UNCHANGED <<journal, row, marker, guarded, units, installed, backups, migrations, faults>>
UpgradeApply == BeginAs("upgrade.apply", "staged")
BackupCreate == BeginAs("backup.create", "freeze")
Staged ==
  /\ At("staged", "gate") /\ guarded' = TRUE /\ OpIs([op EXCEPT !.phase = "upgrading"]) /\ bundle' = NoBackup
  /\ UNCHANGED <<journal, marker, units, installed, catalog, taken>> /\ Keep

(* restore_start: it may supersede an unfinished upgrade or backup, but not *)
(* another restore.                                                         *)
RestoreStart(b) ==
  /\ Command /\ b \in catalog
  /\ caller' = "admin" /\ reconcile' = (Unfinished /\ op.kind = "backup.restore")
  /\ IF Unfinished /\ op.kind = "backup.restore"
     THEN op.target = b /\ pc' = "isolate" /\ UNCHANGED op
     ELSE /\ pc' = "isolate"
          /\ OpIs([NoOp EXCEPT !.kind = "backup.restore", !.phase = "preparing", !.target = b,
                     !.over = journal.phase \notin Settled, !.known = journal.phase \notin Settled,
                     !.active = IF journal.phase \in Settled THEN {} ELSE journal.active])
  /\ UNCHANGED <<journal, row, marker, guarded, units, installed, backups, migrations, faults>>

----------------------------------------------------------------------------
(* THE UPGRADE.  Until the marker is set a failure changes nothing; until   *)
(* the migration begins it returns the old services; after that it stops    *)
(* everything and waits for a person.                                       *)

Same == UNCHANGED <<op, guarded, installed, backups>> /\ Keep

Gate ==
  /\ pc = "gate" /\ UNCHANGED <<marker, units>> /\ Same
  /\ IF journal.phase \in Settled
     THEN pc' = "preflight" /\ journal' = [phase |-> "preflight", active |-> {}, from |-> code]
     ELSE pc' = "refused" /\ UNCHANGED journal
Installed == /\ At("preflight", "done") /\ code = "new" /\ schema = "new" /\ Phase("complete")
             /\ UNCHANGED <<marker, units>> /\ Same
PreflightFails == /\ pc \in {"preflight", "capture", "guard", "mark"} /\ pc' = "refused" /\ Phase("preflight_failed") /\ UNCHANGED <<marker, units>> /\ Same
Preflight ==
  /\ At("preflight", "capture") /\ code = "old" /\ schema = "old" /\ (caller = "web" => ~taken)
  /\ UNCHANGED <<journal, marker, units>> /\ Same
Capture == /\ At("capture", "guard") /\ journal' = [journal EXCEPT !.phase = "stopping", !.active = running]
           /\ UNCHANGED <<marker, units>> /\ Same
Guard ==
  /\ At("guard", "mark") /\ guarded' = TRUE
  /\ UNCHANGED <<journal, op, marker, units, installed, backups>> /\ Keep
Mark == At("mark", "recapture") /\ marker' = TRUE /\ UNCHANGED <<journal, units>> /\ Same
(* A timer may have started a service while the guards were installed.      *)
Recapture == /\ At("recapture", "stop") /\ journal' = [journal EXCEPT !.active = @ \cup running]
             /\ UNCHANGED <<marker, units>> /\ Same
Stopped(us) == IF us = {} THEN "save" ELSE "undo"
StopUnits ==
  /\ pc = "stop" /\ \E left \in SUBSET (running \cap journal.active) :
       /\ Runs((running \ journal.active) \cup left) /\ pc' = Stopped(running')
       /\ IF running' = {} THEN Phase("backup") ELSE UNCHANGED journal
  /\ UNCHANGED marker /\ Same
(* recovery.create publishes the bundle in one step, or not at all.         *)
SaveBundle ==
  /\ At("save", "prove") /\ running = {} /\ quiet' = TRUE
  /\ IF caller = "web" THEN taken' = TRUE /\ UNCHANGED bundle ELSE bundle' = Here /\ UNCHANGED taken
  /\ UNCHANGED <<journal, op, marker, guarded, running, installed, catalog>> /\ Keep
(* The bundle is restored beside the live database and compared. *)
Prove == /\ At("prove", "migrate") /\ Phase("migration") /\ UNCHANGED <<marker, units>> /\ Same
FailsEarly == /\ pc \in {"recapture", "stop", "save", "prove"} /\ pc' = "undo" /\ UNCHANGED <<journal, marker, units>> /\ Same

Migrate(s, q) ==
  /\ schema' = s /\ pc' = q
  /\ UNCHANGED <<journal, op, row, marker, guarded, units, code, files, backups, process, bounds>>
MigrationBegins == /\ pc = "migrate" /\ Migrate("partial", "migrating")
                   /\ migrations' = IF caller = "web" THEN migrations + 1 ELSE migrations
MigrationEnds   == pc = "migrating" /\ Migrate("new", "activate") /\ UNCHANGED migrations
(* Mutant: a failed migration is taken for one that never began.            *)
LateAsEarly == /\ pc \in {"migrate", "migrating", "activate", "switch", "starting", "unmark", "start"} /\ pc' = "undo"
               /\ UNCHANGED <<journal, marker, units>> /\ Same
(* Mutant: after a failure in the middle the migration is begun again.      *)
LateRetried == /\ pc \in {"migrate", "migrating", "activate", "switch", "starting", "unmark", "start"}
               /\ pc' = (IF pc = "migrating" THEN "migrate" ELSE "hold")
               /\ UNCHANGED <<journal, marker, units>> /\ Same
FailsLate == /\ pc \in {"migrate", "migrating", "activate", "switch", "starting", "unmark", "start"} /\ pc' = "hold"
             /\ UNCHANGED <<journal, marker, units>> /\ Same
Activate  == At("activate", "switch") /\ Phase("activation") /\ UNCHANGED <<marker, units>> /\ Same
SwitchPointer ==
  /\ At("switch", "starting") /\ code' = "new"
  /\ UNCHANGED <<journal, op, marker, guarded, units, schema, files, backups>> /\ Keep
Starting  == At("starting", "unmark") /\ Phase("starting") /\ UNCHANGED <<marker, units>> /\ Same
Unmark    == At("unmark", "start") /\ marker' = FALSE /\ UNCHANGED <<journal, units>> /\ Same
StartUnits == /\ pc = "start" /\ \E up \in SUBSET journal.active :
                   /\ Runs(running \cup up)
                   /\ IF up = journal.active THEN pc' = "done" /\ Phase("complete")
                                             ELSE pc' = "hold" /\ UNCHANGED journal
              /\ UNCHANGED marker /\ Same

(* The except branch after the marker was set, before the migration. *)
Undo == /\ At("undo", "undo_unmark") /\ Phase("restarting_previous") /\ UNCHANGED <<marker, units>> /\ Same
UndoUnmark == /\ At("undo_unmark", "undo_start") /\ marker' = FALSE /\ UNCHANGED <<journal, units>> /\ Same
UndoStart ==
  /\ pc = "undo_start" /\ \E up \in SUBSET journal.active :
       /\ Runs(running \cup up) /\ pc' = "refused"
       /\ IF up = journal.active THEN Phase("failed_before_migration") /\ UNCHANGED marker
                                 ELSE marker' = TRUE /\ UNCHANGED journal
  /\ Same
(* The except branch once the migration may have begun. *)
Hold == At("hold", "hold_mark") /\ Phase("recovery_required") /\ UNCHANGED <<marker, units>> /\ Same
HoldMark == At("hold_mark", "hold_stop") /\ marker' = TRUE /\ UNCHANGED <<journal, units>> /\ Same
HoldStop == /\ At("hold_stop", "refused") /\ Runs(running \ journal.active)
            /\ UNCHANGED <<journal, marker>> /\ Same

(* What the caller makes of it. *)
Registered == catalog' = catalog \cup ({bundle} \ {NoBackup}) /\ bundle' = NoBackup /\ UNCHANGED taken
Leave == pc' = "idle" /\ caller' = "none" /\ reconcile' = FALSE
         /\ UNCHANGED <<marker, guarded, units, installed, migrations, bounds>>
FinishWeb ==
  /\ pc \in {"done", "refused"} /\ caller = "web" /\ Leave
  /\ row' = IF pc = "done" THEN "complete" ELSE "failed"
  /\ UNCHANGED <<journal, op, backups>>
FinishAdmin(healthy) ==
  /\ pc \in {"done", "refused"} /\ caller = "admin" /\ Leave /\ Registered
  /\ OpIs(IF pc = "done" /\ healthy THEN [op EXCEPT !.phase = "complete"] ELSE op)
  /\ UNCHANGED <<journal, row>>

----------------------------------------------------------------------------
(* FREEZE, BACKUP, THAW *)

Calm == UNCHANGED <<journal, installed, backups>> /\ Keep
(* A step of an operation fails: what was recorded stays for a recovery.    *)
Fails ==
  /\ pc \in {"freeze", "freeze_guard", "freeze_mark", "freeze_stop", "point", "attach", "swap", "adopt", "thaw_health"}
  /\ Leave /\ UNCHANGED <<journal, row, backups>>
  /\ OpIs(IF op.kind = "backup.create" /\ op.phase = "preparing" THEN [op EXCEPT !.phase = "failed_before_changes"] ELSE op)
Freeze ==
  /\ At("freeze", "freeze_guard")
  /\ OpIs(IF op.known THEN op ELSE [op EXCEPT !.active = running, !.known = TRUE, !.phase = "stopping"])
  /\ UNCHANGED <<marker, guarded, units>> /\ Calm
FreezeGuard == At("freeze_guard", "freeze_mark") /\ guarded' = TRUE /\ UNCHANGED <<op, marker, units>> /\ Calm
FreezeMark  == At("freeze_mark", "freeze_stop") /\ marker' = TRUE /\ UNCHANGED <<op, guarded, units>> /\ Calm
FreezeStop ==
  /\ At("freeze_stop", IF op.point THEN "attach" ELSE "point") /\ Runs({})
  /\ OpIs([op EXCEPT !.phase = "frozen"]) /\ UNCHANGED <<marker, guarded>> /\ Calm
(* create_frozen: the backup, or the recovery point of a restore. *)
Point ==
  /\ At("point", IF op.kind = "backup.create" THEN "thaw" ELSE "attach") /\ running = {}
  /\ catalog' = catalog \cup {Here} /\ quiet' = TRUE
  /\ OpIs([op EXCEPT !.phase = "backup", !.point = TRUE])
  /\ UNCHANGED <<journal, marker, guarded, running, installed, bundle, taken>> /\ Keep

Thaw == At("thaw", "thaw_start") /\ marker' = FALSE /\ UNCHANGED <<op, guarded, units>> /\ Calm
ThawStart ==
  /\ At("thaw_start", "thaw_health") /\ Runs(running \cup op.active \cup (IF reconcile THEN Unit ELSE {}))
  /\ OpIs([op EXCEPT !.phase = "starting"]) /\ UNCHANGED <<marker, guarded>> /\ Calm
ThawHealthy ==
  /\ At("thaw_health", IF op.kind = "upgrade.apply" THEN "forget" ELSE "idle")
  /\ OpIs([op EXCEPT !.phase = "complete"]) /\ UNCHANGED <<marker, guarded, units>> /\ Calm
(* The aborted upgrade's journal goes to the history. *)
Forget ==
  /\ pc = "forget" /\ Leave /\ Phase("none") /\ UNCHANGED <<op, row, backups>>

----------------------------------------------------------------------------
(* RESTORE *)

(* validate_restored_code refuses a backup whose schema is not its code's.  *)
Isolate(ok) ==
  /\ pc = "isolate" /\ UNCHANGED <<journal, marker, guarded, units, installed, backups>> /\ Keep
  /\ IF (ok /\ op.target.version # "mixed") \/ op.restored
     THEN /\ pc' = "freeze"
          /\ OpIs(IF op.restored THEN op ELSE [op EXCEPT !.restored = TRUE, !.phase = "verified_restore"])
     ELSE pc' = "idle" /\ OpIs([op EXCEPT !.phase = "failed_before_changes"])
(* The roots are attached one by one, then the databases change names, then *)
(* the pointer follows.  What was done before a crash is not done again.    *)
Attach ==
  /\ At("attach", "swap") /\ files' = IF op.attached THEN files ELSE "mixed"
  /\ OpIs([op EXCEPT !.phase = "attaching"])
  /\ UNCHANGED <<journal, marker, guarded, units, code, schema, backups>> /\ Keep
Swap ==
  /\ At("swap", "adopt") /\ OpIs([op EXCEPT !.attached = TRUE, !.swapped = TRUE])
  /\ IF op.swapped THEN UNCHANGED <<schema, row>> ELSE schema' = op.target.version /\ row' = op.target.row
  /\ UNCHANGED <<journal, marker, guarded, units, code, files, backups, process, migrations, bounds>>
Adopt ==
  /\ At("adopt", "settle") /\ code' = op.target.version /\ files' = "whole"
  /\ UNCHANGED <<journal, op, marker, guarded, units, schema, backups>> /\ Keep
Settle ==
  /\ At("settle", "thaw") /\ IF op.over THEN Phase("none") ELSE UNCHANGED journal
  /\ \E us \in SUBSET Unit : "web" \in us /\ OpIs([op EXCEPT !.phase = "attached", !.active = us])
  /\ UNCHANGED <<marker, guarded, units, installed, backups>> /\ Keep

(* freo-admin services recover *)
Recover(next, new) ==
  /\ Command /\ Unfinished /\ pc' = next /\ OpIs(new) /\ caller' = "admin" /\ reconcile' = TRUE
  /\ UNCHANGED <<journal, row, marker, guarded, units, installed, migrations, faults>>
ResumeRestore == op.kind = "backup.restore" /\ Recover("isolate", op) /\ UNCHANGED backups
ResumeBackup  == op.kind = "backup.create" /\ Recover("thaw", op) /\ UNCHANGED backups
AbortUpgrade ==
  /\ op.kind = "upgrade.apply" /\ Registered
  /\ journal.phase \in {"preflight", "preflight_failed", "preflight_passed", "stopping", "backup", "failed_before_migration"}
  /\ code = journal.from /\ schema = journal.from
  /\ Recover("thaw", [op EXCEPT !.active = journal.active])
ConfirmUpgrade ==
  /\ op.kind = "upgrade.apply" /\ Registered
  /\ journal.phase = "complete" \/ (journal.phase = "none" /\ ~marker)
  /\ Recover("idle", [op EXCEPT !.phase = "complete"])

Upgrade == \/ Gate \/ Installed \/ PreflightFails \/ Preflight \/ Capture \/ Guard \/ Mark \/ Recapture
           \/ StopUnits \/ SaveBundle \/ Prove \/ FailsEarly \/ MigrationBegins \/ MigrationEnds \/ FailsLate
           \/ Activate \/ SwitchPointer \/ Starting \/ Unmark \/ StartUnits \/ Undo \/ UndoUnmark \/ UndoStart
           \/ Hold \/ HoldMark \/ HoldStop \/ FinishWeb \/ \E healthy \in BOOLEAN : FinishAdmin(healthy)
Operation == \/ Staged \/ Fails \/ Freeze \/ FreezeGuard \/ FreezeMark \/ FreezeStop \/ Point \/ Thaw \/ ThawStart
             \/ ThawHealthy \/ Forget \/ Attach \/ Swap \/ Adopt \/ Settle \/ \E ok \in BOOLEAN : Isolate(ok)
Commands == \/ Queue \/ RunOnce \/ UpgradeApply \/ BackupCreate \/ ResumeRestore \/ ResumeBackup
            \/ AbortUpgrade \/ ConfirmUpgrade \/ \E b \in Backups : RestoreStart(b)
Next == Upgrade \/ Operation \/ Commands \/ TimerStarts \/ JobEnds \/ Crash \/ Reboot

Spec == Init /\ [][Next]_maintVars

----------------------------------------------------------------------------
(* PROPERTIES *)

(* The type invariant. *)
TypeOK ==
  /\ journal \in Journals /\ op \in Ops /\ row \in Rows /\ marker \in BOOLEAN /\ guarded \in BOOLEAN
  /\ running \subseteq Unit /\ code \in Versions /\ schema \in Versions \cup {"partial"}
  /\ files \in {"whole", "mixed"} /\ catalog \subseteq Backups /\ bundle \in Backups \cup {NoBackup}
  /\ taken \in BOOLEAN /\ reconcile \in BOOLEAN /\ quiet \in BOOLEAN /\ migrations \in Nat

(* An interrupted or restored request of the web never migrates again.      *)
MigratesOnce == migrations <= 1

(* The installation is replaced only while nothing runs on it and a backup  *)
(* holds exactly its data, and nothing runs on what does not match.         *)
Promise == INSTANCE Installation WITH
  Version <- Versions, serving <- running, kept <- quiet,
  version <- IF code = schema /\ files = "whole" THEN code ELSE "between"
ImplementsInstallation == Promise!Spec

(* A reboot in the middle of a migration starts nothing until a person has  *)
(* repaired it: whatever runs finds code, schema and files of one version.  *)
NothingRunsUnmatched == running # {} => code = schema /\ files = "whole"
==============================================================================

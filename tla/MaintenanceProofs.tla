------------------------- MODULE MaintenanceProofs -------------------------
(***************************************************************************)
(* Theorems of Maintenance, for any number of commands, deaths and reboots. *)
(* Every behaviour is well typed and migrates a plan at most once.  The     *)
(* code lets the web's upgrade begin beside an unfinished operation         *)
(* (run_once never looks at it); a behaviour in which that never happens    *)
(* (Apart) implements Installation, whatever Overlap says.                  *)
(***************************************************************************)
EXTENDS Maintenance, TLAPS

(* The premise of the refinement, which an operator has to see to.          *)
Apart == [][~BeginsBeside]_maintVars

Matched   == code = schema /\ files = "whole"
Frozen    == Blocked /\ running = {} /\ quiet
Restoring == op.kind = "backup.restore" /\ Unfinished
(* A restore has put everything in its place. *)
Adopted   == op.swapped /\ Matched /\ code = op.target.version

Upgrading == {"gate", "preflight", "capture", "guard", "mark", "recapture", "stop", "save", "prove", "migrate",
              "migrating", "activate", "switch", "starting", "unmark", "start", "undo", "undo_unmark",
              "undo_start", "hold", "hold_mark", "hold_stop", "done", "refused"}
Freezing  == {"freeze", "freeze_guard", "freeze_mark", "freeze_stop", "point"}
Placing   == {"attach", "swap", "adopt", "settle"}
Thawing   == {"thaw", "thaw_start", "thaw_health"}

Typed ==
  /\ running \subseteq Unit /\ code \in Versions /\ files \in {"whole", "mixed"} /\ row \in Rows
  /\ catalog \subseteq Backups /\ bundle \in Backups \cup {NoBackup}
  /\ DOMAIN op = DOMAIN NoOp /\ op.active \subseteq Unit
  /\ DOMAIN journal = {"phase", "active", "from"} /\ journal.active \subseteq Unit
  /\ op.kind = "backup.restore" => op.target \in Backups
Flags == quiet \in BOOLEAN /\ marker \in BOOLEAN /\ guarded \in BOOLEAN
(* Whatever does not match stands still behind the marker, with a backup.   *)
Still == (Matched \/ Frozen) /\ (quiet => running = {})
(* What an operation that was begun and not ended says of the installation. *)
Operating ==
  /\ op.kind = "backup.create" /\ Unfinished => Matched
  /\ files = "mixed" => Restoring /\ op.point /\ op.restored
  /\ op.swapped => op.point /\ op.attached /\ op.kind = "backup.restore"
  /\ Restoring /\ op.point => op.restored
  /\ Restoring /\ op.restored => op.target.version \in Versions
  /\ Restoring /\ op.swapped => schema = op.target.version
  /\ Restoring /\ op.point /\ ~Adopted => Frozen
(* One process at a time, and what it has reached.                          *)
Process ==
  /\ pc \in Upgrading => (Unfinished => op.kind = "upgrade.apply")
  /\ pc = "staged" => op.kind = "upgrade.apply"
  /\ pc \in Freezing => Unfinished /\ op.kind \in {"backup.create", "backup.restore"} /\ (op.point => Restoring)
  /\ pc \in Freezing /\ Restoring => op.restored
  /\ pc = "isolate" => Restoring
  /\ pc \in Placing => Restoring /\ op.point
  /\ pc = "adopt" => op.swapped
  /\ pc = "settle" => Adopted
  /\ pc \in Thawing => Unfinished /\ (Restoring => Adopted)
Reached ==
  /\ pc \in {"staged", "gate", "preflight", "capture", "guard", "mark", "recapture", "stop", "save", "prove",
             "migrate", "starting", "unmark", "start", "undo", "undo_unmark", "undo_start"} \cup Thawing => Matched
  /\ pc \in {"mark", "recapture", "stop", "freeze_mark", "freeze_stop", "point"} => guarded
  /\ pc \in {"recapture", "stop", "freeze_stop", "point"} => marker
  /\ pc \in {"save", "point"} => Blocked /\ running = {}
  /\ pc \in {"prove", "migrate", "migrating", "activate", "switch", "starting"} => Frozen
  /\ pc \in {"activate", "switch"} => schema = "new" /\ files = "whole"

IInv == Typed /\ Flags /\ Still /\ Operating /\ Process /\ Reached

(* The row of the plan migrates once: its backup exists from then on.       *)
Once ==
  /\ migrations \in {0, 1} /\ (~taken => migrations = 0)
  /\ caller = "web" /\ pc \in {"capture", "guard", "mark", "recapture", "stop", "save"} => ~taken
  /\ caller = "web" /\ pc \in {"prove", "migrate"} => taken /\ migrations = 0
  /\ taken \in BOOLEAN

----------------------------------------------------------------------------
(* THE INVARIANT *)

(* What a verified isolation leaves of the operation.                       *)
LEMMA Verified ==
  ASSUME NEW o, DOMAIN o = DOMAIN NoOp, NEW n, n = [o EXCEPT !.restored = TRUE, !.phase = "verified_restore"]
  PROVE  /\ DOMAIN n = DOMAIN o /\ n.kind = o.kind /\ n.target = o.target /\ n.active = o.active
         /\ n.restored = TRUE /\ n.point = o.point /\ n.swapped = o.swapped
         /\ n.attached = o.attached /\ n.phase = "verified_restore"
BY DEF NoOp

(* One step per action, and under it one per conjunct where the action      *)
(* needs more than its own definition.                                      *)
LEMMA StepIInv == ASSUME ~BeginsBeside, IInv, Next PROVE IInv'
<1> USE DEF IInv, Typed, Flags, Still, Operating, Process, Reached, Matched, Frozen, Restoring, Adopted, Upgrading,
            Freezing, Placing, Thawing, Blocked, Unfinished, installed, backups, process, units, bounds, Unit,
            Versions, Rows, Backups, NoBackup, NoOp, Settled, Same, Calm, Keep, At, Runs, Phase, OpIs, Leave,
            Registered, Alone, Dies, Command, BeginAs, MayBegin, Migrate, Stopped, Recover, Here
<1>1. ASSUME Gate PROVE IInv'
  BY <1>1 DEF Gate
<1>2. ASSUME Installed PROVE IInv'
  BY <1>2 DEF Installed
<1>3. ASSUME PreflightFails PROVE IInv'
  BY <1>3 DEF PreflightFails
<1>4. ASSUME Preflight PROVE IInv'
  BY <1>4 DEF Preflight
<1>5. ASSUME Capture PROVE IInv'
  BY <1>5 DEF Capture
<1>6. ASSUME Guard PROVE IInv'
  BY <1>6 DEF Guard
<1>7. ASSUME Mark PROVE IInv'
  BY <1>7 DEF Mark
<1>8. ASSUME Recapture PROVE IInv'
  BY <1>8 DEF Recapture
<1>9. ASSUME StopUnits PROVE IInv'
  BY <1>9 DEF StopUnits
<1>10. ASSUME SaveBundle PROVE IInv'
  BY <1>10 DEF SaveBundle
<1>11. ASSUME Prove PROVE IInv'
  BY <1>11 DEF Prove
<1>12. ASSUME FailsEarly PROVE IInv'
  BY <1>12 DEF FailsEarly
<1>13. ASSUME MigrationBegins PROVE IInv'
  BY <1>13 DEF MigrationBegins
<1>14. ASSUME MigrationEnds PROVE IInv'
  BY <1>14 DEF MigrationEnds
<1>15. ASSUME FailsLate PROVE IInv'
  BY <1>15 DEF FailsLate
<1>16. ASSUME Activate PROVE IInv'
  BY <1>16 DEF Activate
<1>17. ASSUME SwitchPointer PROVE IInv'
  BY <1>17 DEF SwitchPointer
<1>18. ASSUME Starting PROVE IInv'
  BY <1>18 DEF Starting
<1>19. ASSUME Unmark PROVE IInv'
  <2>1. Typed'
    BY <1>19 DEF Unmark
  <2>2. Flags'
    BY <1>19 DEF Unmark
  <2>3. Still'
    BY <1>19 DEF Unmark
  <2>4. Operating'
    BY <1>19 DEF Unmark
  <2>5. Process'
    BY <1>19 DEF Unmark
  <2>6. Reached'
    BY <1>19 DEF Unmark
  <2> QED
    BY <2>1, <2>2, <2>3, <2>4, <2>5, <2>6
<1>20. ASSUME StartUnits PROVE IInv'
  <2>1. Typed'
    BY <1>20 DEF StartUnits
  <2>2. Flags'
    BY <1>20 DEF StartUnits
  <2>3. Still'
    BY <1>20 DEF StartUnits
  <2>4. Operating'
    BY <1>20 DEF StartUnits
  <2>5. Process'
    BY <1>20 DEF StartUnits
  <2>6. Reached'
    BY <1>20 DEF StartUnits
  <2> QED
    BY <2>1, <2>2, <2>3, <2>4, <2>5, <2>6
<1>21. ASSUME Undo PROVE IInv'
  BY <1>21 DEF Undo
<1>22. ASSUME UndoUnmark PROVE IInv'
  <2>1. Typed'
    BY <1>22 DEF UndoUnmark
  <2>2. Flags'
    BY <1>22 DEF UndoUnmark
  <2>3. Still'
    BY <1>22 DEF UndoUnmark
  <2>4. Operating'
    BY <1>22 DEF UndoUnmark
  <2>5. Process'
    BY <1>22 DEF UndoUnmark
  <2>6. Reached'
    BY <1>22 DEF UndoUnmark
  <2> QED
    BY <2>1, <2>2, <2>3, <2>4, <2>5, <2>6
<1>23. ASSUME UndoStart PROVE IInv'
  <2>1. Typed'
    BY <1>23 DEF UndoStart
  <2>2. Flags'
    BY <1>23 DEF UndoStart
  <2>3. Still'
    BY <1>23 DEF UndoStart
  <2>4. Operating'
    BY <1>23 DEF UndoStart
  <2>5. Process'
    BY <1>23 DEF UndoStart
  <2>6. Reached'
    BY <1>23 DEF UndoStart
  <2> QED
    BY <2>1, <2>2, <2>3, <2>4, <2>5, <2>6
<1>24. ASSUME Hold PROVE IInv'
  BY <1>24 DEF Hold
<1>25. ASSUME HoldMark PROVE IInv'
  BY <1>25 DEF HoldMark
<1>26. ASSUME HoldStop PROVE IInv'
  <2>1. Typed'
    <3>1. running' \subseteq Unit
      BY <1>26 DEF HoldStop
    <3> QED
      BY <1>26, <3>1 DEF HoldStop
  <2>2. Flags'
    BY <1>26 DEF HoldStop
  <2>3. Still'
    BY <1>26 DEF HoldStop
  <2>4. Operating'
    BY <1>26 DEF HoldStop
  <2>5. Process'
    BY <1>26 DEF HoldStop
  <2>6. Reached'
    BY <1>26 DEF HoldStop
  <2> QED
    BY <2>1, <2>2, <2>3, <2>4, <2>5, <2>6
<1>27. ASSUME FinishWeb PROVE IInv'
  BY <1>27 DEF FinishWeb
<1>28. ASSUME Staged PROVE IInv'
  BY <1>28 DEF Staged
<1>29. ASSUME Fails PROVE IInv'
  BY <1>29 DEF Fails
<1>30. ASSUME Freeze PROVE IInv'
  BY <1>30 DEF Freeze
<1>31. ASSUME FreezeGuard PROVE IInv'
  BY <1>31 DEF FreezeGuard
<1>32. ASSUME FreezeMark PROVE IInv'
  BY <1>32 DEF FreezeMark
<1>33. ASSUME FreezeStop PROVE IInv'
  <2>1. Typed'
    BY <1>33 DEF FreezeStop
  <2>2. Flags'
    BY <1>33 DEF FreezeStop
  <2>3. Still'
    BY <1>33 DEF FreezeStop
  <2>4. Operating'
    BY <1>33 DEF FreezeStop
  <2>5. Process'
    BY <1>33 DEF FreezeStop
  <2>6. Reached'
    BY <1>33 DEF FreezeStop
  <2> QED
    BY <2>1, <2>2, <2>3, <2>4, <2>5, <2>6
<1>34. ASSUME Point PROVE IInv'
  BY <1>34 DEF Point
<1>35. ASSUME Thaw PROVE IInv'
  <2>1. Typed'
    BY <1>35 DEF Thaw
  <2>2. Flags'
    BY <1>35 DEF Thaw
  <2>3. Still'
    BY <1>35 DEF Thaw
  <2>4. Operating'
    BY <1>35 DEF Thaw
  <2>5. Process'
    BY <1>35 DEF Thaw
  <2>6. Reached'
    BY <1>35 DEF Thaw
  <2> QED
    BY <2>1, <2>2, <2>3, <2>4, <2>5, <2>6
<1>36. ASSUME ThawStart PROVE IInv'
  <2>1. Typed'
    BY <1>36 DEF ThawStart
  <2>2. Flags'
    BY <1>36 DEF ThawStart
  <2>3. Still'
    BY <1>36 DEF ThawStart
  <2>4. Operating'
    BY <1>36 DEF ThawStart
  <2>5. Process'
    BY <1>36 DEF ThawStart
  <2>6. Reached'
    BY <1>36 DEF ThawStart
  <2> QED
    BY <2>1, <2>2, <2>3, <2>4, <2>5, <2>6
<1>37. ASSUME ThawHealthy PROVE IInv'
  BY <1>37 DEF ThawHealthy
<1>38. ASSUME Forget PROVE IInv'
  BY <1>38 DEF Forget
<1>39. ASSUME Attach PROVE IInv'
  <2>1. Typed'
    BY <1>39 DEF Attach
  <2>2. Flags'
    BY <1>39 DEF Attach
  <2>3. Still'
    BY <1>39 DEF Attach
  <2>4. Operating'
    BY <1>39 DEF Attach
  <2>5. Process'
    BY <1>39 DEF Attach
  <2>6. Reached'
    BY <1>39 DEF Attach
  <2> QED
    BY <2>1, <2>2, <2>3, <2>4, <2>5, <2>6
<1>40. ASSUME Swap PROVE IInv'
  BY <1>40 DEF Swap
<1>41. ASSUME Adopt PROVE IInv'
  BY <1>41 DEF Adopt
<1>42. ASSUME Settle PROVE IInv'
  BY <1>42 DEF Settle
<1>43. ASSUME Queue PROVE IInv'
  BY <1>43 DEF Queue
<1>44. ASSUME RunOnce PROVE IInv'
  BY <1>44 DEF RunOnce, BeginsBeside
<1>45. ASSUME UpgradeApply PROVE IInv'
  BY <1>45 DEF UpgradeApply
<1>46. ASSUME BackupCreate PROVE IInv'
  BY <1>46 DEF BackupCreate
<1>47. ASSUME ResumeRestore PROVE IInv'
  BY <1>47 DEF ResumeRestore
<1>48. ASSUME ResumeBackup PROVE IInv'
  BY <1>48 DEF ResumeBackup
<1>49. ASSUME AbortUpgrade PROVE IInv'
  BY <1>49 DEF AbortUpgrade
<1>50. ASSUME ConfirmUpgrade PROVE IInv'
  BY <1>50 DEF ConfirmUpgrade
<1>51. ASSUME TimerStarts PROVE IInv'
  BY <1>51 DEF TimerStarts
<1>52. ASSUME JobEnds PROVE IInv'
  BY <1>52 DEF JobEnds
<1>53. ASSUME Crash PROVE IInv'
  BY <1>53 DEF Crash
<1>54. ASSUME Reboot PROVE IInv'
  BY <1>54 DEF Reboot
<1>55. ASSUME NEW h \in BOOLEAN, FinishAdmin(h) PROVE IInv'
  BY <1>55 DEF FinishAdmin
<1>56. ASSUME NEW h \in BOOLEAN, Isolate(h) PROVE IInv'
  <2>0. ASSUME h, op.target.version # "mixed", ~op.restored
        PROVE  /\ DOMAIN op' = DOMAIN op /\ op'.kind = op.kind /\ op'.target = op.target /\ op'.active = op.active
               /\ op'.restored = TRUE /\ op'.point = op.point /\ op'.swapped = op.swapped
               /\ op'.attached = op.attached /\ op'.phase = "verified_restore"
    <3>1. op' = [op EXCEPT !.restored = TRUE, !.phase = "verified_restore"]
      BY <1>56, <2>0 DEF Isolate
    <3> QED
      BY <3>1, Verified
  <2>1. Typed'
    <3>1. CASE op.restored
      BY <1>56, <3>1 DEF Isolate
    <3>3. CASE h /\ op.target.version # "mixed" /\ ~op.restored
      BY <1>56, <2>0, <3>3 DEF Isolate
    <3>2. CASE ~((h /\ op.target.version # "mixed") \/ op.restored)
      BY <1>56, <3>2 DEF Isolate
    <3> QED
      BY <3>1, <3>2, <3>3
  <2>2. Flags'
    BY <1>56 DEF Isolate
  <2>3. Still'
    BY <1>56 DEF Isolate
  <2>4. Operating'
    <3>1. CASE op.restored
      BY <1>56, <3>1 DEF Isolate
    <3>3. CASE h /\ op.target.version # "mixed" /\ ~op.restored
      BY <1>56, <2>0, <3>3 DEF Isolate
    <3>2. CASE ~((h /\ op.target.version # "mixed") \/ op.restored)
      BY <1>56, <3>2 DEF Isolate
    <3> QED
      BY <3>1, <3>2, <3>3
  <2>5. Process'
    <3>1. CASE op.restored
      BY <1>56, <3>1 DEF Isolate
    <3>3. CASE h /\ op.target.version # "mixed" /\ ~op.restored
      BY <1>56, <2>0, <3>3 DEF Isolate
    <3>2. CASE ~((h /\ op.target.version # "mixed") \/ op.restored)
      BY <1>56, <3>2 DEF Isolate
    <3> QED
      BY <3>1, <3>2, <3>3
  <2>6. Reached'
    BY <1>56 DEF Isolate
  <2> QED
    BY <2>1, <2>2, <2>3, <2>4, <2>5, <2>6
<1>57. ASSUME NEW h \in Backups, RestoreStart(h) PROVE IInv'
  <2>0. ASSUME ~Restoring
        PROVE  /\ DOMAIN op' = DOMAIN NoOp /\ op'.kind = "backup.restore" /\ op'.phase = "preparing" /\ op'.target = h
               /\ op'.active \subseteq Unit /\ op'.restored = FALSE /\ op'.point = FALSE /\ op'.swapped = FALSE
    <3>1. op' = [NoOp EXCEPT !.kind = "backup.restore", !.phase = "preparing", !.target = h,
                   !.over = journal.phase \notin Settled, !.known = journal.phase \notin Settled,
                   !.active = IF journal.phase \in Settled THEN {} ELSE journal.active]
      BY <1>57, <2>0 DEF RestoreStart
    <3>2. DOMAIN op' = DOMAIN NoOp /\ op'.kind = "backup.restore" /\ op'.phase = "preparing" /\ op'.target = h
      BY <3>1
    <3>3. op'.restored = FALSE /\ op'.point = FALSE /\ op'.swapped = FALSE
      BY <3>1
    <3>4. op'.active = IF journal.phase \in Settled THEN {} ELSE journal.active
      BY <3>1
    <3> QED
      BY <3>2, <3>3, <3>4
  <2>1. Typed'
    <3>1. CASE Restoring
      BY <1>57, <3>1 DEF RestoreStart
    <3>2. CASE ~(Restoring)
      BY <1>57, <2>0, <3>2 DEF RestoreStart
    <3> QED
      BY <3>1, <3>2
  <2>2. Flags'
    BY <1>57 DEF RestoreStart
  <2>3. Still'
    BY <1>57 DEF RestoreStart
  <2>4. Operating'
    <3>1. CASE Restoring
      BY <1>57, <3>1 DEF RestoreStart
    <3>2. CASE ~(Restoring)
      BY <1>57, <2>0, <3>2 DEF RestoreStart
    <3> QED
      BY <3>1, <3>2
  <2>5. Process'
    <3>1. CASE Restoring
      BY <1>57, <3>1 DEF RestoreStart
    <3>2. CASE ~(Restoring)
      BY <1>57, <2>0, <3>2 DEF RestoreStart
    <3> QED
      BY <3>1, <3>2
  <2>6. Reached'
    BY <1>57 DEF RestoreStart
  <2> QED
    BY <2>1, <2>2, <2>3, <2>4, <2>5, <2>6
<1> QED
  BY <1>1, <1>2, <1>3, <1>4, <1>5, <1>6, <1>7, <1>8, <1>9, <1>10, <1>11, <1>12, <1>13, <1>14, <1>15, <1>16, <1>17, <1>18, <1>19, <1>20, <1>21, <1>22, <1>23, <1>24, <1>25, <1>26, <1>27, <1>28, <1>29, <1>30, <1>31, <1>32, <1>33, <1>34, <1>35, <1>36, <1>37, <1>38, <1>39, <1>40, <1>41, <1>42, <1>43, <1>44, <1>45, <1>46, <1>47, <1>48, <1>49, <1>50, <1>51, <1>52, <1>53, <1>54, <1>55, <1>56, <1>57 DEF Next, Upgrade, Operation, Commands

LEMMA InitIInv == Init => IInv /\ Once
<1> USE DEF Init, IInv, Typed, Flags, Still, Operating, Process, Reached, Matched, Frozen, Restoring, Adopted,
            Unfinished, Once
<1>1. Init => Typed
  BY DEF Unit, Versions, Rows, Backups, NoBackup, NoOp
<1>2. Init => Flags /\ Still /\ Reached /\ Once
  BY DEF Thawing
<1>3. Init => Operating /\ Process
  BY DEF NoOp, Upgrading, Freezing, Placing, Thawing
<1> QED
  BY <1>1, <1>2, <1>3

(* The two actions that make the backup of the plan and migrate for it are  *)
(* the only ones that touch what Once counts.                               *)
LEMMA StepOnce == ASSUME Once, Next PROVE Once'
<1> USE DEF Once, Same, Calm, Keep, At, Leave, Registered, Alone, Dies, Command, BeginAs, Migrate, Recover, backups,
            process, bounds
<1>1. ASSUME Upgrade PROVE Once'
  <2>1. ASSUME Gate PROVE Once'
    BY <2>1 DEF Gate
  <2>2. ASSUME Preflight PROVE Once'
    BY <2>2 DEF Preflight
  <2>3. ASSUME StopUnits PROVE Once'
    BY <2>3 DEF StopUnits, Stopped
  <2>4. ASSUME SaveBundle PROVE Once'
    BY <2>4 DEF SaveBundle
  <2>5. ASSUME MigrationBegins PROVE Once'
    BY <2>5 DEF MigrationBegins
  <2>6. ASSUME Prove \/ FailsEarly \/ MigrationEnds \/ FailsLate \/ Capture \/ Guard \/ Mark \/ Recapture PROVE Once'
    BY <2>6 DEF Prove, FailsEarly, MigrationEnds, FailsLate, Capture, Guard, Mark, Recapture
  <2>7. ASSUME Installed \/ PreflightFails \/ Activate \/ SwitchPointer \/ Starting \/ Unmark \/ StartUnits
        PROVE  Once'
    BY <2>7 DEF Installed, PreflightFails, Activate, SwitchPointer, Starting, Unmark, StartUnits
  <2>8. ASSUME Undo \/ UndoUnmark \/ UndoStart \/ Hold \/ HoldMark \/ HoldStop PROVE Once'
    BY <2>8 DEF Undo, UndoUnmark, UndoStart, Hold, HoldMark, HoldStop
  <2>9. ASSUME FinishWeb \/ \E healthy \in BOOLEAN : FinishAdmin(healthy) PROVE Once'
    BY <2>9 DEF FinishWeb, FinishAdmin
  <2> QED
    BY <1>1, <2>1, <2>2, <2>3, <2>4, <2>5, <2>6, <2>7, <2>8, <2>9 DEF Upgrade
<1>2. ASSUME Operation PROVE Once'
  <2>1. ASSUME Staged \/ Fails \/ Freeze \/ FreezeGuard \/ FreezeMark \/ FreezeStop \/ Point PROVE Once'
    BY <2>1 DEF Staged, Fails, Freeze, FreezeGuard, FreezeMark, FreezeStop, Point
  <2>2. ASSUME Thaw \/ ThawStart \/ ThawHealthy \/ Forget PROVE Once'
    BY <2>2 DEF Thaw, ThawStart, ThawHealthy, Forget
  <2>3. ASSUME Attach \/ Swap \/ Adopt \/ Settle \/ \E ok \in BOOLEAN : Isolate(ok) PROVE Once'
    BY <2>3 DEF Attach, Swap, Adopt, Settle, Isolate
  <2> QED
    BY <1>2, <2>1, <2>2, <2>3 DEF Operation
<1>3. ASSUME Commands PROVE Once'
  <2>1. ASSUME Queue \/ RunOnce \/ UpgradeApply \/ BackupCreate PROVE Once'
    BY <2>1 DEF Queue, RunOnce, UpgradeApply, BackupCreate
  <2>3. ASSUME NEW b \in Backups, RestoreStart(b) PROVE Once'
    BY <2>3 DEF RestoreStart
  <2>2. ASSUME ResumeRestore \/ ResumeBackup \/ AbortUpgrade \/ ConfirmUpgrade PROVE Once'
    BY <2>2 DEF ResumeRestore, ResumeBackup, AbortUpgrade, ConfirmUpgrade
  <2> QED
    BY <1>3, <2>1, <2>2, <2>3 DEF Commands
<1>4. ASSUME TimerStarts \/ JobEnds \/ Crash \/ Reboot PROVE Once'
  BY <1>4 DEF TimerStarts, JobEnds, Crash, Reboot
<1> QED
  BY <1>1, <1>2, <1>3, <1>4 DEF Next

----------------------------------------------------------------------------
(* WHAT A STEP OF THE MAINTENANCE IS TO THE INSTALLATION *)

Shown  == IF code = schema /\ files = "whole" THEN code ELSE "between"
Permit == Promise!Next \/ UNCHANGED <<running, Shown, quiet>>

(* Units start or stop while code, schema and files stay as they are.       *)
LEMMA RunsPermitted == ASSUME IInv, IInv', NEW us, Runs(us), UNCHANGED installed PROVE Permit
<1>1. UNCHANGED <<Shown, Matched>> /\ (Matched => Shown \in Versions)
  BY DEF installed, Shown, Matched, IInv, Typed
<1>2. CASE us = {}
  <2>1. running' \subseteq running /\ quiet' = quiet
    BY <1>2 DEF Runs, IInv, Flags
  <2> QED
    BY <1>1, <2>1 DEF Permit, Promise!Next, Promise!Stop, Shown
<1>3. CASE us # {}
  <2>1. running' \in SUBSET Unit /\ running' # {} /\ quiet' = FALSE
    BY <1>3 DEF Runs, IInv, Typed
  <2>2. Matched
    BY <1>1, <2>1 DEF IInv, Still, Frozen
  <2> QED
    BY <1>1, <2>1, <2>2 DEF Permit, Promise!Next, Promise!Serve, Shown
<1> QED
  BY <1>2, <1>3

(* Behind the marker, with a backup, the installation may be replaced.      *)
LEMMA ReplacePermitted == ASSUME Frozen, Typed', UNCHANGED units PROVE Permit
<1>1. Shown' \in Versions \cup {"between"}
  BY DEF Shown, Typed
<1> QED
  BY <1>1 DEF Permit, Promise!Next, Promise!Replace, Shown, Frozen, units

LEMMA StepPermitted == ASSUME ~BeginsBeside, IInv, Next PROVE Permit
<1>0. IInv'
  BY StepIInv
<1>1. ASSUME UNCHANGED <<units, installed>> PROVE Permit
  BY <1>1 DEF Permit, units, installed, Shown
<1>2. ASSUME Upgrade PROVE Permit
  <2>1. ASSUME StopUnits \/ StartUnits \/ UndoStart \/ HoldStop PROVE Permit
    <3>1. UNCHANGED installed /\ \E us : Runs(us)
      BY <2>1 DEF StopUnits, StartUnits, UndoStart, HoldStop, Same
    <3> QED
      BY <1>0, <3>1, RunsPermitted
  <2>2. ASSUME SaveBundle PROVE Permit
    <3>1. running = {} /\ UNCHANGED <<running, installed>> /\ quiet' = TRUE /\ Matched
      BY <2>2 DEF SaveBundle, At, IInv, Reached
    <3>2. Shown \in Versions /\ Shown' = Shown
      BY <3>1 DEF Shown, Matched, installed, IInv, Typed
    <3> QED
      BY <3>1, <3>2 DEF Permit, Promise!Next, Promise!Save, Shown
  <2>3. ASSUME MigrationBegins \/ MigrationEnds \/ SwitchPointer PROVE Permit
    <3>1. Frozen /\ UNCHANGED units
      BY <2>3 DEF MigrationBegins, MigrationEnds, SwitchPointer, Migrate, At, IInv, Reached
    <3> QED
      BY <1>0, <3>1, ReplacePermitted DEF IInv
  <2>4. ASSUME Gate \/ Installed \/ PreflightFails \/ Preflight \/ Capture \/ Guard \/ Mark \/ Recapture PROVE Permit
    BY <1>1, <2>4 DEF Gate, Installed, PreflightFails, Preflight, Capture, Guard, Mark, Recapture, Same
  <2>5. ASSUME Prove \/ FailsEarly \/ FailsLate \/ Activate \/ Starting \/ Unmark \/ Undo \/ UndoUnmark PROVE Permit
    BY <1>1, <2>5 DEF Prove, FailsEarly, FailsLate, Activate, Starting, Unmark, Undo, UndoUnmark, Same
  <2>6. ASSUME Hold \/ HoldMark \/ FinishWeb \/ \E healthy \in BOOLEAN : FinishAdmin(healthy) PROVE Permit
    BY <1>1, <2>6 DEF Hold, HoldMark, FinishWeb, FinishAdmin, Same, Leave
  <2> QED
    BY <1>2, <2>1, <2>2, <2>3, <2>4, <2>5, <2>6 DEF Upgrade
<1>3. ASSUME Operation PROVE Permit
  <2>1. ASSUME FreezeStop \/ ThawStart PROVE Permit
    <3>1. UNCHANGED installed /\ \E us : Runs(us)
      BY <2>1 DEF FreezeStop, ThawStart, Calm
    <3> QED
      BY <1>0, <3>1, RunsPermitted
  <2>2. ASSUME Point PROVE Permit
    <3>1. running = {} /\ UNCHANGED <<running, installed>> /\ quiet' = TRUE
      BY <2>2 DEF Point
    <3>2. Shown' = Shown
      BY <3>1 DEF Shown, installed
    <3>3. CASE Matched
      <4>1. Shown \in Versions
        BY <3>3 DEF Shown, Matched, IInv, Typed
      <4> QED
        BY <3>1, <3>2, <4>1 DEF Permit, Promise!Next, Promise!Save, Shown
    <3>4. CASE ~Matched
      <4>1. quiet = TRUE
        BY <3>4 DEF IInv, Still, Frozen, Flags
      <4> QED
        BY <3>1, <3>2, <4>1 DEF Permit
    <3> QED
      BY <3>3, <3>4
  <2>3. ASSUME Attach \/ Swap \/ Adopt PROVE Permit
    <3>1. UNCHANGED units /\ Restoring /\ op.point
      BY <2>3 DEF Attach, Swap, Adopt, Keep, At, IInv, Process, Placing
    <3>2. CASE Adopted
      <4>1. UNCHANGED installed
        BY <2>3, <3>2 DEF Attach, Swap, Adopt, Adopted, Matched, installed, IInv, Operating
      <4> QED
        BY <1>1, <3>1, <4>1
    <3>3. CASE ~Adopted
      <4>1. Frozen
        BY <3>1, <3>3 DEF IInv, Operating
      <4> QED
        BY <1>0, <3>1, <4>1, ReplacePermitted DEF IInv
    <3> QED
      BY <3>2, <3>3
  <2>4. ASSUME Staged \/ Fails \/ Freeze \/ FreezeGuard \/ FreezeMark \/ Thaw \/ ThawHealthy \/ Forget PROVE Permit
    BY <1>1, <2>4 DEF Staged, Fails, Freeze, FreezeGuard, FreezeMark, Thaw, ThawHealthy, Forget, Calm, Leave
  <2>5. ASSUME Settle \/ \E ok \in BOOLEAN : Isolate(ok) PROVE Permit
    BY <1>1, <2>5 DEF Settle, Isolate
  <2> QED
    BY <1>3, <2>1, <2>2, <2>3, <2>4, <2>5 DEF Operation
<1>4. ASSUME Commands PROVE Permit
  <2>1. ASSUME Queue \/ RunOnce \/ UpgradeApply \/ BackupCreate \/ \E b \in Backups : RestoreStart(b) PROVE Permit
    BY <1>1, <2>1 DEF Queue, RunOnce, UpgradeApply, BackupCreate, BeginAs, RestoreStart
  <2>2. ASSUME ResumeRestore \/ ResumeBackup \/ AbortUpgrade \/ ConfirmUpgrade PROVE Permit
    BY <1>1, <2>2 DEF ResumeRestore, ResumeBackup, AbortUpgrade, ConfirmUpgrade, Recover
  <2> QED
    BY <1>4, <2>1, <2>2 DEF Commands
<1>5. ASSUME TimerStarts \/ JobEnds \/ Reboot PROVE Permit
  <2>1. UNCHANGED installed /\ \E us : Runs(us)
    BY <1>5 DEF TimerStarts, JobEnds, Reboot, Alone, Dies
  <2> QED
    BY <1>0, <2>1, RunsPermitted
<1>6. ASSUME Crash PROVE Permit
  BY <1>1, <1>6 DEF Crash, Dies
<1> QED
  BY <1>2, <1>3, <1>4, <1>5, <1>6 DEF Next

LEMMA IInvKept == IInv /\ [Next]_maintVars /\ [~BeginsBeside]_maintVars => IInv'
<1>1. IInv /\ UNCHANGED maintVars => IInv'
  BY DEF maintVars, installed, backups, process, units, bounds, IInv, Typed, Flags, Still, Operating, Process, Reached,
         Matched, Frozen, Restoring, Adopted, Blocked, Unfinished
<1> QED
  BY <1>1, StepIInv

LEMMA OnceKept == Once /\ [Next]_maintVars => Once'
<1>1. Once /\ UNCHANGED maintVars => Once'
  BY DEF maintVars, backups, process, Once
<1> QED
  BY <1>1, StepOnce

LEMMA InvSafe == (IInv => NothingRunsUnmatched) /\ (Once => MigratesOnce)
BY DEF IInv, Still, Frozen, Matched, NothingRunsUnmatched, Once, MigratesOnce

(* Every step maps to a step of Installation, or to none.                   *)
LEMMA StepMaps ==
  IInv /\ [Next]_maintVars /\ [~BeginsBeside]_maintVars => [Promise!Next]_<<running, Shown, quiet>>
<1>1. UNCHANGED maintVars => UNCHANGED <<running, Shown, quiet>>
  BY DEF maintVars, installed, units, Shown
<1> QED
  BY <1>1, StepPermitted DEF Permit

LEMMA InitMaps == Init => Promise!Init
BY DEF Init, Promise!Init, Unit, Versions

----------------------------------------------------------------------------
(* TYPES *)

LEMMA JournalKept == ASSUME TypeOK, Next PROVE journal' \in Journals
<1> USE DEF Same, Calm, Keep, Alone, Dies, Recover, BeginAs, Migrate, Registered
<1>0. journal \in Journals /\ running \subseteq Unit /\ code \in Versions
  BY DEF TypeOK
<1>1. CASE journal' = journal
  BY <1>0, <1>1
<1>2. ASSUME NEW p \in {"preflight_failed", "complete", "stopping", "backup", "migration", "activation", "starting",
                        "restarting_previous", "failed_before_migration", "recovery_required", "none"}, Phase(p)
      PROVE  journal' \in Journals
  BY <1>0, <1>2 DEF Phase, Journals
<1>3. CASE Upgrade
  <2>1. CASE Gate
    BY <1>0, <1>1, <2>1 DEF Gate, Journals
  <2>2. CASE Capture
    BY <1>0, <2>2 DEF Capture, Journals
  <2>3. CASE Recapture
    BY <1>0, <2>3 DEF Recapture, Journals
  <2>4. CASE Installed \/ PreflightFails \/ Prove \/ Activate \/ Starting \/ Undo \/ Hold
    BY <1>2, <2>4 DEF Installed, PreflightFails, Prove, Activate, Starting, Undo, Hold
  <2>5. CASE StopUnits \/ StartUnits \/ UndoStart
    BY <1>1, <1>2, <2>5 DEF StopUnits, StartUnits, UndoStart
  <2>6. CASE \/ Preflight \/ Guard \/ Mark \/ SaveBundle \/ FailsEarly \/ MigrationBegins \/ MigrationEnds \/ FailsLate
             \/ SwitchPointer \/ Unmark \/ UndoUnmark \/ HoldMark \/ HoldStop \/ FinishWeb
             \/ \E healthy \in BOOLEAN : FinishAdmin(healthy)
    BY <1>1, <2>6 DEF Preflight, Guard, Mark, SaveBundle, FailsEarly, MigrationBegins, MigrationEnds, FailsLate,
         SwitchPointer, Unmark, UndoUnmark, HoldMark, HoldStop, FinishWeb, FinishAdmin
  <2> QED
    BY <1>3, <2>1, <2>2, <2>3, <2>4, <2>5, <2>6 DEF Upgrade
<1>4. CASE Operation
  BY <1>1, <1>2, <1>4 DEF Operation, Staged, Fails, Freeze, FreezeGuard, FreezeMark, FreezeStop, Point, Thaw, ThawStart,
       ThawHealthy, Forget, Attach, Swap, Adopt, Settle, Isolate
<1>5. CASE Commands
  BY <1>1, <1>5 DEF Commands, Queue, RunOnce, UpgradeApply, BackupCreate, ResumeRestore, ResumeBackup, AbortUpgrade,
       ConfirmUpgrade, RestoreStart
<1>6. CASE TimerStarts \/ JobEnds \/ Crash \/ Reboot
  BY <1>1, <1>6 DEF TimerStarts, JobEnds, Crash, Reboot
<1> QED
  BY <1>3, <1>4, <1>5, <1>6 DEF Next

(* An operation keeps its shape when a field of it is set.                  *)
LEMMA OpFields ==
  ASSUME NEW o \in Ops
  PROVE  /\ \A p \in {"upgrading", "stopping", "frozen", "backup", "verified_restore", "attaching", "attached",
                      "starting", "complete", "failed_before_changes"} : [o EXCEPT !.phase = p] \in Ops
         /\ \A us \in SUBSET Unit : [o EXCEPT !.active = us] \in Ops
         /\ \A v \in BOOLEAN : [o EXCEPT !.known = v] \in Ops /\ [o EXCEPT !.over = v] \in Ops
         /\ \A b \in Backups : [o EXCEPT !.target = b] \in Ops
         /\ [o EXCEPT !.restored = TRUE] \in Ops
         /\ [o EXCEPT !.point = TRUE] \in Ops /\ [o EXCEPT !.attached = TRUE] \in Ops
         /\ [o EXCEPT !.swapped = TRUE] \in Ops
BY DEF Ops

LEMMA OpNew ==
  NoOp \in Ops /\ \A k \in {"upgrade.apply", "backup.create", "backup.restore"} :
                    [NoOp EXCEPT !.kind = k, !.phase = "preparing"] \in Ops
BY DEF NoOp, Ops, NoBackup

LEMMA OpKept == ASSUME TypeOK, Next PROVE op' \in Ops
<1> USE DEF Same, Calm, Keep, Alone, Dies, OpIs
<1>0. op \in Ops /\ running \subseteq Unit /\ journal \in Journals /\ op.active \subseteq Unit /\ journal.active \subseteq Unit
  BY DEF TypeOK, Ops, Journals
<1>1. CASE op' = op
  BY <1>0, <1>1
<1>2. ASSUME NEW p \in {"upgrading", "stopping", "frozen", "backup", "verified_restore", "attaching", "attached",
                        "starting", "complete", "failed_before_changes"}, op' = [op EXCEPT !.phase = p]
      PROVE  op' \in Ops
  BY <1>0, <1>2, OpFields
<1>3. CASE Upgrade
  <2>1. ASSUME NEW healthy \in BOOLEAN, FinishAdmin(healthy) PROVE op' \in Ops
    BY <1>1, <1>2, <2>1 DEF FinishAdmin
  <2>2. CASE ~ \E healthy \in BOOLEAN : FinishAdmin(healthy)
    BY <1>1, <1>3, <2>2 DEF Upgrade, Gate, Capture, Recapture, Installed, PreflightFails, Prove, Activate, Starting, Undo,
         Hold, StopUnits, StartUnits, UndoStart, Preflight, Guard, Mark, SaveBundle, FailsEarly, MigrationBegins,
         MigrationEnds, FailsLate, SwitchPointer, Unmark, UndoUnmark, HoldMark, HoldStop, FinishWeb, Migrate
  <2> QED
    BY <2>1, <2>2
<1>4. CASE Operation
  <2>1. CASE Freeze
    <3>1. CASE op.known
      BY <1>1, <2>1, <3>1 DEF Freeze
    <3>2. CASE ~op.known
      <4>1. op' = [[[op EXCEPT !.active = running] EXCEPT !.known = TRUE] EXCEPT !.phase = "stopping"]
        BY <2>1, <3>2 DEF Freeze
      <4>2. [op EXCEPT !.active = running] \in Ops
        BY <1>0, OpFields
      <4>3. [[op EXCEPT !.active = running] EXCEPT !.known = TRUE] \in Ops
        BY <4>2, OpFields
      <4> HIDE DEF Ops
      <4> QED
        BY <4>1, <4>3, OpFields
    <3> QED
      BY <3>1, <3>2
  <2>2. CASE Point
    <3>1. op' = [[op EXCEPT !.phase = "backup"] EXCEPT !.point = TRUE]
      BY <2>2 DEF Point
    <3>2. [op EXCEPT !.phase = "backup"] \in Ops
      BY <1>0, OpFields
    <3> QED
      BY <3>1, <3>2, OpFields
  <2>3. CASE Swap
    <3>1. op' = [[op EXCEPT !.attached = TRUE] EXCEPT !.swapped = TRUE]
      BY <2>3 DEF Swap
    <3>2. [op EXCEPT !.attached = TRUE] \in Ops
      BY <1>0, OpFields
    <3> QED
      BY <3>1, <3>2, OpFields
  <2>4. CASE Settle
    <3>1. PICK us \in SUBSET Unit : op' = [[op EXCEPT !.phase = "attached"] EXCEPT !.active = us]
      BY <2>4 DEF Settle
    <3>2. [op EXCEPT !.phase = "attached"] \in Ops
      BY <1>0, OpFields
    <3> QED
      BY <3>1, <3>2, OpFields
  <2>5. ASSUME NEW ok \in BOOLEAN, Isolate(ok) PROVE op' \in Ops
    <3>1. \/ op' = op \/ op' = [op EXCEPT !.phase = "failed_before_changes"]
          \/ op' = [[op EXCEPT !.restored = TRUE] EXCEPT !.phase = "verified_restore"]
      BY <2>5 DEF Isolate
    <3>2. [op EXCEPT !.restored = TRUE] \in Ops
      BY <1>0, OpFields
    <3>3. [[op EXCEPT !.restored = TRUE] EXCEPT !.phase = "verified_restore"] \in Ops
      BY <3>2, OpFields
    <3> QED
      BY <1>1, <1>2, <3>1, <3>3
  <2>6. CASE Staged \/ Fails \/ FreezeGuard \/ FreezeMark \/ FreezeStop \/ Thaw \/ ThawStart \/ ThawHealthy \/ Forget \/ Attach \/ Adopt
    BY <1>1, <1>2, <2>6 DEF Staged, Fails, FreezeGuard, FreezeMark, FreezeStop, Thaw, ThawStart, ThawHealthy, Forget, Attach, Adopt
  <2> QED
    BY <1>4, <2>1, <2>2, <2>3, <2>4, <2>5, <2>6 DEF Operation
<1>5. CASE Commands
  <2>1. CASE UpgradeApply \/ BackupCreate
    BY <2>1, OpNew DEF UpgradeApply, BackupCreate, BeginAs
  <2>2. CASE AbortUpgrade
    <3>1. op' = [op EXCEPT !.active = journal.active]
      BY <2>2 DEF AbortUpgrade, Recover
    <3> QED
      BY <1>0, <3>1, OpFields
  <2>3. CASE ConfirmUpgrade
    BY <1>2, <2>3 DEF ConfirmUpgrade, Recover
  <2>4. CASE Queue \/ RunOnce \/ ResumeRestore \/ ResumeBackup
    BY <1>1, <2>4 DEF Queue, RunOnce, ResumeRestore, ResumeBackup, Recover
  <2>5. ASSUME NEW b \in Backups, RestoreStart(b) PROVE op' \in Ops
    <3> DEFINE over == journal.phase \notin Settled
               left == IF journal.phase \in Settled THEN {} ELSE journal.active
    <3>1. op' = op \/ op' = [NoOp EXCEPT !.kind = "backup.restore", !.phase = "preparing", !.target = b,
                               !.over = over, !.known = over, !.active = left]
      BY <2>5 DEF RestoreStart
    <3>2. over \in BOOLEAN /\ left \subseteq Unit
      BY <1>0
    <3> HIDE DEF over, left
    <3> DEFINE n1 == [NoOp EXCEPT !.kind = "backup.restore", !.phase = "preparing"]
               n2 == [n1 EXCEPT !.target = b]
               n3 == [n2 EXCEPT !.over = over]
               n4 == [n3 EXCEPT !.known = over]
    <3>3. n2 \in Ops
      <4>1. n1 \in Ops
        BY OpNew
      <4> HIDE DEF n1
      <4> QED
        BY <2>5, <4>1, OpFields
    <3>4. n3 \in Ops
      <4> HIDE DEF n2
      <4> QED
        BY <3>2, <3>3, OpFields
    <3>5. n4 \in Ops
      <4> HIDE DEF n3
      <4> QED
        BY <3>2, <3>4, OpFields
    <3>6. [n4 EXCEPT !.active = left] \in Ops
      <4> HIDE DEF n4
      <4> QED
        BY <3>2, <3>5, OpFields
    <3>7. op' = op \/ op' = [n4 EXCEPT !.active = left]
      BY <3>1
    <3> HIDE DEF n4
    <3> QED
      BY <1>1, <3>6, <3>7
  <2> QED
    BY <1>5, <2>1, <2>2, <2>3, <2>4, <2>5 DEF Commands
<1>6. CASE TimerStarts \/ JobEnds \/ Crash \/ Reboot
  BY <1>1, <1>6 DEF TimerStarts, JobEnds, Crash, Reboot
<1> QED
  BY <1>3, <1>4, <1>5, <1>6 DEF Next

LEMMA ProcessTyped == ASSUME TypeOK, Next PROVE taken' \in BOOLEAN /\ reconcile' \in BOOLEAN /\ migrations' \in Nat
<1> USE DEF Same, Calm, Keep, Alone, Dies, Recover, BeginAs, Migrate, Registered, Leave, backups, process, installed, Command
<1>0. taken \in BOOLEAN /\ reconcile \in BOOLEAN /\ migrations \in Nat
  BY DEF TypeOK
<1>1. ASSUME taken' = taken, reconcile' = reconcile, migrations' = migrations
      PROVE  taken' \in BOOLEAN /\ reconcile' \in BOOLEAN /\ migrations' \in Nat
  BY <1>0, <1>1
<1>2. ASSUME taken' = taken, reconcile' \in BOOLEAN, migrations' = migrations
      PROVE  taken' \in BOOLEAN /\ reconcile' \in BOOLEAN /\ migrations' \in Nat
  BY <1>0, <1>2
<1>3. CASE SaveBundle
  BY <1>0, <1>3 DEF SaveBundle
<1>4. CASE MigrationBegins
  BY <1>0, <1>4 DEF MigrationBegins
<1>5. CASE \/ Gate \/ Capture \/ Recapture \/ Installed \/ PreflightFails \/ Prove \/ Activate \/ Starting \/ Undo
           \/ Hold \/ StopUnits \/ StartUnits \/ UndoStart \/ Preflight \/ Guard \/ Mark \/ FailsEarly
           \/ MigrationEnds \/ FailsLate \/ SwitchPointer \/ Unmark \/ UndoUnmark \/ HoldMark \/ HoldStop
  BY <1>1, <1>5 DEF Gate, Capture, Recapture, Installed, PreflightFails, Prove, Activate, Starting, Undo,
         Hold, StopUnits, StartUnits, UndoStart, Preflight, Guard, Mark, FailsEarly,
         MigrationEnds, FailsLate, SwitchPointer, Unmark, UndoUnmark, HoldMark, HoldStop
<1>6. CASE FinishWeb \/ \E healthy \in BOOLEAN : FinishAdmin(healthy)
  BY <1>2, <1>6 DEF FinishWeb, FinishAdmin
<1>7. CASE Operation
  BY <1>1, <1>2, <1>7 DEF Operation, Staged, Fails, Freeze, FreezeGuard, FreezeMark, FreezeStop, Point, Thaw, ThawStart,
       ThawHealthy, Forget, Attach, Swap, Adopt, Settle, Isolate
<1>8. CASE Queue \/ RunOnce \/ UpgradeApply \/ BackupCreate
  BY <1>1, <1>2, <1>8 DEF Queue, RunOnce, UpgradeApply, BackupCreate
<1>9. CASE ResumeRestore \/ ResumeBackup \/ AbortUpgrade \/ ConfirmUpgrade
  BY <1>2, <1>9 DEF ResumeRestore, ResumeBackup, AbortUpgrade, ConfirmUpgrade
<1>10. ASSUME NEW b \in Backups, RestoreStart(b)
       PROVE  taken' \in BOOLEAN /\ reconcile' \in BOOLEAN /\ migrations' \in Nat
  <2>1. reconcile' \in BOOLEAN
    BY <1>10, Zenon DEF RestoreStart
  <2> QED
    BY <1>2, <1>10, <2>1 DEF RestoreStart
<1>11. CASE TimerStarts \/ JobEnds \/ Crash \/ Reboot
  BY <1>1, <1>2, <1>11 DEF TimerStarts, JobEnds, Crash, Reboot
<1> QED
  BY <1>3, <1>4, <1>5, <1>6, <1>7, <1>8, <1>9, <1>10, <1>11 DEF Next, Upgrade, Commands

(* What a restore attaches was verified to be of one version.               *)
Sourced ==
  /\ op.kind = "backup.restore" => op.target \in Backups
  /\ op.kind = "backup.restore" /\ op.restored => op.target.version \in Versions
  /\ pc = "isolate" => op.kind = "backup.restore"
  /\ pc \in Freezing => op.kind \in {"backup.create", "backup.restore"}
  /\ pc \in Freezing /\ op.kind = "backup.restore" => op.restored
  /\ pc \in Freezing /\ op.point => op.kind = "backup.restore"
  /\ pc \in {"attach", "swap", "adopt"} => op.kind = "backup.restore" /\ op.restored

LEMMA SourcedKept == ASSUME TypeOK, Sourced, Next PROVE Sourced'
<1> USE DEF Sourced, Freezing, Same, Calm, Keep, At, Phase, OpIs, Leave, Registered, Alone, Dies, Command, BeginAs,
            MayBegin, Migrate, Stopped, Recover
<1>0. DOMAIN op = DOMAIN NoOp
  BY DEF TypeOK, Ops, NoOp
<1>1. ASSUME op' = op, pc' \notin Freezing \cup {"isolate", "attach", "swap", "adopt"} PROVE Sourced'
  BY <1>1
<1>2. ASSUME NEW p, op' = [op EXCEPT !.phase = p], pc' \notin Freezing \cup {"isolate", "attach", "swap", "adopt"} PROVE Sourced'
  BY <1>0, <1>2 DEF NoOp
<1>3. CASE Upgrade
  <2>1. ASSUME NEW healthy \in BOOLEAN, FinishAdmin(healthy) PROVE Sourced'
    BY <1>1, <1>2, <2>1 DEF FinishAdmin
  <2>2. CASE \/ Gate \/ Capture \/ Recapture \/ Installed \/ PreflightFails \/ Prove \/ Activate \/ Starting \/ Undo
             \/ Hold \/ StopUnits \/ StartUnits \/ UndoStart
    BY <1>1, <2>2 DEF Gate, Capture, Recapture, Installed, PreflightFails, Prove, Activate, Starting, Undo,
         Hold, StopUnits, StartUnits, UndoStart
  <2>3. CASE \/ Preflight \/ Guard \/ Mark \/ SaveBundle \/ FailsEarly \/ MigrationBegins \/ MigrationEnds \/ FailsLate
             \/ SwitchPointer \/ Unmark \/ UndoUnmark \/ HoldMark \/ HoldStop \/ FinishWeb
    BY <1>1, <2>3 DEF Preflight, Guard, Mark, SaveBundle, FailsEarly, MigrationBegins, MigrationEnds, FailsLate,
         SwitchPointer, Unmark, UndoUnmark, HoldMark, HoldStop, FinishWeb
  <2> QED
    BY <1>3, <2>1, <2>2, <2>3 DEF Upgrade
<1>4. CASE Operation
  <2>1. CASE Staged \/ Fails \/ Thaw \/ ThawStart \/ ThawHealthy \/ Forget
    BY <1>1, <1>2, <2>1 DEF Staged, Fails, Thaw, ThawStart, ThawHealthy, Forget
  <2>2. CASE Freeze
    BY <1>0, <2>2 DEF Freeze, NoOp
  <2>3. CASE FreezeGuard \/ FreezeMark
    BY <2>3 DEF FreezeGuard, FreezeMark
  <2>4. CASE FreezeStop
    BY <1>0, <2>4 DEF FreezeStop, NoOp
  <2>5. CASE Point
    BY <1>0, <2>5 DEF Point, NoOp
  <2>6. CASE Attach
    BY <1>0, <2>6 DEF Attach, NoOp
  <2>7. CASE Swap
    BY <1>0, <2>7 DEF Swap, NoOp
  <2>8. CASE Adopt
    BY <1>1, <2>8 DEF Adopt
  <2>9. CASE Settle
    BY <1>0, <2>9 DEF Settle, NoOp
  <2>10. ASSUME NEW ok \in BOOLEAN, Isolate(ok) PROVE Sourced'
    <3>1. CASE op.restored
      BY <2>10, <3>1 DEF Isolate
    <3>2. CASE ~op.restored /\ ok /\ op.target.version # "mixed"
      <4>1. op' = [op EXCEPT !.restored = TRUE, !.phase = "verified_restore"] /\ pc' = "freeze"
        BY <2>10, <3>2 DEF Isolate
      <4>2. op'.kind = op.kind /\ op'.target = op.target /\ op'.restored = TRUE
        BY <1>0, <4>1, Verified
      <4>3. op.kind = "backup.restore" /\ op.target \in Backups
        BY <2>10 DEF Isolate
      <4>4. op.target.version \in Versions
        BY <3>2, <4>3 DEF Backups
      <4> QED
        BY <4>1, <4>2, <4>3, <4>4
    <3>3. CASE ~((ok /\ op.target.version # "mixed") \/ op.restored)
      BY <1>2, <2>10, <3>3 DEF Isolate
    <3> QED
      BY <3>1, <3>2, <3>3
  <2> QED
    BY <1>4, <2>1, <2>2, <2>3, <2>4, <2>5, <2>6, <2>7, <2>8, <2>9, <2>10 DEF Operation
<1>5. CASE Commands
  <2>1. CASE Queue
    BY <2>1 DEF Queue
  <2>2. CASE RunOnce
    BY <1>1, <2>2 DEF RunOnce
  <2>3. ASSUME NEW k \in {"upgrade.apply", "backup.create"}, NEW q \in {"staged", "freeze"},
               q = "freeze" => k = "backup.create", BeginAs(k, q)
        PROVE  Sourced'
    <3>1. op'.kind = k /\ op'.restored = FALSE /\ op'.point = FALSE /\ pc' = q
      BY <2>3 DEF NoOp
    <3> QED
      BY <2>3, <3>1
  <2>8. CASE UpgradeApply \/ BackupCreate
    BY <2>3, <2>8 DEF UpgradeApply, BackupCreate
  <2>4. CASE ResumeRestore \/ ResumeBackup
    BY <2>4 DEF ResumeRestore, ResumeBackup
  <2>5. CASE AbortUpgrade
    BY <1>0, <2>5 DEF AbortUpgrade, NoOp
  <2>6. CASE ConfirmUpgrade
    BY <1>2, <2>6 DEF ConfirmUpgrade
  <2>7. ASSUME NEW b \in Backups, RestoreStart(b) PROVE Sourced'
    <3>1. CASE op' = op /\ op.kind = "backup.restore"
      BY <2>7, <3>1 DEF RestoreStart
    <3>2. CASE ~(Unfinished /\ op.kind = "backup.restore")
      <4>1. op' = [NoOp EXCEPT !.kind = "backup.restore", !.phase = "preparing", !.target = b,
                     !.over = journal.phase \notin Settled, !.known = journal.phase \notin Settled,
                     !.active = IF journal.phase \in Settled THEN {} ELSE journal.active] /\ pc' = "isolate"
        BY <2>7, <3>2 DEF RestoreStart
      <4>2. op'.kind = "backup.restore" /\ op'.target = b /\ op'.restored = FALSE /\ pc' = "isolate"
        BY <4>1 DEF NoOp
      <4> QED
        BY <2>7, <4>2
    <3> QED
      BY <2>7, <3>1, <3>2 DEF RestoreStart
  <2> QED
    BY <1>5, <2>1, <2>2, <2>4, <2>5, <2>6, <2>7, <2>8 DEF Commands
<1>6. CASE TimerStarts \/ JobEnds
  BY <1>6 DEF TimerStarts, JobEnds
<1>7. CASE Crash \/ Reboot
  BY <1>1, <1>7 DEF Crash, Reboot
<1> QED
  BY <1>3, <1>4, <1>5, <1>6, <1>7 DEF Next

LEMMA VersionsTyped ==
  ASSUME TypeOK, Sourced, Next PROVE code' \in Versions /\ schema' \in Versions \cup {"partial"} /\ files' \in {"whole", "mixed"}
<1> USE DEF Same, Calm, Keep, Alone, Dies, Recover, BeginAs, Migrate, Leave, installed
<1>1. CASE UNCHANGED installed
  BY <1>1 DEF TypeOK
<1>2. CASE MigrationBegins \/ MigrationEnds \/ SwitchPointer
  BY <1>2 DEF MigrationBegins, MigrationEnds, SwitchPointer, Versions, TypeOK
<1>3. CASE Attach
  BY <1>3 DEF Attach, TypeOK
<1>4. CASE Swap \/ Adopt
  <2>1. op.target.version \in Versions
    BY <1>4 DEF Sourced, Swap, Adopt, At
  <2> QED
    BY <1>4, <2>1 DEF Swap, Adopt, TypeOK
<1>5. CASE \/ Gate \/ Capture \/ Recapture \/ Installed \/ PreflightFails \/ Prove \/ Activate \/ Starting \/ Undo
           \/ Hold \/ StopUnits \/ StartUnits \/ UndoStart \/ Preflight \/ Guard \/ Mark \/ FailsEarly \/ SaveBundle
           \/ FailsLate \/ Unmark \/ UndoUnmark \/ HoldMark \/ HoldStop \/ FinishWeb
           \/ \E healthy \in BOOLEAN : FinishAdmin(healthy)
  BY <1>1, <1>5 DEF Gate, Capture, Recapture, Installed, PreflightFails, Prove, Activate, Starting, Undo, SaveBundle,
         Hold, StopUnits, StartUnits, UndoStart, Preflight, Guard, Mark, FailsEarly, FinishWeb, FinishAdmin,
         FailsLate, Unmark, UndoUnmark, HoldMark, HoldStop
<1>6. CASE \/ Staged \/ Fails \/ Freeze \/ FreezeGuard \/ FreezeMark \/ FreezeStop \/ Point \/ Thaw \/ ThawStart
           \/ ThawHealthy \/ Forget \/ Settle \/ \E ok \in BOOLEAN : Isolate(ok)
  BY <1>1, <1>6 DEF Staged, Fails, Freeze, FreezeGuard, FreezeMark, FreezeStop, Point, Thaw, ThawStart,
       ThawHealthy, Forget, Settle, Isolate
<1>7. CASE Commands
  BY <1>1, <1>7 DEF Commands, Queue, RunOnce, UpgradeApply, BackupCreate, ResumeRestore, ResumeBackup, AbortUpgrade,
       ConfirmUpgrade, RestoreStart
<1>8. CASE TimerStarts \/ JobEnds \/ Crash \/ Reboot
  BY <1>1, <1>8 DEF TimerStarts, JobEnds, Crash, Reboot
<1> QED
  BY <1>2, <1>3, <1>4, <1>5, <1>6, <1>7, <1>8 DEF Next, Upgrade, Operation

LEMMA RowTyped ==
  ASSUME TypeOK, Sourced, Next PROVE row' \in Rows /\ marker' \in BOOLEAN /\ guarded' \in BOOLEAN
<1> USE DEF Same, Calm, Keep, Alone, Dies, Recover, BeginAs, Migrate, Leave
<1>0. row \in Rows /\ marker \in BOOLEAN /\ guarded \in BOOLEAN
  BY DEF TypeOK
<1>1. CASE UNCHANGED <<row, marker, guarded>>
  BY <1>0, <1>1
<1>2. CASE Guard \/ Mark \/ Unmark \/ UndoUnmark \/ UndoStart \/ HoldMark
  BY <1>0, <1>2 DEF Guard, Mark, Unmark, UndoUnmark, UndoStart, HoldMark
<1>3. CASE Staged \/ FreezeGuard \/ FreezeMark \/ Thaw
  BY <1>0, <1>3 DEF Staged, FreezeGuard, FreezeMark, Thaw
<1>4. CASE Swap
  <2>1. op.target.row \in Rows
    BY <1>4 DEF Sourced, Swap, At, Backups
  <2> QED
    BY <1>0, <1>4, <2>1 DEF Swap
<1>5. CASE FinishWeb \/ Queue \/ RunOnce
  BY <1>0, <1>5 DEF FinishWeb, Queue, RunOnce, Rows
<1>6. CASE \/ Gate \/ Capture \/ Recapture \/ Installed \/ PreflightFails \/ Prove \/ Activate \/ Starting \/ Undo
           \/ Hold \/ StopUnits \/ StartUnits \/ Preflight \/ FailsEarly \/ SaveBundle \/ MigrationBegins
           \/ MigrationEnds \/ SwitchPointer \/ FailsLate \/ HoldStop \/ \E healthy \in BOOLEAN : FinishAdmin(healthy)
  BY <1>1, <1>6 DEF Gate, Capture, Recapture, Installed, PreflightFails, Prove, Activate, Starting, Undo, SaveBundle,
         Hold, StopUnits, StartUnits, Preflight, FailsEarly, FinishAdmin, MigrationBegins, MigrationEnds,
         SwitchPointer, FailsLate, HoldStop
<1>7. CASE \/ Fails \/ Freeze \/ FreezeStop \/ Point \/ ThawStart \/ ThawHealthy \/ Forget \/ Attach \/ Adopt \/ Settle
           \/ \E ok \in BOOLEAN : Isolate(ok)
  BY <1>1, <1>7 DEF Fails, Freeze, FreezeStop, Point, ThawStart, ThawHealthy, Forget, Attach, Adopt, Settle, Isolate
<1>8. CASE \/ UpgradeApply \/ BackupCreate \/ ResumeRestore \/ ResumeBackup \/ AbortUpgrade \/ ConfirmUpgrade
           \/ \E b \in Backups : RestoreStart(b)
  BY <1>1, <1>8 DEF UpgradeApply, BackupCreate, ResumeRestore, ResumeBackup, AbortUpgrade, ConfirmUpgrade, RestoreStart
<1>9. CASE TimerStarts \/ JobEnds \/ Crash \/ Reboot
  BY <1>1, <1>9 DEF TimerStarts, JobEnds, Crash, Reboot
<1> QED
  BY <1>2, <1>3, <1>4, <1>5, <1>6, <1>7, <1>8, <1>9 DEF Next, Upgrade, Operation, Commands

LEMMA BackupsTyped ==
  ASSUME TypeOK, Next PROVE catalog' \subseteq Backups /\ bundle' \in Backups \cup {NoBackup}
<1> USE DEF Same, Calm, Keep, Alone, Dies, Recover, BeginAs, Migrate, Leave, backups
<1>0. catalog \subseteq Backups /\ bundle \in Backups \cup {NoBackup} /\ Here \in Backups
  BY DEF TypeOK, Here, Backups
<1> HIDE DEF Backups, Here
<1>1. CASE UNCHANGED <<catalog, bundle>>
  BY <1>0, <1>1
<1>2. CASE Registered
  BY <1>0, <1>2 DEF Registered
<1>3. CASE SaveBundle \/ Point \/ Staged
  BY <1>0, <1>3 DEF SaveBundle, Point, Staged
<1>4. CASE \/ Gate \/ Capture \/ Recapture \/ Installed \/ PreflightFails \/ Prove \/ Activate \/ Starting \/ Undo
           \/ Hold \/ StopUnits \/ StartUnits \/ UndoStart \/ Preflight \/ Guard \/ Mark \/ FailsEarly
           \/ MigrationBegins \/ MigrationEnds \/ SwitchPointer
           \/ FailsLate \/ Unmark \/ UndoUnmark \/ HoldMark \/ HoldStop \/ FinishWeb
  BY <1>1, <1>4 DEF Gate, Capture, Recapture, Installed, PreflightFails, Prove, Activate, Starting, Undo,
         Hold, StopUnits, StartUnits, UndoStart, Preflight, Guard, Mark, FailsEarly, FinishWeb, MigrationBegins,
         MigrationEnds, SwitchPointer, FailsLate, Unmark, UndoUnmark, HoldMark, HoldStop
<1>5. CASE \E healthy \in BOOLEAN : FinishAdmin(healthy)
  BY <1>2, <1>5 DEF FinishAdmin
<1>6. CASE \/ Fails \/ Freeze \/ FreezeGuard \/ FreezeMark \/ FreezeStop \/ Thaw \/ ThawStart
           \/ ThawHealthy \/ Forget \/ Attach \/ Swap \/ Adopt \/ Settle \/ \E ok \in BOOLEAN : Isolate(ok)
  BY <1>1, <1>6 DEF Fails, Freeze, FreezeGuard, FreezeMark, FreezeStop, Thaw, ThawStart,
       ThawHealthy, Forget, Attach, Swap, Adopt, Settle, Isolate
<1>7. CASE \/ Queue \/ RunOnce \/ UpgradeApply \/ BackupCreate \/ ResumeRestore \/ ResumeBackup
           \/ \E b \in Backups : RestoreStart(b)
  BY <1>1, <1>7 DEF Queue, RunOnce, UpgradeApply, BackupCreate, ResumeRestore, ResumeBackup, RestoreStart
<1>8. CASE AbortUpgrade \/ ConfirmUpgrade
  BY <1>2, <1>8 DEF AbortUpgrade, ConfirmUpgrade
<1>9. CASE TimerStarts \/ JobEnds \/ Crash \/ Reboot
  BY <1>1, <1>9 DEF TimerStarts, JobEnds, Crash, Reboot
<1> QED
  BY <1>3, <1>4, <1>5, <1>6, <1>7, <1>8, <1>9 DEF Next, Upgrade, Operation, Commands

LEMMA UnitsTyped == ASSUME TypeOK, Next PROVE running' \subseteq Unit /\ quiet' \in BOOLEAN
<1> USE DEF Same, Calm, Keep, Alone, Dies, Recover, BeginAs, Migrate, Leave, units
<1>0. /\ running \subseteq Unit /\ quiet \in BOOLEAN
      /\ journal.active \subseteq Unit /\ op.active \subseteq Unit
  BY DEF TypeOK, Journals, Ops
<1>1. CASE UNCHANGED units
  BY <1>0, <1>1
<1>2. ASSUME NEW us \in SUBSET Unit, Runs(us) PROVE running' \subseteq Unit /\ quiet' \in BOOLEAN
  BY <1>0, <1>2 DEF Runs
<1>3. CASE StopUnits \/ StartUnits \/ UndoStart \/ HoldStop
  <2>1. \E us \in SUBSET Unit : Runs(us)
    BY <1>0, <1>3 DEF StopUnits, StartUnits, UndoStart, HoldStop
  <2> QED
    BY <1>2, <2>1
<1>4. CASE FreezeStop \/ ThawStart
  <2>1. \E us \in SUBSET Unit : Runs(us)
    BY <1>0, <1>4 DEF FreezeStop, ThawStart
  <2> QED
    BY <1>2, <2>1
<1>5. CASE TimerStarts \/ JobEnds \/ Reboot
  <2>1. \E us \in SUBSET Unit : Runs(us)
    BY <1>0, <1>5 DEF TimerStarts, JobEnds, Reboot, Unit
  <2> QED
    BY <1>2, <2>1
<1>6. CASE SaveBundle \/ Point
  BY <1>0, <1>6 DEF SaveBundle, Point
<1>7. CASE \/ Gate \/ Capture \/ Recapture \/ Installed \/ PreflightFails \/ Prove \/ Activate \/ Starting \/ Undo
           \/ Hold \/ Preflight \/ Guard \/ Mark \/ FailsEarly \/ MigrationBegins \/ MigrationEnds \/ SwitchPointer
           \/ FailsLate \/ Unmark \/ UndoUnmark \/ HoldMark \/ FinishWeb
           \/ \E healthy \in BOOLEAN : FinishAdmin(healthy)
  BY <1>1, <1>7 DEF Gate, Capture, Recapture, Installed, PreflightFails, Prove, Activate, Starting, Undo,
         Hold, Preflight, Guard, Mark, FailsEarly, FinishWeb, FinishAdmin, MigrationBegins,
         MigrationEnds, SwitchPointer, FailsLate, Unmark, UndoUnmark, HoldMark
<1>8. CASE \/ Staged \/ Fails \/ Freeze \/ FreezeGuard \/ FreezeMark \/ Thaw
           \/ ThawHealthy \/ Forget \/ Attach \/ Swap \/ Adopt \/ Settle \/ \E ok \in BOOLEAN : Isolate(ok)
  BY <1>1, <1>8 DEF Staged, Fails, Freeze, FreezeGuard, FreezeMark, Thaw,
       ThawHealthy, Forget, Attach, Swap, Adopt, Settle, Isolate
<1>9. CASE Commands
  BY <1>1, <1>9 DEF Commands, Queue, RunOnce, UpgradeApply, BackupCreate, ResumeRestore, ResumeBackup, AbortUpgrade,
       ConfirmUpgrade, RestoreStart
<1>10. CASE Crash
  BY <1>1, <1>10 DEF Crash
<1> QED
  BY <1>3, <1>4, <1>5, <1>6, <1>7, <1>8, <1>9, <1>10 DEF Next, Upgrade, Operation

LEMMA TypeKept == ASSUME TypeOK, Sourced, Next PROVE TypeOK' /\ Sourced'
<1>1. journal' \in Journals /\ op' \in Ops
  BY JournalKept, OpKept
<1>2. taken' \in BOOLEAN /\ reconcile' \in BOOLEAN /\ migrations' \in Nat
  BY ProcessTyped
<1> QED
  BY <1>1, <1>2, SourcedKept, VersionsTyped, RowTyped, BackupsTyped, UnitsTyped DEF TypeOK

LEMMA InitTyped == Init => TypeOK /\ Sourced
<1>1. Init => journal \in Journals
  BY DEF Init, Journals, Versions
<1>2. Init => op \in Ops
  BY OpNew DEF Init
<1>3. Init => catalog \subseteq Backups
  BY DEF Init, Backups, Versions, Rows
<1>4. Init => /\ row \in Rows /\ marker \in BOOLEAN /\ guarded \in BOOLEAN /\ running \subseteq Unit
              /\ code \in Versions /\ schema \in Versions \cup {"partial"} /\ files \in {"whole", "mixed"}
  BY DEF Init, Versions, Rows
<1>5. Init => bundle \in Backups \cup {NoBackup} /\ migrations \in Nat
  BY DEF Init
<1>6. Init => taken \in BOOLEAN /\ reconcile \in BOOLEAN /\ quiet \in BOOLEAN
  BY Zenon DEF Init
<1>7. Init => Sourced
  BY DEF Init, Sourced, NoOp, Freezing
<1> QED
  BY <1>1, <1>2, <1>3, <1>4, <1>5, <1>6, <1>7 DEF TypeOK

LEMMA TypeRests == ASSUME TypeOK, Sourced, UNCHANGED maintVars PROVE TypeOK' /\ Sourced'
BY DEF TypeOK, Sourced, maintVars, installed, backups, process, units, bounds

----------------------------------------------------------------------------
(* THEOREMS *)

LEMMA Invariant == Spec /\ Apart => []IInv
BY InitIInv, IInvKept, PTL DEF Spec, Apart

(* The row of a plan is migrated once, however often its command is given,  *)
(* dies or is aborted: run_upgrade refuses a plan whose backup exists.      *)
THEOREM MigratesAtMostOnce == Spec => []MigratesOnce
BY InitIInv, OnceKept, InvSafe, PTL DEF Spec

(* Unless the web's upgrade begins beside an unfinished operation, whatever *)
(* runs, after any number of reboots and commands, finds code, schema and   *)
(* files of one version.                                                    *)
THEOREM RunsMatched == Spec /\ Apart => []NothingRunsUnmatched
BY Invariant, InvSafe, PTL

(* Unless the web's upgrade begins beside an unfinished operation, every    *)
(* step of an upgrade, a backup, a restore, a recovery, a crash or a reboot *)
(* is one that Installation permits, or leaves what it speaks of.           *)
THEOREM Implements == Spec /\ Apart => ImplementsInstallation
BY InitMaps, StepMaps, Invariant, PTL DEF Spec, Apart, ImplementsInstallation, Promise!Spec, Shown

(* Every state has its type, the web's upgrade beside an unfinished         *)
(* operation included: what an operation and the journal record, and what   *)
(* the installation and the process hold, at every step, death and reboot.  *)
THEOREM TypeCorrect == Spec => []TypeOK
<1>1. TypeOK /\ Sourced /\ [Next]_maintVars => TypeOK' /\ Sourced'
  BY TypeRests, TypeKept
<1> QED
  BY <1>1, InitTyped, PTL DEF Spec
============================================================================

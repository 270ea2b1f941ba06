----------------------------- MODULE MediaLibrary -----------------------------
(***************************************************************************)
(* One piece of audio on its way through the library of a station: drafts   *)
(* of it in an import workspace and direct uploads, the one worker that     *)
(* prepares, ingests, analyses, verifies and deletes, the browser that      *)
(* changes the song meanwhile, and the automation that hands it to the      *)
(* engine.  All uploads here are of the same bytes, so there is at most one *)
(* song.  A step of the worker ends at its commits and where it looks at    *)
(* the database again; what takes it long lies between two steps.           *)
(***************************************************************************)
EXTENDS Naturals, FiniteSets

CONSTANTS
  Upload,       \* uploads of the audio: drafts or direct ones
  MaxRequests,  \* bound: what browsers ask for
  MaxFaults     \* bound: deaths of a process, and operations that fail

VARIABLES
  draft,    \* state of a draft in the workspace; "none" for a direct upload
  staged,   \* uploads whose bytes are in the staging directory
  job,      \* state of the ingest job of an upload
  aged,     \* the workspace was last touched seven days ago
  song, audio,        \* the row of the song, and its file
  check, erase,       \* the job that verifies or enables the song, and the one that deletes it
  picked, row, cancel, queued,  \* the automation's choice, its decision, the cancellation, the engine's queue
  broadcast,  \* of the station: ON is wanted, the engine runs; a deletion was let through while OFF
  lock,     \* who holds the row of the workspace
  work,     \* the ingest worker: where it is, the upload, and what it read
  asked, faults

workspace == <<draft, staged, job, aged, lock>>
catalog   == <<song, audio, check, erase>>
playback  == <<picked, row, cancel, queued, broadcast>>
mediaVars == <<workspace, catalog, playback, work, asked, faults>>

Attempts == 3
Waiting  == {"pending", "processing"}
NoSong == [there |-> FALSE, on |-> FALSE, auto |-> FALSE, retired |-> FALSE, deleted |-> FALSE,
           cue |-> "none", edited |-> FALSE, state |-> "pending", asked |-> FALSE, tries |-> 0]
Idle   == [pc |-> "idle", of |-> "none", retired |-> FALSE, edited |-> FALSE]

Init ==
  /\ draft = [u \in Upload |-> "none"] /\ staged = {} /\ job = [u \in Upload |-> "none"] /\ aged = FALSE
  /\ song = NoSong /\ audio = FALSE /\ check = [kind |-> "none", state |-> "none"] /\ erase = "none"
  /\ picked = FALSE /\ row = FALSE /\ cancel = "none" /\ queued = FALSE
  /\ broadcast = [wanted |-> TRUE, runs |-> TRUE, overruled |-> FALSE]
  /\ lock = "none" /\ work = Idle /\ asked = 0 /\ faults = 0

Asks  == asked < MaxRequests /\ asked' = asked + 1 /\ UNCHANGED <<playback, work, faults>>
Fault == faults < MaxFaults /\ faults' = faults + 1
Quiet == UNCHANGED <<asked, faults>>

----------------------------------------------------------------------------
(* THE IMPORT WORKSPACE, IN A BROWSER *)

New(u) == draft[u] = "none" /\ job[u] = "none" /\ u \notin staged
(* stage holds the workspace from its first byte to the commit.             *)
Stage(u) ==
  /\ New(u) /\ lock = "none" /\ lock' = u /\ staged' = staged \cup {u} /\ Asks
  /\ UNCHANGED <<draft, job, aged, catalog>>
StageCommits(u) ==
  /\ lock = u /\ lock' = "none" /\ draft' = [draft EXCEPT ![u] = "pending"] /\ aged' = FALSE
  /\ UNCHANGED <<staged, job, catalog, playback, work>> /\ Quiet
(* A failure removes the bytes; a death leaves them without a row.          *)
StageFails(u) ==
  /\ lock = u /\ Fault /\ lock' = "none" /\ staged' \in {staged, staged \ {u}}
  /\ UNCHANGED <<draft, job, aged, catalog, playback, work, asked>>
DirectUpload(u) ==
  /\ New(u) /\ Asks /\ staged' = staged \cup {u} /\ job' = [job EXCEPT ![u] = "pending"]
  /\ UNCHANGED <<draft, aged, lock, catalog>>
Edits == lock = "none" /\ Asks /\ aged' = FALSE /\ UNCHANGED <<staged, lock, catalog>>
Dismiss(u) ==
  /\ draft[u] \in {"pending", "preparing", "ready", "failed"} /\ Edits
  /\ draft' = [draft EXCEPT ![u] = "cancelled"] /\ UNCHANGED job
RetryJob(u) ==
  /\ draft[u] = "finalized" /\ job[u] \in {"error", "rejected"}
  /\ Edits /\ (u \in staged \/ (song.there /\ ~song.deleted))
  /\ job' = [job EXCEPT ![u] = "pending"] /\ UNCHANGED draft
RetryPreparation(u) ==
  /\ draft[u] = "failed" /\ Edits /\ draft' = [draft EXCEPT ![u] = "pending"] /\ UNCHANGED job
(* choices of the group are saved with the revision.                        *)
Save(u) == draft[u] \in {"ready", "failed"} /\ aged /\ Edits /\ UNCHANGED <<draft, job>>
Finalize(u) ==
  /\ draft[u] = "ready" /\ Edits
  /\ draft' = [draft EXCEPT ![u] = "finalized"] /\ job' = [job EXCEPT ![u] = "pending"]
WeekPasses ==
  /\ ~aged /\ lock = "none" /\ (\E u \in Upload : draft[u] # "none") /\ aged' = TRUE /\ Asks
  /\ UNCHANGED <<draft, staged, job, lock, catalog>>

----------------------------------------------------------------------------
(* THE SONG, IN A BROWSER *)

Shown == song.there /\ ~song.deleted
OnSong(changed) == Shown /\ Asks /\ song' = changed /\ UNCHANGED <<workspace, audio, check, erase>>
Disable == OnSong([song EXCEPT !.on = FALSE, !.auto = FALSE])
EnableNow ==
  /\ ~song.retired /\ song.state = "complete" /\ ~song.on
  /\ OnSong([song EXCEPT !.on = TRUE, !.auto = FALSE])
Decommission == ~song.retired /\ OnSong([song EXCEPT !.retired = TRUE, !.on = FALSE, !.auto = FALSE])
SaveAudio == ~song.retired /\ OnSong([song EXCEPT !.cue = "operator", !.edited = TRUE])
RequestAnalysis ==
  /\ ~song.retired /\ song.state # "processing" /\ ~song.asked
  /\ OnSong([song EXCEPT !.state = "pending", !.asked = TRUE, !.tries = 0])
QueueCheck(kind) ==
  /\ Shown /\ (kind = "enable" => ~song.retired) /\ check.state \notin Waiting /\ Asks
  /\ check' = [kind |-> kind, state |-> "pending"] /\ UNCHANGED <<workspace, song, audio, erase>>
(* The references go, the song is out of every choice, and each decision of *)
(* it is to be cancelled, under the lock of the handoff.                    *)
Condemned == [song EXCEPT !.on = FALSE, !.auto = FALSE, !.asked = FALSE, !.retired = TRUE, !.deleted = TRUE]
QueueDelete ==
  /\ Shown /\ asked < MaxRequests /\ asked' = asked + 1
  /\ song' = Condemned /\ erase' = "pending" /\ cancel' = IF row /\ cancel = "none" THEN "open" ELSE cancel
  /\ UNCHANGED <<workspace, audio, check, picked, row, queued, broadcast, work, faults>>
RetryDelete ==
  /\ song.there /\ erase \in {"error", "rejected"} /\ Asks /\ erase' = "pending"
  /\ UNCHANGED <<workspace, song, audio, check>>

----------------------------------------------------------------------------
(* THE BROADCAST AND THE AUTOMATION *)

(* A browser sets what is wanted; the job of root follows later, and with   *)
(* the engine goes its queue.                                               *)
Switch ==
  /\ asked < MaxRequests /\ asked' = asked + 1 /\ broadcast' = [broadcast EXCEPT !.wanted = ~@]
  /\ UNCHANGED <<workspace, catalog, picked, row, cancel, queued, work, faults>>
Follow ==
  /\ broadcast.runs # broadcast.wanted /\ broadcast' = [broadcast EXCEPT !.runs = ~@] /\ queued' = FALSE
  /\ UNCHANGED <<workspace, catalog, picked, row, cancel, work>> /\ Quiet

Playable == song.there /\ song.on /\ ~song.retired /\ ~song.deleted
Accepts  == broadcast.runs /\ Playable /\ audio
Auto == UNCHANGED <<workspace, catalog, broadcast, work>> /\ Quiet
(* A pass begins only while ON is wanted, and ends what it chose also after. *)
Pick ==
  /\ broadcast.wanted /\ ~picked /\ ~queued /\ cancel # "open" /\ Playable /\ audio /\ picked' = TRUE
  /\ UNCHANGED <<row, cancel, queued>> /\ Auto
Commit == picked /\ ~row /\ row' = TRUE /\ UNCHANGED <<picked, cancel, queued>> /\ Auto
(* Mutant: the handoff trusts the object that was read when it was chosen.  *)
HandOffRead == picked /\ row /\ picked' = FALSE /\ queued' = broadcast.runs /\ UNCHANGED <<row, cancel>> /\ Auto
HandOff ==
  /\ picked /\ row /\ picked' = FALSE /\ queued' = Accepts /\ UNCHANGED <<row, cancel>> /\ Auto
Plays == queued /\ queued' = FALSE /\ UNCHANGED <<picked, row, cancel>> /\ Auto
(* The engine removes at its next frame: it is asked until it has.          *)
Cancelling == broadcast.wanted /\ cancel = "open" /\ ~picked
Clear == Cancelling /\ queued /\ queued' = FALSE /\ UNCHANGED <<picked, row, cancel>> /\ Auto
Acknowledge == Cancelling /\ ~queued /\ cancel' = "done" /\ UNCHANGED <<picked, row, queued>> /\ Auto
AutomationDies ==
  /\ picked /\ Fault /\ picked' = FALSE /\ queued' \in {queued, queued \/ (row /\ Accepts)}
  /\ UNCHANGED <<row, cancel, broadcast, workspace, catalog, work, asked>>

----------------------------------------------------------------------------
(* THE INGEST WORKER: analysis *)

At(pc)      == work.pc = pc
Turns(next) == work' = [work EXCEPT !.pc = next]
Rests       == work' = Idle
Stays       == UNCHANGED <<workspace, playback>> /\ Quiet
Unclaimed   == {u \in Upload : job[u] = "pending"}

Due(requested) ==
  /\ Shown /\ ~song.retired /\ song.asked = requested /\ song.state \in {"pending", "failed"} /\ song.tries < Attempts
Analyse(requested) ==
  /\ At("idle") /\ Due(requested)
  /\ requested \/ (erase # "pending" /\ check.state # "pending" /\ Unclaimed = {} /\ \A u \in Upload : draft[u] # "pending")
  /\ song' = [song EXCEPT !.state = "processing", !.tries = @ + 1, !.asked = FALSE]
  /\ work' = [Idle EXCEPT !.pc = "analysing", !.edited = song.edited]
  /\ UNCHANGED <<audio, check, erase>> /\ Stays
(* Boundaries go only where nobody set any; the import's intent to enable   *)
(* is carried out only if it still stands.                                  *)
Measured(wasEdited) ==
  LET found == [song EXCEPT !.state = "complete", !.cue = IF ~wasEdited /\ (~song.edited => @ = "none") THEN "found" ELSE @]
  IN IF song.auto /\ ~song.retired /\ ~song.deleted THEN [found EXCEPT !.on = TRUE, !.auto = FALSE] ELSE found
(* Mutant: what was saved while the analysis ran is not looked at.          *)
AnalysedStale ==
  /\ At("analysing") /\ audio /\ Rests /\ song' = Measured(work.edited) /\ UNCHANGED <<audio, check, erase>> /\ Stays
Analysed ==
  /\ At("analysing") /\ audio /\ Rests /\ song' = Measured(song.edited) /\ UNCHANGED <<audio, check, erase>> /\ Stays
AnalysisFails ==
  /\ At("analysing") /\ Rests /\ song' = [song EXCEPT !.state = "failed"]
  /\ UNCHANGED <<workspace, playback, audio, check, erase, asked>>
  /\ IF audio THEN Fault ELSE UNCHANGED faults

----------------------------------------------------------------------------
(* THE INGEST WORKER: jobs, deletions first *)

(* An open cancellation holds a deletion back only on a station whose ON is *)
(* wanted: playback_cleanup_pending does not wait for the engine to stop.   *)
MayErase == erase = "pending" /\ (song.there /\ broadcast.wanted => cancel # "open")
Claims(pc, u) == At("idle") /\ ~Due(TRUE) /\ work' = [Idle EXCEPT !.pc = pc, !.of = u]
ClaimErase ==
  /\ MayErase /\ Claims("erase", "none") /\ erase' = "processing"
  /\ broadcast' = [broadcast EXCEPT !.overruled = @ \/ cancel = "open"]
  /\ UNCHANGED <<song, audio, check, workspace, picked, row, cancel, queued>> /\ Quiet
(* The song is read here, and not again before the job is done.             *)
ClaimCheck ==
  /\ ~MayErase /\ check.state = "pending" /\ At("idle") /\ ~Due(TRUE)
  /\ work' = [Idle EXCEPT !.pc = "check", !.retired = song.retired]
  /\ check' = [check EXCEPT !.state = "processing"] /\ UNCHANGED <<song, audio, erase>> /\ Stays
ClaimIngest(u) ==
  /\ ~MayErase /\ job[u] = "pending" /\ Claims("ingest", u) /\ job' = [job EXCEPT ![u] = "processing"]
  /\ UNCHANGED <<draft, staged, aged, lock, catalog, playback>> /\ Quiet

Checked(state) ==
  /\ At("check") /\ Rests /\ check' = [check EXCEPT !.state = state] /\ UNCHANGED <<audio, erase>> /\ UNCHANGED <<workspace, playback, asked>>
Verified ==
  /\ song.there /\ audio /\ (check.kind = "enable" => ~work.retired) /\ Checked("accepted") /\ UNCHANGED faults
  /\ song' = IF check.kind = "enable" THEN [song EXCEPT !.on = TRUE, !.auto = FALSE] ELSE song
CheckFails(state) ==
  /\ Checked(state) /\ UNCHANGED song
  /\ IF song.there /\ audio /\ (check.kind = "enable" => ~work.retired) THEN Fault ELSE UNCHANGED faults

Settles(u, outcome) == job' = [job EXCEPT ![u] = outcome] /\ Turns("tidy") /\ UNCHANGED <<draft, staged, aged, lock, playback>> /\ Quiet
(* Bytes that are gone are those of a song an older attempt committed.      *)
Recovered(u) ==
  /\ At("ingest") /\ work.of = u /\ draft[u] # "none" /\ u \notin staged /\ Shown /\ audio
  /\ Settles(u, "duplicate") /\ UNCHANGED catalog
(* The checksum finds every row, also the one that waits for its deletion.  *)
Duplicate(u) ==
  /\ At("ingest") /\ work.of = u /\ u \in staged /\ song.there /\ Settles(u, "duplicate") /\ UNCHANGED catalog
IngestCommits(u) ==
  /\ At("ingest") /\ work.of = u /\ u \in staged /\ ~song.there /\ Turns("settle")
  /\ song' = [NoSong EXCEPT !.there = TRUE, !.auto = TRUE] /\ audio' = TRUE /\ UNCHANGED <<check, erase>> /\ Stays
IngestSettles(u) ==
  /\ At("settle") /\ work.of = u /\ Settles(u, "accepted") /\ UNCHANGED <<audio, check, erase>>
  /\ song' = IF song.there THEN [song EXCEPT !.state = "pending"] ELSE song
IngestFails(u, outcome) ==
  /\ At("ingest") /\ work.of = u /\ job' = [job EXCEPT ![u] = outcome] /\ Turns("tidy")
  /\ UNCHANGED <<draft, staged, aged, lock, playback, catalog, asked>>
  /\ IF u \in staged \/ (draft[u] # "none" /\ Shown /\ audio) THEN Fault ELSE UNCHANGED faults
(* Only a durable result lets go of the source.                             *)
Tidy(u) ==
  /\ At("tidy") /\ work.of = u /\ Rests
  /\ staged' = IF draft[u] # "none" /\ job[u] \in {"error", "rejected"} THEN staged ELSE staged \ {u}
  /\ UNCHANGED <<draft, job, aged, lock, catalog, playback>> /\ Quiet

EraseFiles == At("erase") /\ song.there /\ audio /\ audio' = FALSE /\ UNCHANGED <<work, song, check, erase>> /\ Stays
Linked(u) == job[u] \in {"accepted", "duplicate"}
Erased ==
  /\ At("erase") /\ ~audio /\ Rests /\ erase' = "accepted" /\ song' = NoSong /\ UNCHANGED audio
  /\ check' = IF song.there /\ check.state \in Waiting THEN [check EXCEPT !.state = "rejected"] ELSE check
  /\ staged' = {u \in staged : song.there => ~Linked(u)}
  /\ draft' = [u \in Upload |-> IF song.there /\ Linked(u) THEN "none" ELSE draft[u]]
  /\ row' = (row /\ ~song.there) /\ cancel' = IF song.there THEN "none" ELSE cancel
  /\ UNCHANGED <<job, aged, lock, picked, queued, broadcast>> /\ Quiet
EraseFails ==
  /\ At("erase") /\ Fault /\ Rests /\ erase' = "error" /\ UNCHANGED <<song, audio, check, workspace, playback, asked>>

----------------------------------------------------------------------------
(* THE INGEST WORKER: preparation and expiry of drafts *)

Draft(u, state) == draft' = [draft EXCEPT ![u] = state] /\ UNCHANGED <<job, aged, catalog, playback>>
Prepare(u) ==
  /\ ~MayErase /\ check.state # "pending" /\ Unclaimed = {} /\ draft[u] = "pending" /\ Claims("prepare", u)
  /\ Draft(u, "preparing") /\ UNCHANGED <<staged, lock>> /\ Quiet
(* A cancellation meanwhile wins: the workspace is locked and read again.   *)
Prepared(u) ==
  /\ At("prepare") /\ work.of = u /\ u \in staged /\ lock = "none" /\ Rests
  /\ Draft(u, IF draft[u] = "preparing" THEN "ready" ELSE draft[u]) /\ UNCHANGED <<staged, lock>> /\ Quiet
PreparationBreaks(u) ==
  /\ At("prepare") /\ work.of = u /\ UNCHANGED <<workspace, catalog, playback, asked>>
  /\ Turns(IF draft[u] = "preparing" THEN "unprepared" ELSE "idle")
  /\ IF u \in staged THEN Fault ELSE UNCHANGED faults
PreparationFails(u) ==
  /\ At("unprepared") /\ work.of = u /\ Rests /\ Draft(u, "failed") /\ UNCHANGED <<staged, lock>> /\ Quiet

(* One transaction, but the bytes go before it commits.                     *)
Lapsed(u) == draft[u] \in {"pending", "preparing", "ready", "failed"} /\ aged /\ lock = "none"
Disposable(u) ==
  \/ draft[u] \in {"cancelled", "expired"} \/ Lapsed(u)
  \/ draft[u] = "finalized" /\ job[u] \notin Waiting /\ (job[u] \in {"error", "rejected"} => aged)
  \/ draft[u] = "none" /\ job[u] \notin Waiting /\ lock # u
CleanUp ==
  /\ At("idle") /\ \E u \in staged : Disposable(u)
  /\ staged' = {u \in staged : ~Disposable(u)}
  /\ draft' = [u \in Upload |-> IF Lapsed(u) THEN "expired" ELSE draft[u]]
  /\ UNCHANGED <<job, aged, lock, catalog, playback, work>> /\ Quiet
CleanUpBreaks ==
  /\ At("idle") /\ (\E u \in staged : Disposable(u)) /\ Fault
  /\ staged' \in {{u \in staged : ~Disposable(u) \/ u \in left} : left \in SUBSET staged}
  /\ UNCHANGED <<draft, job, aged, lock, catalog, playback, work, asked>>

(* main looks at what a death left, before its first pass.                  *)
Again(state) == IF state = "processing" THEN "pending" ELSE state
(* Mutant: what was in work when the worker died is not taken up again.     *)
DiesForgetful == work.pc # "idle" /\ Fault /\ Rests /\ UNCHANGED <<workspace, catalog, playback, asked>>
Dies ==
  /\ work.pc # "idle" /\ Fault /\ Rests
  /\ job' = [u \in Upload |-> Again(job[u])] /\ erase' = Again(erase) /\ check' = [check EXCEPT !.state = Again(@)]
  /\ draft' = [u \in Upload |-> IF draft[u] = "preparing" THEN "pending" ELSE draft[u]]
  /\ song' = IF song.state # "processing" THEN song
             ELSE [song EXCEPT !.state = IF song.tries >= Attempts THEN "failed" ELSE "pending"]
  /\ UNCHANGED <<staged, aged, lock, audio, playback, asked>>

Worker ==
  \/ \E requested \in BOOLEAN : Analyse(requested)
  \/ Analysed \/ AnalysisFails \/ ClaimErase \/ ClaimCheck \/ Verified \/ (\E state \in {"rejected", "error"} : CheckFails(state))
  \/ EraseFiles \/ Erased \/ EraseFails
  \/ \E u \in Upload :
       \/ ClaimIngest(u) \/ Recovered(u) \/ Duplicate(u) \/ IngestCommits(u) \/ IngestSettles(u) \/ Tidy(u)
       \/ (\E outcome \in {"rejected", "error"} : IngestFails(u, outcome))
       \/ Prepare(u) \/ Prepared(u) \/ PreparationBreaks(u) \/ PreparationFails(u)
Broadcast  == Switch \/ Follow
Automation == Pick \/ Commit \/ HandOff \/ Clear \/ Acknowledge
Browser ==
  \/ \E u \in Upload :
       \/ Stage(u) \/ StageCommits(u) \/ StageFails(u) \/ DirectUpload(u) \/ Dismiss(u) \/ RetryJob(u)
       \/ RetryPreparation(u) \/ Save(u) \/ Finalize(u)
  \/ WeekPasses \/ Disable \/ EnableNow \/ Decommission \/ SaveAudio \/ RequestAnalysis
  \/ (\E kind \in {"verify", "enable"} : QueueCheck(kind)) \/ QueueDelete \/ RetryDelete
Next == Browser \/ Worker \/ Broadcast \/ Automation \/ Plays \/ AutomationDies \/ CleanUp \/ CleanUpBreaks \/ Dies
Spec == Init /\ [][Next]_mediaVars
(* The worker polls, and so does the automation; requests end.              *)
FairSpec == Spec /\ WF_mediaVars(Worker) /\ WF_mediaVars(Automation) /\ WF_mediaVars(\E u \in Upload : StageCommits(u))

----------------------------------------------------------------------------
(* PROPERTIES *)

TypeOK ==
  /\ staged \subseteq Upload /\ lock \in Upload \cup {"none"}
  /\ \A u \in Upload : job[u] \in Waiting \cup {"none", "accepted", "duplicate", "rejected", "error"}
  /\ song.tries \in 0..Attempts /\ song.cue \in {"none", "found", "operator"}
  /\ (cancel = "open" => row) /\ (song.deleted => song.there)

(* What an engine still holds has its file: a deletion that finds the song  *)
(* chosen, handed over or recorded nowhere yet waits until the engine let   *)
(* go of it, unless it was let through while the station was to be OFF.     *)
FileOutlivesQueue == queued /\ ~broadcast.overruled => audio
(* Without the exception this does not hold: between the request of OFF and *)
(* the stop of the engine the file goes under what is queued, and ON again  *)
(* before that stop leaves it queued.  It is stated for that, and no run    *)
(* checks it.                                                               *)
FileOutlivesAnyQueue == queued => audio

(* Boundaries that the operator saved are never replaced by an analysis     *)
(* that was running meanwhile.                                              *)
EditsKept == [][(song.there /\ song'.there /\ song.cue = "operator") => song'.cue = "operator"]_mediaVars

(* Whatever is submitted ends: an import, a check and a deletion in an      *)
(* outcome, and an analysis of a song that stays.                           *)
Unended ==
  {u \in Upload : job[u] \in Waiting} \cup {k \in {"check"} : check.state \in Waiting}
    \cup {k \in {"erase"} : erase \in Waiting} \cup {k \in {"song"} : song.state = "processing"}
JobsEnd == \A k \in Upload \cup {"check", "erase", "song"} : (k \in Unended) ~> (k \notin Unended)

(* A song that was decommissioned is not enabled.                           *)
DecommissionedStaysOff == song.retired => ~song.on
=============================================================================

---------------------------- MODULE StepsProofs -----------------------------
(***************************************************************************)
(* What a step of the components of MCServices may never do: the action     *)
(* properties of the run, for every value of the constants.                 *)
(***************************************************************************)
EXTENDS ServicesProofs, SequenceTheorems

----------------------------------------------------------------------------
(* A rejected credential.  The reporter looks at the row once, when it      *)
(* begins to register; whatever it does from there on it does with a row    *)
(* that was not rejected, because only its own requests reject it, and then *)
(* it ends.                                                                 *)

Requesting ==
  {"enrolling", "enroll", "uncertain", "registering", "credential", "identity", "activate", "claim", "license",
   "licensed", "report"}
Welcome == rep.pc \in Requesting => reg # "credentials_rejected"

LEMMA WelcomeBegins == ASSUME Central!Init PROVE Welcome
BY DEF Central!Init, Central!Down, Central!Asleep, Welcome, Requesting

LEMMA WelcomeKept == ASSUME CentralInv, Welcome, Central!Next PROVE Welcome'
<1> USE DEF CentralInv, CentralTypes, Welcome, Requesting, Central!Asks, Central!Breaks, Central!Works, Central!row,
            Central!Goes, Central!NoRow, Central!Outside
<1>1. CASE \/ Central!Configure \/ Central!AcknowledgeRetry \/ Central!QueueActivation \/ Central!RetryConnection
           \/ Central!QueueCheck \/ Central!RecoverCredential \/ Central!TimePasses
  BY <1>1 DEF Central!Configure, Central!AcknowledgeRetry, Central!QueueActivation, Central!RetryConnection,
              Central!QueueCheck, Central!RecoverCredential, Central!TimePasses
<1>2. CASE \/ Central!Dies \/ Central!Starts \/ Central!Interrupted \/ Central!BeginsCheck \/ Central!BeginsTick
           \/ Central!Probe \/ Central!Ends
  <2>1. rep'.pc \in {"down", "idle", "tick", "register", "end"}
    BY <1>2 DEF Central!Dies, Central!Starts, Central!Interrupted, Central!BeginsCheck, Central!BeginsTick,
                Central!Probe, Central!Ends, Central!Down, Central!Asleep
  <2> QED
    BY <2>1
<1>3. CASE Central!Register
  BY <1>3 DEF Central!Register, Central!KnowsIdentity, Central!CannotRegister, Central!Enroll, Central!Attempt,
              Central!Marked
<1>4. CASE Central!Uncertain \/ Central!Enrolling \/ Central!CommitsIdentity
  BY <1>4 DEF Central!Uncertain, Central!Enrolling, Central!CommitsIdentity
<1>5. CASE Central!Registering \/ Central!WritesCredential \/ Central!Activate \/ Central!License
  <2>1. rep.pc \in Requesting /\ reg' = reg
    BY <1>5 DEF Central!Registering, Central!WritesCredential, Central!Activate, Central!License
  <2> QED
    BY <2>1
<1>6. CASE Central!Enrolled \/ Central!Claims \/ Central!Licensed \/ Central!Report
  <2>1. /\ rep.pc \in Requesting
        /\ reg' = reg \/ rep'.pc = "end"
    BY <1>6 DEF Central!Enrolled, Central!Claims, Central!Licensed, Central!Report, Central!Answers
  <2> QED
    BY <2>1
<1> QED
  BY <1>1, <1>2, <1>3, <1>4, <1>5, <1>6 DEF Central!Next, Central!Reporter

(* The server changes only with a request.                                  *)
LEMMA RequestsChangeTheServer ==
  ASSUME CentralInv, Welcome, Central!Next
  PROVE  server' # server => reg # "credentials_rejected"
<1> SUFFICES ASSUME server' # server PROVE rep.pc \in Requesting
  BY DEF Welcome
<1>1. Central!Registering \/ Central!Enrolled \/ Central!Claims \/ Central!Report
  BY DEF Central!Next, Central!Reporter, Central!Asks, Central!Outside,
         Central!Configure, Central!AcknowledgeRetry, Central!QueueActivation, Central!RetryConnection,
         Central!QueueCheck, Central!RecoverCredential, Central!TimePasses, Central!Dies, Central!Starts,
         Central!Interrupted, Central!BeginsCheck, Central!BeginsTick, Central!Probe, Central!Ends,
         Central!Register, Central!KnowsIdentity, Central!CannotRegister, Central!Enroll, Central!Attempt,
         Central!Uncertain, Central!Enrolling, Central!CommitsIdentity, Central!WritesCredential, Central!Activate,
         Central!License, Central!Licensed
<1> QED
  BY <1>1 DEF Central!Registering, Central!Enrolled, Central!Claims, Central!Report, Requesting

----------------------------------------------------------------------------
(* Boundaries that the operator saved.                                      *)

LEMMA OperatorsCueStays ==
  ASSUME MediaInv, Media!Next, media_song.there, media_song'.there, media_song.cue = "operator"
  PROVE  media_song'.cue = "operator"
<1> USE DEF MediaInv, MediaTypes, Media!catalog, Media!Asks, Media!Fault, Media!Quiet, Media!Edits, Media!Auto,
            Media!At, Media!Turns, Media!Rests, Media!Stays, Media!Claims, Media!Draft
<1>1. CASE Media!Browser
  BY <1>1 DEF Media!Browser, Media!Stage, Media!StageCommits, Media!StageFails, Media!DirectUpload, Media!Dismiss,
              Media!RetryJob, Media!RetryPreparation, Media!Save, Media!Finalize, Media!WeekPasses, Media!OnSong,
              Media!Disable, Media!EnableNow, Media!Decommission, Media!SaveAudio, Media!RequestAnalysis,
              Media!QueueCheck, Media!QueueDelete, Media!RetryDelete, Media!Condemned
<1>2. CASE \/ Media!Automation \/ Media!Plays \/ Media!AutomationDies \/ Media!CleanUp \/ Media!CleanUpBreaks
           \/ Media!Broadcast
  BY <1>2 DEF Media!Automation, Media!Pick, Media!Commit, Media!HandOff, Media!Clear, Media!Acknowledge, Media!Plays,
              Media!AutomationDies, Media!CleanUp, Media!CleanUpBreaks, Media!Broadcast, Media!Switch, Media!Follow
<1>3. CASE Media!Dies
  BY <1>3 DEF Media!Dies
<1>4. CASE Media!Worker
  <2>1. CASE (\E requested \in BOOLEAN : Media!Analyse(requested)) \/ Media!Analysed \/ Media!AnalysisFails
    BY <2>1 DEF Media!Analyse, Media!Analysed, Media!AnalysisFails, Media!Measured
  <2>2. CASE \/ Media!ClaimErase \/ Media!ClaimCheck \/ Media!Verified \/ Media!EraseFiles \/ Media!EraseFails
             \/ \E to \in {"rejected", "error"} : Media!CheckFails(to)
    BY <2>2 DEF Media!ClaimErase, Media!ClaimCheck, Media!Verified, Media!EraseFiles, Media!EraseFails,
                Media!CheckFails
  <2>3. CASE Media!Erased
    BY <2>3 DEF Media!Erased, Media!NoSong
  <2>4. ASSUME NEW u \in Upload,
               \/ Media!ClaimIngest(u) \/ Media!Recovered(u) \/ Media!Duplicate(u) \/ Media!IngestCommits(u)
               \/ Media!IngestSettles(u) \/ Media!Tidy(u)
               \/ (\E outcome \in {"rejected", "error"} : Media!IngestFails(u, outcome))
               \/ Media!Prepare(u) \/ Media!Prepared(u) \/ Media!PreparationBreaks(u) \/ Media!PreparationFails(u)
        PROVE  media_song'.cue = "operator"
    BY <2>4 DEF Media!ClaimIngest, Media!Recovered, Media!Duplicate, Media!IngestCommits, Media!IngestSettles,
                Media!Tidy, Media!IngestFails, Media!Prepare, Media!Prepared, Media!PreparationBreaks,
                Media!PreparationFails
  <2> QED
    BY <1>4, <2>1, <2>2, <2>3, <2>4 DEF Media!Worker
<1> QED
  BY <1>1, <1>2, <1>3, <1>4 DEF Media!Next

----------------------------------------------------------------------------
(* A producer whose access was withdrawn.                                   *)

Finishes(d) == attempt[d].status = "running" /\ attempt'[d].status = "complete"
Airs        == ~production_song.on /\ production_song'.on

LEMMA OnlyPublishFinishes ==
  ASSUME ProductionInv, Production!Next, NEW d \in ProducerDraft, Finishes(d)
  PROVE  Production!Current(d)
<1> USE DEF ProductionInv, ProductionTypes, AttemptType, AttemptRow, Finishes, Production!rows, Production!Orders,
            Production!Breaks, Production!Sound, Production!Outside, Production!Ingesting
<1>1. CASE Production!Browser
  <2>1. attempt' # attempt => \E e \in ProducerDraft : \E action \in Production!Action : Production!Enqueue(e, action)
    BY <1>1 DEF Production!Browser, Production!SaveCredential, Production!Decommission, Production!DeleteSong,
                Production!Library, Production!Grant, Production!Delete, Production!WeekPasses
  <2>2. PICK e \in ProducerDraft : \E action \in Production!Action : Production!Enqueue(e, action)
    BY <2>1
  <2> QED
    BY <2>2 DEF Production!Enqueue
<1>2. CASE Production!Ingest \/ Production!IngestDies
  BY <1>2 DEF Production!Ingest, Production!Erases, Production!Analyses, Production!IngestClaims,
              Production!IngestCommits, Production!IngestReuses, Production!IngestSettles, Production!IngestFails,
              Production!Finishes, Production!IngestDies
<1>3. CASE Production!WorkerDies
  BY <1>3 DEF Production!WorkerDies, Production!Interrupted
<1>4. CASE Production!Worker
  <2>1. CASE Production!Reconcile \/ Production!CleanUpReads \/ Production!CleanUpCommits \/ Production!NoClaim
    BY <2>1 DEF Production!Reconcile, Production!CleanUpReads, Production!CleanUpCommits, Production!NoClaim
  <2>2. CASE \E e \in ProducerDraft : Production!Claim(e) \/ Production!Begins(e) \/ Production!AttemptFails(e)
    BY <2>2 DEF Production!Claim, Production!Begins, Production!AttemptFails
  <2>3. CASE \E e \in ProducerDraft : Production!Publish(e)
    BY <2>3 DEF Production!Publish, Production!Complete
  <2> QED
    BY <1>4, <2>1, <2>2, <2>3 DEF Production!Worker
<1> QED
  BY <1>1, <1>2, <1>3, <1>4 DEF Production!Next

LEMMA OnlyReconcileAirs ==
  ASSUME ProductionInv, Production!Next, Airs
  PROVE  granted
<1> USE DEF ProductionInv, ProductionTypes, SongType, Airs, Production!rows, Production!Orders, Production!Breaks,
            Production!Sound, Production!Outside, Production!Ingesting
<1>1. CASE Production!Browser
  BY <1>1 DEF Production!Browser, Production!SaveCredential, Production!Decommission, Production!DeleteSong,
              Production!Library, Production!Grant, Production!Delete, Production!WeekPasses, Production!Enqueue
<1>2. CASE Production!Ingest \/ Production!IngestDies
  <2>1. CASE Production!Erases \/ \E outcome \in {"complete", "failed"} : Production!Analyses(outcome)
    BY <2>1 DEF Production!Erases, Production!Analyses, Production!NoSong
  <2>2. CASE \E d \in ProducerDraft : Production!IngestCommits(d)
    BY <2>2 DEF Production!IngestCommits, Production!NoSong
  <2>3. CASE \/ Production!IngestDies
             \/ \E d \in ProducerDraft :
                  \/ Production!IngestClaims(d) \/ Production!IngestReuses(d) \/ Production!IngestSettles(d)
                  \/ \E outcome \in {"rejected", "error"} : Production!IngestFails(d, outcome)
    BY <2>3 DEF Production!IngestDies, Production!IngestClaims, Production!IngestReuses, Production!IngestSettles,
                Production!IngestFails
  <2> QED
    BY <1>2, <2>1, <2>2, <2>3 DEF Production!Ingest
<1>3. CASE Production!WorkerDies
  BY <1>3 DEF Production!WorkerDies
<1>4. CASE Production!Worker
  <2>1. CASE Production!Reconcile
    BY <2>1 DEF Production!Reconcile, Production!Enables
  <2>2. CASE Production!CleanUpReads \/ Production!CleanUpCommits \/ Production!NoClaim
    BY <2>2 DEF Production!CleanUpReads, Production!CleanUpCommits, Production!NoClaim
  <2>3. CASE \E e \in ProducerDraft :
               Production!Claim(e) \/ Production!Begins(e) \/ Production!AttemptFails(e) \/ Production!Publish(e)
    BY <2>3 DEF Production!Claim, Production!Begins, Production!AttemptFails, Production!Publish, Production!Complete
  <2> QED
    BY <1>4, <2>1, <2>2, <2>3 DEF Production!Worker
<1> QED
  BY <1>1, <1>2, <1>3, <1>4 DEF Production!Next

----------------------------------------------------------------------------
(* What the engine is given of a bulletin, and what is aired of it.  A      *)
(* revision is handed over at most once: an occurrence is pending until its *)
(* audio is there, is handed over in the same pass, and is pending again     *)
(* only under the next revision.  A download belongs to the revision that    *)
(* the occurrence asked it for, and what the engine still holds of a         *)
(* revision that was edited is dropped before the next one is asked for.    *)

Revision == 1..(MaxEdits + 1)
OccRow ==
  [state : {"PENDING", "READY", "QUEUED", "STARTED", "COMPLETED", "FAILED", "MISSED", "CANCELLED"},
   rev : Revision, bulletin : Nat, fetch : Nat, ready : BOOLEAN, era : Nat, started : BOOLEAN]
RowsType    == bulletin_row \in [Occ -> OccRow]
JobsType    == bulletin_job \in [Occ -> [status : {"none", "running", "done", "failed"}, rev : Nat]]
FilesKnown  == bulletin_file \in [Occ -> Nat]
WorkerType  ==
  worker \in [pc : {"idle", "prepare", "hand", "observe", "judge", "commit"}, on : Occ \cup {"none"}, allow : BOOLEAN,
              seen : Bulletin!Holding \cup {"IDLE", "FAILED", "COMPLETED"}, began : BOOLEAN, rev : Nat]
EngineType  ==
  bulletin_engine \in [id : Occ \cup {"none"}, phase : Bulletin!Holding \cup {"IDLE", "FAILED", "COMPLETED"},
                       heard : BOOLEAN, began : BOOLEAN, rev : Nat, era : Nat]
CountsType  ==
  /\ bodies \in [Occ -> [Revision -> Nat]] /\ decisions \in [Occ -> Nat]
  /\ bulletin_edits \in 0..MaxEdits /\ \A o \in Occ : bulletin_row[o].rev <= bulletin_edits + 1
BulletinTypes == RowsType /\ JobsType /\ FilesKnown /\ WorkerType /\ EngineType /\ CountsType

Acting == worker.pc \in {"hand", "observe", "judge", "commit"}
Pending(o) == bulletin_row[o].state = "PENDING"
InPass ==
  /\ worker.pc # "idle" => worker.on \in Occ
  /\ worker.pc = "prepare" => Pending(worker.on)
  /\ Acting => ~Pending(worker.on)
  /\ worker.pc = "hand" => worker.rev = bulletin_row[worker.on].rev
Held == bulletin_engine.phase \in Bulletin!Holding
Dropped ==
  Held => /\ bulletin_engine.id \in Occ /\ bulletin_engine.rev \in Revision
          /\ Pending(bulletin_engine.id) => worker.pc = "idle" /\ bulletin_row[bulletin_engine.id].fetch = 0
Downloads ==
  \A o \in Occ :
    /\ bulletin_row[o].bulletin \in {0, bulletin_row[o].rev} /\ bulletin_row[o].fetch \in {0, bulletin_row[o].rev}
    /\ Pending(o) => ~bulletin_row[o].ready
    /\ Pending(o) /\ bulletin_row[o].fetch # 0 =>
         /\ bulletin_job[o].status \in {"running", "done"} => bulletin_job[o].rev = bulletin_row[o].rev
         /\ bulletin_job[o].status = "done" => bulletin_file[o] = bulletin_row[o].rev
HandsInv == BulletinTypes /\ InPass /\ Dropped /\ Downloads

Given(o, r) == bodies[o][r] # 0 \/ (bulletin_engine.id = o /\ bulletin_engine.rev = r)
GivenOnce ==
  /\ \A o \in Occ : \A r \in Revision :
       Given(o, r) => \/ r < bulletin_row[o].rev
                      \/ r = bulletin_row[o].rev /\ ~Pending(o) /\ ~(worker.pc = "hand" /\ worker.on = o)
  /\ bulletin_engine.phase \in {"PREPARING", "READY", "INTRO"} =>
       bodies[bulletin_engine.id][bulletin_engine.rev] = 0
Counted ==
  /\ \A o \in Occ : /\ decisions[o] = (IF bulletin_row[o].started THEN 1 ELSE 0)
                    /\ decisions[o] # 0 => Bulletin!Aired(o)
  /\ bulletin_engine.began => bulletin_engine.id \in Occ /\ Bulletin!Aired(bulletin_engine.id)
  /\ worker.pc = "judge" /\ worker.began => Bulletin!Aired(worker.on)
AirsInv == GivenOnce /\ Counted /\ Bulletin!AiredOnce

LEMMA HandsBegin ==
  ASSUME MaxEdits \in Nat, Bulletin!Init
  PROVE  HandsInv /\ AirsInv
<1> USE DEF Bulletin!Init, Bulletin!Fresh, Bulletin!Idle, Bulletin!Unused, Bulletin!Holding
<1>1. 1 \in Revision
  BY DEF Revision
<1>2. BulletinTypes
  BY <1>1 DEF BulletinTypes, RowsType, OccRow, JobsType, FilesKnown, WorkerType, EngineType, CountsType, Revision
<1>3. InPass /\ Dropped /\ Downloads
  BY DEF InPass, Acting, Dropped, Held, Downloads, Pending
<1>4. AirsInv
  BY DEF AirsInv, GivenOnce, Given, Pending, Counted, Bulletin!AiredOnce, Revision
<1> QED
  BY <1>2, <1>3, <1>4 DEF HandsInv

(* What may happen to the bulletin of the engine, but for being given one.  *)
Before == {"PREPARING", "READY", "INTRO"}
Phase  == Bulletin!Holding \cup {"IDLE", "FAILED", "COMPLETED"}
Quieter ==
  /\ UNCHANGED bodies
  /\ \E phase \in Phase, heard \in BOOLEAN :
       /\ bulletin_engine' = [bulletin_engine EXCEPT !.phase = phase, !.heard = heard]
       /\ phase \in Bulletin!Holding => Held
       /\ phase \in Before => bulletin_engine.phase \in Before
       /\ phase = "PREPARING" => bulletin_engine.phase = "PREPARING"
BodyBegins ==
  /\ bulletin_engine.phase \in {"READY", "INTRO"}
  /\ bulletin_engine' = [bulletin_engine EXCEPT !.phase = "BODY", !.began = TRUE]
  /\ bodies' = [bodies EXCEPT ![bulletin_engine.id][bulletin_engine.rev] = @ + 1]
BeginsAgain == UNCHANGED bodies /\ bulletin_engine' = Bulletin!Unused(bulletin_engine.era + 1)

LEMMA StillQuiet == ASSUME EngineType, UNCHANGED <<bulletin_engine, bodies>> PROVE Quieter
BY DEF EngineType, Quieter, Phase, Before, Held, Bulletin!Holding

LEMMA QuietBy ==
  ASSUME EngineType, NEW phase \in Phase, NEW heard \in BOOLEAN, UNCHANGED bodies,
         bulletin_engine' = [bulletin_engine EXCEPT !.phase = phase, !.heard = heard],
         phase \in Bulletin!Holding => Held, phase \in Before => bulletin_engine.phase \in Before,
         phase = "PREPARING" => bulletin_engine.phase = "PREPARING"
  PROVE  Quieter
BY DEF Quieter

LEMMA FinishQuiets ==
  ASSUME EngineType, NEW phase \in {"FAILED", "COMPLETED"}, Bulletin!Finish(phase)
  PROVE  Quieter
BY DEF EngineType, Quieter, Phase, Before, Held, Bulletin!Holding, Bulletin!Finish, Bulletin!Finished

LEMMA BodyMoves == ASSUME EngineType, bulletin_engine.phase \in {"READY", "INTRO"}, Bulletin!Body PROVE Quieter \/ BodyBegins
<1>1. CASE bulletin_engine.heard
  BY <1>1 DEF Bulletin!Body, BodyBegins
<1>2. CASE ~bulletin_engine.heard
  BY <1>2, FinishQuiets DEF Bulletin!Body
<1> QED
  BY <1>1, <1>2

EngineSteps ==
  \/ Bulletin!Sounds \/ Bulletin!FeedLost \/ Bulletin!TimeIsUp \/ Bulletin!Taken \/ Bulletin!Clock \/ Bulletin!Boundary
  \/ Bulletin!OtherEvent \/ Bulletin!EngineRestarts

LEMMA EngineMoves ==
  ASSUME EngineType, EngineSteps
  PROVE  /\ UNCHANGED <<bulletin_row, bulletin_edits, bulletin_job, bulletin_file, worker, decisions>>
         /\ Quieter \/ BodyBegins \/ BeginsAgain
<1>1. UNCHANGED <<bulletin_row, bulletin_edits, bulletin_job, bulletin_file, worker, decisions>>
  BY DEF EngineSteps, Bulletin!OffEngine, Bulletin!db, Bulletin!Sounds, Bulletin!FeedLost, Bulletin!TimeIsUp,
         Bulletin!Taken, Bulletin!Clock, Bulletin!Begins, Bulletin!IntroEnds, Bulletin!BodyTick, Bulletin!OutroEnds,
         Bulletin!Boundary, Bulletin!OtherEvent, Bulletin!EngineRestarts
<1> SUFFICES Quieter \/ BodyBegins \/ BeginsAgain
  BY <1>1
<1>2. CASE Bulletin!Sounds
  <2>1. /\ bulletin_engine' = [bulletin_engine EXCEPT !.phase = "READY", !.heard = TRUE] /\ UNCHANGED bodies
        /\ bulletin_engine.phase = "PREPARING"
    BY <1>2 DEF Bulletin!Sounds, EngineType
  <2> QED
    BY <2>1, QuietBy DEF Phase, Before, Held, Bulletin!Holding
<1>9. CASE Bulletin!FeedLost
  <2>1. /\ bulletin_engine' = [bulletin_engine EXCEPT !.phase = bulletin_engine.phase, !.heard = FALSE]
        /\ UNCHANGED bodies /\ Held /\ bulletin_engine.phase \in Phase
    BY <1>9 DEF Bulletin!FeedLost, EngineType, Held, Phase
  <2> QED
    BY <2>1, QuietBy
<1>3. CASE Bulletin!TimeIsUp \/ Bulletin!Taken \/ Bulletin!OutroEnds
  BY <1>3, FinishQuiets DEF Bulletin!TimeIsUp, Bulletin!Taken, Bulletin!OutroEnds
<1>4. CASE Bulletin!Begins
  <2>1. CASE bulletin_engine.heard /\ bulletin_engine.id \in Framed
    <3>1. /\ bulletin_engine' = [bulletin_engine EXCEPT !.phase = "INTRO", !.heard = bulletin_engine.heard]
          /\ UNCHANGED bodies /\ bulletin_engine.phase = "READY" /\ bulletin_engine.heard \in BOOLEAN
      BY <1>4, <2>1 DEF Bulletin!Begins, EngineType
    <3> QED
      BY <3>1, QuietBy DEF Phase, Before, Held, Bulletin!Holding
  <2>2. CASE ~(bulletin_engine.heard /\ bulletin_engine.id \in Framed)
    BY <1>4, <2>2, BodyMoves DEF Bulletin!Begins
  <2> QED
    BY <2>1, <2>2
<1>5. CASE Bulletin!IntroEnds
  BY <1>5, BodyMoves DEF Bulletin!IntroEnds
<1>6. CASE Bulletin!BodyTick
  <2>1. CASE bulletin_engine.heard /\ bulletin_engine.id \in Framed
    <3>1. /\ bulletin_engine' = [bulletin_engine EXCEPT !.phase = "OUTRO", !.heard = bulletin_engine.heard]
          /\ UNCHANGED bodies /\ bulletin_engine.phase = "BODY" /\ bulletin_engine.heard \in BOOLEAN
      BY <1>6, <2>1 DEF Bulletin!BodyTick, Bulletin!BodyEnds, EngineType
    <3> QED
      BY <3>1, QuietBy DEF Phase, Before, Held, Bulletin!Holding
  <2>2. CASE ~(bulletin_engine.heard /\ bulletin_engine.id \in Framed)
    BY <1>6, <2>2, FinishQuiets DEF Bulletin!BodyTick, Bulletin!BodyEnds
  <2> QED
    BY <2>1, <2>2
<1>7. CASE Bulletin!Boundary \/ Bulletin!OtherEvent
  BY <1>7, StillQuiet DEF Bulletin!Boundary, Bulletin!OtherEvent
<1>8. CASE Bulletin!EngineRestarts
  BY <1>8 DEF Bulletin!EngineRestarts, BeginsAgain
<1> QED
  BY <1>1, <1>2, <1>3, <1>4, <1>5, <1>6, <1>7, <1>8, <1>9 DEF EngineSteps, Bulletin!Clock

LEMMA QuietFacts ==
  ASSUME EngineType, Quieter
  PROVE  /\ EngineType' /\ UNCHANGED bodies /\ bulletin_engine'.id = bulletin_engine.id
         /\ bulletin_engine'.rev = bulletin_engine.rev /\ bulletin_engine'.began = bulletin_engine.began
         /\ Held' => Held
         /\ bulletin_engine'.phase \in Before => bulletin_engine.phase \in Before
         /\ bulletin_engine'.phase = "PREPARING" => bulletin_engine.phase = "PREPARING"
BY DEF EngineType, Quieter, Phase, Held

LEMMA EngineStepsKeep ==
  ASSUME HandsInv, EngineSteps
  PROVE  HandsInv'
<1>1. /\ UNCHANGED <<bulletin_row, bulletin_edits, bulletin_job, bulletin_file, worker, decisions>>
      /\ Quieter \/ BodyBegins \/ BeginsAgain
  BY EngineMoves DEF HandsInv, BulletinTypes
<1>2. /\ EngineType' /\ CountsType'
      /\ Held' => Held /\ bulletin_engine'.id = bulletin_engine.id /\ bulletin_engine'.rev = bulletin_engine.rev
  <2>1. CASE Quieter
    BY <1>1, <2>1, QuietFacts DEF HandsInv, BulletinTypes, CountsType
  <2>2. CASE BodyBegins
    <3>1. Held /\ bulletin_engine.id \in Occ /\ bulletin_engine.rev \in Revision
      BY <2>2 DEF BodyBegins, Held, HandsInv, Dropped, Bulletin!Holding
    <3>2. bodies \in [Occ -> [Revision -> Nat]] /\ bodies[bulletin_engine.id] \in [Revision -> Nat]
      BY <3>1 DEF HandsInv, BulletinTypes, CountsType
    <3>3. bodies' \in [Occ -> [Revision -> Nat]]
      BY <2>2, <3>1, <3>2 DEF BodyBegins
    <3>4. CountsType'
      BY <1>1, <3>3 DEF HandsInv, BulletinTypes, CountsType
    <3>5. EngineType' /\ bulletin_engine'.id = bulletin_engine.id /\ bulletin_engine'.rev = bulletin_engine.rev
      BY <2>2 DEF BodyBegins, HandsInv, BulletinTypes, EngineType, Bulletin!Holding
    <3> QED
      BY <3>1, <3>4, <3>5
  <2>3. CASE BeginsAgain
    BY <1>1, <2>3 DEF BeginsAgain, HandsInv, BulletinTypes, EngineType, CountsType, Held, Bulletin!Unused, Bulletin!Holding
  <2> QED
    BY <1>1, <2>1, <2>2, <2>3
<1> QED
  BY <1>1, <1>2 DEF HandsInv, BulletinTypes, RowsType, JobsType, FilesKnown, WorkerType, InPass, Acting, Dropped,
                    Downloads, Pending

OperatorSteps(o) ==
  \/ Bulletin!Passes(o) \/ Bulletin!Edit(o) \/ Bulletin!Cancel(o) \/ Bulletin!Expire(o) \/ Bulletin!Fetched(o)
  \/ Bulletin!FetchFails(o)

LEMMA OperatorStepsKeep ==
  ASSUME MaxEdits \in Nat, HandsInv, NEW o \in Occ, OperatorSteps(o)
  PROVE  HandsInv'
<1> USE DEF HandsInv, BulletinTypes, Bulletin!engineVars
<1>1. CASE Bulletin!Passes(o)
  BY <1>1 DEF Bulletin!Passes, RowsType, JobsType, FilesKnown, WorkerType, EngineType, CountsType, InPass, Acting, Dropped, Held, Downloads, Pending
<1>2. CASE Bulletin!Edit(o)
  <2>1. /\ worker.pc = "idle" /\ bulletin_edits' = bulletin_edits + 1 /\ bulletin_edits < MaxEdits
        /\ UNCHANGED <<bulletin_job, bulletin_file, worker, bulletin_engine, bodies, decisions>>
    BY <1>2 DEF Bulletin!Edit
  <2>2. bulletin_row[o] \in OccRow /\ bulletin_edits \in 0..MaxEdits /\ bulletin_row[o].rev <= bulletin_edits + 1
    BY DEF RowsType, CountsType
  <2>3. bulletin_row[o].rev + 1 \in Revision /\ bulletin_row[o].rev + 1 <= bulletin_edits' + 1
    BY <2>1, <2>2 DEF Revision, OccRow
  <2> DEFINE new == [Bulletin!Fresh(bulletin_row[o].rev + 1) EXCEPT !.started = bulletin_row[o].started]
  <2>4. bulletin_row' = [bulletin_row EXCEPT ![o] = new]
    BY <1>2 DEF Bulletin!Edit
  <2>5. /\ new \in OccRow /\ new.rev = bulletin_row[o].rev + 1 /\ new.bulletin = 0 /\ new.fetch = 0 /\ ~new.ready
        /\ new.state = "PENDING"
    BY <2>2, <2>3 DEF Bulletin!Fresh, OccRow
  <2> HIDE DEF new
  <2>6. RowsType' /\ bulletin_row'[o] = new /\ \A p \in Occ \ {o} : bulletin_row'[p] = bulletin_row[p]
    BY <2>4, <2>5 DEF RowsType
  <2>7. bulletin_edits' \in 0..MaxEdits /\ \A p \in Occ : bulletin_row'[p].rev <= bulletin_edits' + 1
    <3>1. \A p \in Occ : bulletin_row[p].rev \in Nat /\ bulletin_row[p].rev <= bulletin_edits + 1
      BY DEF RowsType, OccRow, CountsType, Revision
    <3> QED
      BY <2>1, <2>2, <2>3, <2>5, <2>6, <3>1
  <2>8. BulletinTypes'
    BY <2>1, <2>6, <2>7 DEF JobsType, FilesKnown, WorkerType, EngineType, CountsType
  <2>9. InPass' /\ Dropped' /\ Downloads'
    BY <2>1, <2>5, <2>6 DEF InPass, Acting, Dropped, Held, Downloads, Pending
  <2> QED
    BY <2>8, <2>9
<1>3. CASE Bulletin!Cancel(o) \/ Bulletin!Expire(o)
  <2>1. /\ worker.pc = "idle" /\ bulletin_edits' \in {bulletin_edits, bulletin_edits + 1} /\ bulletin_edits' <= MaxEdits
        /\ UNCHANGED <<bulletin_job, bulletin_file, worker, bulletin_engine, bodies, decisions>>
    BY <1>3 DEF Bulletin!Cancel, Bulletin!Expire, CountsType
  <2> DEFINE cancelled == [bulletin_row[o] EXCEPT !.state = "CANCELLED", !.bulletin = 0, !.fetch = 0, !.ready = FALSE,
                                                  !.era = 0]
             missed == [bulletin_row[o] EXCEPT !.state = "MISSED"]
  <2>2. bulletin_row[o] \in OccRow
    BY DEF RowsType
  <2>3. \E new \in {cancelled, missed} : bulletin_row' = [bulletin_row EXCEPT ![o] = new]
    <3>1. CASE Bulletin!Cancel(o)
      BY <3>1 DEF Bulletin!Cancel
    <3>2. CASE Bulletin!Expire(o)
      BY <3>2 DEF Bulletin!Expire
    <3> QED
      BY <1>3, <3>1, <3>2
  <2> PICK new \in {cancelled, missed} : bulletin_row' = [bulletin_row EXCEPT ![o] = new]
    BY <2>3
  <2>4. /\ new \in OccRow /\ new.rev = bulletin_row[o].rev /\ new.bulletin \in {0, bulletin_row[o].bulletin}
        /\ new.fetch \in {0, bulletin_row[o].fetch} /\ new.state # "PENDING"
    <3>1. cancelled \in OccRow /\ missed \in OccRow
      BY <2>2 DEF OccRow
    <3>2. /\ cancelled.state = "CANCELLED" /\ cancelled.rev = bulletin_row[o].rev /\ cancelled.bulletin = 0
          /\ cancelled.fetch = 0
      BY <2>2 DEF OccRow
    <3>3. /\ missed.state = "MISSED" /\ missed.rev = bulletin_row[o].rev
          /\ missed.bulletin = bulletin_row[o].bulletin /\ missed.fetch = bulletin_row[o].fetch
      BY <2>2 DEF OccRow
    <3> QED
      BY <3>1, <3>2, <3>3
  <2> HIDE DEF cancelled, missed
  <2>5. RowsType' /\ bulletin_row'[o] = new /\ \A p \in Occ \ {o} : bulletin_row'[p] = bulletin_row[p]
    BY <2>3, <2>4 DEF RowsType
  <2>6. \A p \in Occ : bulletin_row'[p].rev <= bulletin_edits' + 1
    <3>1. \A p \in Occ : bulletin_row[p].rev \in Nat /\ bulletin_row[p].rev <= bulletin_edits + 1
      BY DEF RowsType, OccRow, CountsType, Revision
    <3>2. bulletin_edits \in Nat
      BY DEF CountsType
    <3> QED
      BY <2>1, <2>4, <2>5, <3>1, <3>2
  <2>7. BulletinTypes'
    BY <2>1, <2>5, <2>6 DEF JobsType, FilesKnown, WorkerType, EngineType, CountsType
  <2>8. InPass' /\ Dropped' /\ Downloads'
    BY <2>1, <2>4, <2>5 DEF InPass, Acting, Dropped, Held, Downloads, Pending
  <2> QED
    BY <2>7, <2>8
<1>4. CASE Bulletin!Fetched(o) \/ Bulletin!FetchFails(o)
  <2>1. UNCHANGED <<bulletin_row, bulletin_edits, worker, bulletin_engine, bodies, decisions>>
    BY <1>4 DEF Bulletin!Fetched, Bulletin!FetchFails, Bulletin!db
  <2>2. /\ bulletin_job[o] \in [status : {"none", "running", "done", "failed"}, rev : Nat] /\ bulletin_job[o].status = "running"
        /\ \E to \in {"done", "failed"} :
             /\ bulletin_job' = [bulletin_job EXCEPT ![o] = [status |-> to, rev |-> bulletin_job[o].rev]]
             /\ bulletin_file' = [bulletin_file EXCEPT ![o] = IF to = "done" THEN bulletin_job[o].rev ELSE 0]
    BY <1>4 DEF Bulletin!Fetched, Bulletin!FetchFails, JobsType
  <2>3. JobsType' /\ FilesKnown'
    BY <2>2 DEF JobsType, FilesKnown
  <2>4. Downloads'
    BY <2>1, <2>2 DEF Downloads, Pending, JobsType, FilesKnown
  <2>5. InPass' /\ Dropped' /\ RowsType' /\ WorkerType' /\ EngineType' /\ CountsType'
    BY <2>1 DEF InPass, Acting, Dropped, Held, Pending, RowsType, WorkerType, EngineType, CountsType
  <2> QED
    BY <2>1, <2>3, <2>4, <2>5
<1> QED
  BY <1>1, <1>2, <1>3, <1>4 DEF OperatorSteps

BulletinInv == HandsInv /\ AirsInv

LEMMA EngineStepsAir ==
  ASSUME BulletinInv, EngineSteps
  PROVE  AirsInv'
<1> USE DEF BulletinInv
<1>1. /\ UNCHANGED <<bulletin_row, bulletin_edits, bulletin_job, bulletin_file, worker, decisions>>
      /\ Quieter \/ BodyBegins \/ BeginsAgain
  BY EngineMoves DEF HandsInv, BulletinTypes
<1>2. CASE Quieter
  BY <1>1, <1>2, QuietFacts DEF HandsInv, BulletinTypes, AirsInv, GivenOnce, Given, Pending, Before, Counted,
                                Bulletin!Aired, Bulletin!AiredOnce
<1>3. CASE BodyBegins
  <2> PICK i, n : i = bulletin_engine.id /\ n = bulletin_engine.rev
    OBVIOUS
  <2>1. Held /\ i \in Occ /\ n \in Revision /\ bodies[i][n] = 0
    BY <1>3 DEF BodyBegins, Held, HandsInv, Dropped, Bulletin!Holding, AirsInv, GivenOnce
  <2>2. bodies \in [Occ -> [Revision -> Nat]] /\ bodies[i] \in [Revision -> Nat]
    BY <2>1 DEF HandsInv, BulletinTypes, CountsType
  <2>3. bodies'[i][n] = 1
    BY <1>3, <2>1, <2>2 DEF BodyBegins
  <2>4. \A o \in Occ : \A r \in Revision : o # i \/ r # n => bodies'[o][r] = bodies[o][r]
    BY <1>3, <2>1, <2>2 DEF BodyBegins
  <2>5. bulletin_engine'.id = i /\ bulletin_engine'.rev = n /\ bulletin_engine'.phase = "BODY"
    BY <1>3 DEF BodyBegins, HandsInv, BulletinTypes, EngineType
  <2>6. \A o \in Occ : Bulletin!Aired(o) => Bulletin!Aired(o)'
    BY <2>3, <2>4 DEF Bulletin!Aired, Revision
  <2>7. Bulletin!Aired(i)'
    BY <2>1, <2>3 DEF Bulletin!Aired, Revision
  <2>8. \A o \in Occ : \A r \in Revision : Given(o, r)' => Given(o, r)
    BY <2>4, <2>5 DEF Given
  <2>9. GivenOnce'
    BY <1>1, <2>5, <2>8 DEF AirsInv, GivenOnce, Pending
  <2>10. Counted'
    BY <1>1, <2>1, <2>5, <2>6, <2>7 DEF AirsInv, Counted, HandsInv, InPass
  <2>11. Bulletin!AiredOnce'
    BY <1>1, <2>3, <2>4, <2>6 DEF AirsInv, Bulletin!AiredOnce, Revision
  <2> QED
    BY <2>9, <2>10, <2>11 DEF AirsInv
<1>4. CASE BeginsAgain
  <2>1. /\ bulletin_engine'.id = "none" /\ bulletin_engine'.rev = 0 /\ bulletin_engine'.phase = "IDLE"
        /\ ~bulletin_engine'.began /\ bodies' = bodies
    BY <1>4 DEF BeginsAgain, Bulletin!Unused
  <2>2. \A o \in Occ : \A r \in Revision : Given(o, r)' => Given(o, r)
    BY <2>1 DEF Given, Revision
  <2> QED
    BY <1>1, <2>1, <2>2 DEF AirsInv, GivenOnce, Pending, Counted, Bulletin!Aired, Bulletin!AiredOnce
<1> QED
  BY <1>1, <1>2, <1>3, <1>4

LEMMA OperatorStepsAir ==
  ASSUME BulletinInv, NEW o \in Occ, OperatorSteps(o)
  PROVE  AirsInv'
<1> USE DEF BulletinInv, Bulletin!engineVars, Bulletin!db
<1>1. UNCHANGED <<worker, bulletin_engine, bodies, decisions>>
  BY DEF OperatorSteps, Bulletin!Passes, Bulletin!Edit, Bulletin!Cancel, Bulletin!Expire, Bulletin!Fetched,
         Bulletin!FetchFails
<1>2. \A p \in Occ : bulletin_row[p] \in OccRow /\ bulletin_row[p].rev \in Nat
  BY DEF HandsInv, BulletinTypes, RowsType, OccRow, Revision
<1>3. CASE Bulletin!Edit(o)
  <2> DEFINE new == [Bulletin!Fresh(bulletin_row[o].rev + 1) EXCEPT !.started = bulletin_row[o].started]
  <2>1. bulletin_row' = [bulletin_row EXCEPT ![o] = new]
    BY <1>3 DEF Bulletin!Edit
  <2>2. new.rev = bulletin_row[o].rev + 1 /\ new.started = bulletin_row[o].started /\ worker.pc = "idle"
    BY <1>3 DEF Bulletin!Edit, Bulletin!Fresh
  <2> HIDE DEF new
  <2>3. bulletin_row'[o] = new /\ \A p \in Occ \ {o} : bulletin_row'[p] = bulletin_row[p]
    BY <2>1 DEF HandsInv, BulletinTypes, RowsType
  <2>4. \A p \in Occ : \A r \in Revision : Given(p, r)' = Given(p, r)
    BY <1>1 DEF Given
  <2>5. GivenOnce'
    BY <1>1, <1>2, <2>2, <2>3, <2>4 DEF AirsInv, GivenOnce, Pending, Revision
  <2>6. Counted' /\ Bulletin!AiredOnce'
    BY <1>1, <2>2, <2>3 DEF AirsInv, Counted, Bulletin!AiredOnce, Bulletin!Aired
  <2> QED
    BY <2>5, <2>6 DEF AirsInv
<1>4. CASE Bulletin!Cancel(o) \/ Bulletin!Expire(o)
  <2>1. \A p \in Occ : /\ bulletin_row'[p].rev = bulletin_row[p].rev /\ bulletin_row'[p].started = bulletin_row[p].started
                       /\ Pending(p)' => Pending(p)
    BY <1>4 DEF Bulletin!Cancel, Bulletin!Expire, HandsInv, BulletinTypes, RowsType, OccRow, Pending
  <2>2. \A p \in Occ : \A r \in Revision : Given(p, r)' = Given(p, r)
    BY <1>1 DEF Given
  <2> QED
    BY <1>1, <2>1, <2>2 DEF AirsInv, GivenOnce, Counted, Bulletin!AiredOnce, Bulletin!Aired
<1>5. CASE Bulletin!Passes(o) \/ Bulletin!Fetched(o) \/ Bulletin!FetchFails(o)
  <2>1. UNCHANGED bulletin_row
    BY <1>5 DEF Bulletin!Passes, Bulletin!Fetched, Bulletin!FetchFails
  <2> QED
    BY <1>1, <2>1 DEF AirsInv, GivenOnce, Given, Pending, Counted, Bulletin!AiredOnce, Bulletin!Aired
<1> QED
  BY <1>3, <1>4, <1>5 DEF OperatorSteps

(* A step of the pass, seen from the row it writes: it leaves the others    *)
(* alone, makes nothing pending again, hands over only what was pending, and *)
(* records only what was aired.                                             *)
Writes(o, r) ==
  /\ bulletin_row' = [bulletin_row EXCEPT ![o] = r] /\ UNCHANGED bulletin_edits
  /\ r.rev = bulletin_row[o].rev /\ r.bulletin \in {0, r.rev} /\ r.fetch \in {0, r.rev}
  /\ r.state = "PENDING" => Pending(o) /\ ~r.ready
Fetches(o, r) ==
  /\ \A p \in Occ \ {o} : bulletin_job'[p] = bulletin_job[p] /\ bulletin_file'[p] = bulletin_file[p]
  /\ r.state = "PENDING" /\ r.fetch # 0 =>
       /\ bulletin_job'[o].status \in {"running", "done"} => bulletin_job'[o].rev = r.rev
       /\ bulletin_job'[o].status = "done" => bulletin_file'[o] = r.rev
Tells(o, r) ==
  /\ \/ UNCHANGED decisions /\ r.started = bulletin_row[o].started
     \/ /\ decisions' = [decisions EXCEPT ![o] = 1] /\ r.started /\ Bulletin!Aired(o)
Proceeds(o, r) ==
  /\ worker'.pc # "idle" => worker'.on = o
  /\ worker'.pc # "prepare" /\ (worker'.pc # "idle" => r.state # "PENDING")
  /\ worker'.pc = "hand" => worker'.rev = r.rev /\ Pending(o)
  /\ worker'.pc = "judge" => (worker'.began => Bulletin!Aired(o))

LEMMA RowStep ==
  ASSUME BulletinInv, worker.pc # "idle", NEW o \in Occ, NEW r \in OccRow, Writes(o, r), Fetches(o, r), Tells(o, r),
         Proceeds(o, r), Quieter, JobsType', FilesKnown', WorkerType'
  PROVE  BulletinInv'
<1> USE DEF BulletinInv
<1>1. bulletin_row'[o] = r /\ (\A p \in Occ \ {o} : bulletin_row'[p] = bulletin_row[p]) /\ RowsType'
  BY DEF Writes, HandsInv, BulletinTypes, RowsType
<1>2. /\ EngineType' /\ UNCHANGED bodies /\ bulletin_engine'.id = bulletin_engine.id
      /\ bulletin_engine'.rev = bulletin_engine.rev /\ bulletin_engine'.began = bulletin_engine.began
      /\ Held' => Held
      /\ bulletin_engine'.phase \in Before => bulletin_engine.phase \in Before
  BY QuietFacts DEF HandsInv, BulletinTypes
<1>3. \A p \in Occ : Bulletin!Aired(p)' = Bulletin!Aired(p)
  BY <1>2 DEF Bulletin!Aired
<1>4. \A p \in Occ : bulletin_row'[p].rev = bulletin_row[p].rev /\ (Pending(p)' => Pending(p))
  BY <1>1 DEF Writes, Pending
<1>5. decisions' \in [Occ -> Nat]
  BY DEF Tells, HandsInv, BulletinTypes, CountsType
<1>6. BulletinTypes'
  BY <1>1, <1>2, <1>4, <1>5 DEF HandsInv, BulletinTypes, CountsType, Writes
<1>7. InPass'
  BY <1>1 DEF InPass, Acting, Pending, Proceeds
<1>8. Dropped'
  BY <1>2, <1>4 DEF HandsInv, Dropped
<1>9. Downloads'
  BY <1>1 DEF HandsInv, Downloads, Writes, Fetches, Pending
<1>10. \A p \in Occ : \A q \in Revision : Given(p, q)' = Given(p, q)
  BY <1>2 DEF Given
<1>11. GivenOnce'
  <2>1. ASSUME NEW p \in Occ, NEW q \in Revision, Given(p, q)
        PROVE  \/ q < bulletin_row'[p].rev
               \/ q = bulletin_row'[p].rev /\ ~Pending(p)' /\ ~(worker'.pc = "hand" /\ worker'.on = p)
    <3>1. q < bulletin_row[p].rev \/ (q = bulletin_row[p].rev /\ ~Pending(p))
      BY <2>1 DEF AirsInv, GivenOnce
    <3>2. worker'.pc = "hand" => worker'.on = o /\ Pending(o)
      BY DEF Proceeds
    <3> QED
      BY <1>4, <3>1, <3>2
  <2>2. bulletin_engine'.phase \in Before => bodies'[bulletin_engine'.id][bulletin_engine'.rev] = 0
    BY <1>2 DEF AirsInv, GivenOnce, Before
  <2> QED
    BY <1>10, <2>1, <2>2 DEF GivenOnce, Before
<1>12. Counted'
  <2>1. ASSUME NEW p \in Occ
        PROVE  /\ decisions'[p] = (IF bulletin_row'[p].started THEN 1 ELSE 0)
               /\ decisions'[p] # 0 => Bulletin!Aired(p)
    <3>1. /\ decisions[p] = (IF bulletin_row[p].started THEN 1 ELSE 0)
          /\ decisions[p] # 0 => Bulletin!Aired(p)
      BY DEF AirsInv, Counted
    <3>2. CASE p # o
      <4>1. decisions'[p] = decisions[p] /\ bulletin_row'[p] = bulletin_row[p]
        BY <1>1, <3>2 DEF Tells, HandsInv, BulletinTypes, CountsType
      <4> QED
        BY <3>1, <4>1
    <3>3. CASE p = o /\ UNCHANGED decisions /\ r.started = bulletin_row[o].started
      BY <1>1, <3>1, <3>3
    <3>4. CASE p = o /\ decisions' = [decisions EXCEPT ![o] = 1] /\ r.started /\ Bulletin!Aired(o)
      <4>1. decisions'[o] = 1
        BY <3>4 DEF HandsInv, BulletinTypes, CountsType
      <4> QED
        BY <1>1, <3>4, <4>1
    <3> QED
      BY <3>2, <3>3, <3>4 DEF Tells
  <2>2. worker'.pc = "judge" /\ worker'.began => Bulletin!Aired(worker'.on)
    BY DEF Proceeds
  <2>3. bulletin_engine'.began => bulletin_engine'.id \in Occ /\ Bulletin!Aired(bulletin_engine'.id)
    BY <1>2 DEF AirsInv, Counted
  <2>4. worker'.pc = "judge" => worker'.on \in Occ
    BY DEF Proceeds
  <2> QED
    BY <1>3, <2>1, <2>2, <2>3, <2>4 DEF Counted
<1>13. Bulletin!AiredOnce'
  <2>1. \A p \in Occ : \A q \in 1..(MaxEdits + 1) : bodies'[p][q] <= 1
    BY <1>2 DEF AirsInv, Bulletin!AiredOnce
  <2>2. \A p \in Occ : decisions'[p] \in {0, 1} /\ (decisions'[p] = 1 => Bulletin!Aired(p)')
    <3>1. ASSUME NEW p \in Occ
          PROVE  /\ decisions'[p] = (IF bulletin_row'[p].started THEN 1 ELSE 0)
                 /\ decisions'[p] # 0 => Bulletin!Aired(p)'
      BY <1>12 DEF Counted
    <3> QED
      BY <3>1
  <2> QED
    BY <2>1, <2>2 DEF Bulletin!AiredOnce
<1> QED
  BY <1>6, <1>7, <1>8, <1>9, <1>11, <1>12, <1>13 DEF HandsInv, AirsInv

LEMMA RowFacts ==
  ASSUME BulletinInv, NEW o \in Occ
  PROVE  /\ bulletin_row[o] \in OccRow /\ bulletin_row[o].rev \in Nat \ {0}
         /\ bulletin_row[o].bulletin \in {0, bulletin_row[o].rev} /\ bulletin_row[o].fetch \in {0, bulletin_row[o].rev}
         /\ Pending(o) => ~bulletin_row[o].ready
BY DEF BulletinInv, HandsInv, BulletinTypes, RowsType, OccRow, Revision, Downloads

LEMMA FilesStay ==
  ASSUME BulletinInv, NEW o \in Occ, UNCHANGED <<bulletin_job, bulletin_file>>
  PROVE  Fetches(o, bulletin_row[o]) /\ JobsType' /\ FilesKnown'
BY DEF BulletinInv, HandsInv, BulletinTypes, JobsType, FilesKnown, Downloads, Fetches, Pending

(* A pass that ends with a row that is not pending any more.                *)
LEMMA RestStep ==
  ASSUME BulletinInv, worker.pc # "idle", NEW o \in Occ, NEW r \in OccRow, Writes(o, r), Tells(o, r), Quieter,
         worker' = Bulletin!Idle, r.state # "PENDING" \/ Fetches(o, r), JobsType', FilesKnown',
         \A p \in Occ \ {o} : bulletin_job'[p] = bulletin_job[p] /\ bulletin_file'[p] = bulletin_file[p]
  PROVE  BulletinInv'
<1>1. WorkerType' /\ Proceeds(o, r)
  BY DEF WorkerType, Proceeds, Bulletin!Idle, Bulletin!Holding
<1>2. Fetches(o, r)
  BY DEF Fetches
<1> QED
  BY <1>1, <1>2, RowStep

LEMMA FailsStep ==
  ASSUME BulletinInv, worker.pc # "idle", NEW o \in Occ, Quieter, worker' = Bulletin!Idle, UNCHANGED <<decisions, bulletin_edits>>,
         bulletin_row' = [bulletin_row EXCEPT ![o].state = "FAILED"], JobsType', FilesKnown',
         \A p \in Occ \ {o} : bulletin_job'[p] = bulletin_job[p] /\ bulletin_file'[p] = bulletin_file[p]
  PROVE  BulletinInv'
<1> PICK r : r = [bulletin_row[o] EXCEPT !.state = "FAILED"]
  OBVIOUS
<1>1. r \in OccRow /\ r.state = "FAILED" /\ r.rev = bulletin_row[o].rev /\ r.bulletin = bulletin_row[o].bulletin
      /\ r.fetch = bulletin_row[o].fetch /\ r.started = bulletin_row[o].started
  BY RowFacts DEF OccRow
<1>2. bulletin_row' = [bulletin_row EXCEPT ![o] = r]
  OBVIOUS
<1>3. Writes(o, r) /\ Tells(o, r)
  BY <1>1, <1>2, RowFacts DEF Writes, Tells
<1> QED
  BY <1>1, <1>3, RestStep

LEMMA PrepareKeeps == ASSUME BulletinInv, Bulletin!Prepare PROVE BulletinInv'
<1> PICK o \in Occ :
      /\ worker.on = o
      /\ \/ Bulletin!StartsFetch(o) \/ Bulletin!FetchInterrupted(o) \/ Bulletin!StillFetching(o)
         \/ Bulletin!FetchFailed(o) \/ Bulletin!FetchStale(o) \/ Bulletin!FetchDone(o) \/ Bulletin!FeedChosen(o)
         \/ Bulletin!Unavailable(o)
  BY DEF Bulletin!Prepare, Bulletin!StartsFetch, Bulletin!FetchInterrupted, Bulletin!StillFetching,
         Bulletin!FetchFailed, Bulletin!FetchStale, Bulletin!FetchDone, Bulletin!FeedChosen, Bulletin!Unavailable
<1>0. /\ worker.pc = "prepare" /\ UNCHANGED <<bulletin_engine, bodies, bulletin_edits, decisions>> /\ Pending(o)
      /\ EngineType /\ JobsType /\ FilesKnown /\ WorkerType
  BY DEF Bulletin!Prepare, Bulletin!NoCommand, Bulletin!engineVars, BulletinInv, HandsInv, InPass, BulletinTypes
<1>1. Quieter
  BY <1>0, StillQuiet
<1>2. /\ bulletin_row[o] \in OccRow /\ bulletin_row[o].rev \in Nat \ {0}
      /\ bulletin_row[o].bulletin \in {0, bulletin_row[o].rev} /\ bulletin_row[o].fetch \in {0, bulletin_row[o].rev}
      /\ ~bulletin_row[o].ready /\ bulletin_row[o].state = "PENDING"
  BY <1>0, RowFacts DEF Pending
<1>3. bulletin_job[o] \in [status : {"none", "running", "done", "failed"}, rev : Nat]
  BY <1>0 DEF JobsType
<1>4. CASE Bulletin!FetchInterrupted(o) \/ Bulletin!FetchFailed(o) \/ Bulletin!Unavailable(o)
  <2>1. /\ bulletin_row' = [bulletin_row EXCEPT ![o].state = "FAILED"] /\ worker' = Bulletin!Idle
        /\ \/ UNCHANGED bulletin_job
           \/ bulletin_job' = [bulletin_job EXCEPT ![o] = [status |-> "none", rev |-> 0]]
        /\ UNCHANGED bulletin_file \/ bulletin_file' = [bulletin_file EXCEPT ![o] = 0]
    BY <1>4 DEF Bulletin!FetchInterrupted, Bulletin!FetchFailed, Bulletin!Unavailable, Bulletin!Fails, Bulletin!Drop,
                Bulletin!Rests
  <2>2. JobsType' /\ \A p \in Occ \ {o} : bulletin_job'[p] = bulletin_job[p]
    BY <1>0, <2>1 DEF JobsType
  <2>3. FilesKnown' /\ \A p \in Occ \ {o} : bulletin_file'[p] = bulletin_file[p]
    BY <1>0, <2>1 DEF FilesKnown
  <2> QED
    BY <1>0, <1>1, <2>1, <2>2, <2>3, FailsStep
<1>5. CASE Bulletin!StartsFetch(o)
  <2> PICK r : r = [bulletin_row[o] EXCEPT !.bulletin = bulletin_row[o].rev, !.fetch = bulletin_row[o].rev]
    OBVIOUS
  <2>1. /\ r \in OccRow /\ r.rev = bulletin_row[o].rev /\ r.bulletin = r.rev /\ r.fetch = r.rev /\ r.state = "PENDING"
        /\ r.started = bulletin_row[o].started /\ ~r.ready
    BY <1>2 DEF OccRow
  <2>2. bulletin_row' = [bulletin_row EXCEPT ![o] = r]
    <3>1. (IF bulletin_row[o].bulletin = 0 THEN bulletin_row[o].rev ELSE bulletin_row[o].bulletin) = bulletin_row[o].rev
      BY <1>2
    <3>2. bulletin_row \in [Occ -> OccRow]
      BY DEF BulletinInv, HandsInv, BulletinTypes, RowsType
    <3> QED
      BY <1>5, <3>1, <3>2 DEF Bulletin!StartsFetch, OccRow
  <2>3. Writes(o, r) /\ Tells(o, r)
    BY <1>0, <1>2, <2>1, <2>2 DEF Writes, Tells
  <2>4. bulletin_row'[o] = r
    BY <2>2 DEF BulletinInv, HandsInv, BulletinTypes, RowsType
  <2>5. /\ bulletin_job' = [bulletin_job EXCEPT ![o] = [status |-> "running", rev |-> r.rev]]
        /\ UNCHANGED bulletin_file /\ worker' = Bulletin!Idle
    BY <1>5, <2>1, <2>4 DEF Bulletin!StartsFetch, Bulletin!Rests
  <2>6. JobsType' /\ FilesKnown' /\ Fetches(o, r)
    BY <1>0, <1>2, <2>1, <2>5 DEF JobsType, FilesKnown, Fetches
  <2> QED
    BY <1>0, <1>1, <2>1, <2>3, <2>5, <2>6, RestStep DEF Fetches
<1>6. CASE Bulletin!StillFetching(o)
  <2> PICK r : r = [bulletin_row[o] EXCEPT !.bulletin = bulletin_row[o].rev]
    OBVIOUS
  <2>1. /\ r \in OccRow /\ r.rev = bulletin_row[o].rev /\ r.bulletin = r.rev /\ r.fetch = bulletin_row[o].fetch
        /\ r.state = "PENDING" /\ r.started = bulletin_row[o].started /\ ~r.ready
    BY <1>2 DEF OccRow
  <2>2. bulletin_row' = [bulletin_row EXCEPT ![o] = r]
    <3>1. (IF bulletin_row[o].bulletin = 0 THEN bulletin_row[o].rev ELSE bulletin_row[o].bulletin) = bulletin_row[o].rev
      BY <1>2
    <3> QED
      BY <1>6, <3>1 DEF Bulletin!StillFetching
  <2>3. Writes(o, r) /\ Tells(o, r)
    BY <1>0, <1>2, <2>1, <2>2 DEF Writes, Tells
  <2>4. UNCHANGED <<bulletin_job, bulletin_file>> /\ worker' = Bulletin!Idle
    BY <1>6 DEF Bulletin!StillFetching, Bulletin!Rests
  <2>5. JobsType' /\ FilesKnown' /\ Fetches(o, r)
    BY <1>2, <2>1, <2>4, FilesStay DEF Fetches
  <2> QED
    BY <1>0, <1>1, <2>1, <2>3, <2>4, <2>5, RestStep DEF Fetches
<1>7. CASE Bulletin!FetchStale(o)
  <2> PICK r : r = [bulletin_row[o] EXCEPT !.bulletin = bulletin_row[o].rev, !.fetch = 0]
    OBVIOUS
  <2>1. /\ r \in OccRow /\ r.rev = bulletin_row[o].rev /\ r.bulletin = r.rev /\ r.fetch = 0
        /\ r.state = "PENDING" /\ r.started = bulletin_row[o].started /\ ~r.ready
    BY <1>2 DEF OccRow
  <2>2. bulletin_row' = [bulletin_row EXCEPT ![o] = r]
    <3>1. (IF bulletin_row[o].bulletin = 0 THEN bulletin_row[o].rev ELSE bulletin_row[o].bulletin) = bulletin_row[o].rev
      BY <1>2
    <3>2. bulletin_row \in [Occ -> OccRow]
      BY DEF BulletinInv, HandsInv, BulletinTypes, RowsType
    <3> QED
      BY <1>7, <3>1, <3>2 DEF Bulletin!FetchStale, OccRow
  <2>3. Writes(o, r) /\ Tells(o, r)
    BY <1>0, <1>2, <2>1, <2>2 DEF Writes, Tells
  <2>4. /\ bulletin_job' = [bulletin_job EXCEPT ![o] = [status |-> "none", rev |-> 0]]
        /\ bulletin_file' = [bulletin_file EXCEPT ![o] = 0] /\ worker' = Bulletin!Idle
    BY <1>7 DEF Bulletin!FetchStale, Bulletin!Rests, Bulletin!Drop
  <2>5. JobsType' /\ FilesKnown' /\ Fetches(o, r)
    BY <1>0, <2>1, <2>4 DEF JobsType, FilesKnown, Fetches
  <2> QED
    BY <1>0, <1>1, <2>1, <2>3, <2>4, <2>5, RestStep DEF Fetches
<1>8. CASE Bulletin!FetchDone(o) \/ Bulletin!FeedChosen(o)
  <2> PICK r : r = [bulletin_row[o] EXCEPT !.state = "READY", !.ready = TRUE, !.era = bulletin_engine.era,
                                           !.bulletin = bulletin_row[o].rev]
    OBVIOUS
  <2>1. /\ r \in OccRow /\ r.rev = bulletin_row[o].rev /\ r.bulletin = r.rev /\ r.fetch = bulletin_row[o].fetch
        /\ r.state = "READY" /\ r.started = bulletin_row[o].started
    BY <1>0, <1>2 DEF OccRow, EngineType
  <2>2. \E rev : Bulletin!MarksReady(o, rev) /\ rev = r.rev
    <3>1. CASE Bulletin!FeedChosen(o)
      BY <2>1, <3>1 DEF Bulletin!FeedChosen
    <3>2. CASE Bulletin!FetchDone(o)
      <4>1. bulletin_row[o].fetch = bulletin_row[o].rev /\ bulletin_job[o].status = "done"
        BY <3>2 DEF Bulletin!FetchDone, Bulletin!Stale
      <4>2. bulletin_file[o] = bulletin_row[o].rev
        BY <1>0, <1>2, <4>1 DEF BulletinInv, HandsInv, Downloads
      <4> QED
        BY <2>1, <3>2, <4>2 DEF Bulletin!FetchDone
    <3> QED
      BY <1>8, <3>1, <3>2
  <2>3. PICK rev : Bulletin!MarksReady(o, rev) /\ rev = r.rev
    BY <2>2
  <2>4. bulletin_row' = [bulletin_row EXCEPT ![o] = r]
    <3>1. (IF bulletin_row[o].bulletin = 0 THEN bulletin_row[o].rev ELSE bulletin_row[o].bulletin) = bulletin_row[o].rev
      BY <1>2
    <3>2. bulletin_row \in [Occ -> OccRow]
      BY DEF BulletinInv, HandsInv, BulletinTypes, RowsType
    <3> QED
      BY <2>3, <3>1, <3>2 DEF Bulletin!MarksReady, OccRow
  <2>5. Writes(o, r) /\ Tells(o, r)
    BY <1>0, <1>2, <2>1, <2>4 DEF Writes, Tells
  <2>6. /\ UNCHANGED bulletin_file
        /\ UNCHANGED bulletin_job \/ bulletin_job' = [bulletin_job EXCEPT ![o] = [status |-> "none", rev |-> 0]]
    BY <1>8 DEF Bulletin!FetchDone, Bulletin!FeedChosen, Bulletin!Drop
  <2>7. JobsType' /\ FilesKnown' /\ Fetches(o, r)
    BY <1>0, <2>1, <2>6 DEF JobsType, FilesKnown, Fetches
  <2>8. worker' = [worker EXCEPT !.pc = "hand", !.rev = r.rev]
    BY <2>3 DEF Bulletin!MarksReady
  <2>9. WorkerType' /\ Proceeds(o, r)
    BY <1>0, <1>2, <2>1, <2>8 DEF WorkerType, Proceeds
  <2> QED
    BY <1>0, <1>1, <2>1, <2>5, <2>7, <2>9, RowStep
<1> QED
  BY <1>4, <1>5, <1>6, <1>7, <1>8

(* A pass that leaves the rows alone.                                       *)
LEMMA RowStays ==
  ASSUME BulletinInv, worker.pc # "idle", NEW o \in Occ, Quieter,
         UNCHANGED <<bulletin_row, bulletin_edits, bulletin_job, bulletin_file, decisions>>,
         Proceeds(o, bulletin_row[o]), WorkerType'
  PROVE  BulletinInv'
<1>1. bulletin_row' = [bulletin_row EXCEPT ![o] = bulletin_row[o]]
  BY DEF BulletinInv, HandsInv, BulletinTypes, RowsType
<1>2. Writes(o, bulletin_row[o]) /\ Tells(o, bulletin_row[o])
  BY <1>1, RowFacts DEF Writes, Tells, Pending
<1> QED
  BY <1>2, RowFacts, FilesStay, RowStep

LEMMA ObserveKeeps == ASSUME BulletinInv, Bulletin!Observe PROVE BulletinInv'
<1> PICK o : o = worker.on
  OBVIOUS
<1>1. /\ worker.pc = "observe" /\ UNCHANGED <<bulletin_engine, bodies, bulletin_edits, decisions, bulletin_job>>
      /\ EngineType /\ JobsType /\ FilesKnown /\ WorkerType
  BY DEF Bulletin!Observe, Bulletin!NoCommand, Bulletin!engineVars, BulletinInv, HandsInv, BulletinTypes
<1>2. Quieter /\ o \in Occ /\ ~Pending(o)
  BY <1>1, StillQuiet DEF BulletinInv, HandsInv, InPass, Acting
<1>3. CASE Bulletin!Known(o)
  <2>1. /\ UNCHANGED <<bulletin_row, bulletin_file>> /\ bulletin_engine.id = o
        /\ worker' = [worker EXCEPT !.pc = "judge", !.seen = bulletin_engine.phase, !.began = bulletin_engine.began]
    BY <1>3 DEF Bulletin!Observe, Bulletin!Known
  <2>2. bulletin_engine.began => Bulletin!Aired(o)
    BY <2>1 DEF BulletinInv, AirsInv, Counted
  <2>3. WorkerType' /\ Proceeds(o, bulletin_row[o])
    BY <1>1, <1>2, <2>1, <2>2 DEF WorkerType, EngineType, Proceeds, Pending
  <2> QED
    BY <1>1, <1>2, <2>1, <2>3, RowStays
<1>4. CASE ~Bulletin!Known(o)
  <2>1. /\ bulletin_row' = [bulletin_row EXCEPT ![o].state = "FAILED"] /\ bulletin_file' = [bulletin_file EXCEPT ![o] = 0]
        /\ worker' = Bulletin!Idle
    BY <1>4 DEF Bulletin!Observe, Bulletin!Fails, Bulletin!Rests
  <2>2. FilesKnown' /\ JobsType' /\ \A p \in Occ \ {o} : bulletin_file'[p] = bulletin_file[p]
    BY <1>1, <2>1 DEF FilesKnown, JobsType
  <2> QED
    BY <1>1, <1>2, <2>1, <2>2, FailsStep
<1> QED
  BY <1>3, <1>4

LEMMA CommitKeeps == ASSUME BulletinInv, Bulletin!Commit PROVE BulletinInv'
<1> PICK o : o = worker.on
  OBVIOUS
<1>1. /\ worker.pc = "commit" /\ EngineType /\ worker' = Bulletin!Idle
      /\ UNCHANGED <<bulletin_engine, bodies, bulletin_edits, decisions, bulletin_job, bulletin_file>>
      /\ bulletin_row' = [bulletin_row EXCEPT ![o].state = "QUEUED"]
  BY DEF Bulletin!Commit, Bulletin!NoCommand, Bulletin!engineVars, Bulletin!Rests, BulletinInv, HandsInv, BulletinTypes
<1>2. Quieter /\ o \in Occ
  BY <1>1, StillQuiet DEF BulletinInv, HandsInv, InPass, Acting
<1> PICK r : r = [bulletin_row[o] EXCEPT !.state = "QUEUED"]
  OBVIOUS
<1>3. r \in OccRow /\ r.state = "QUEUED" /\ r.rev = bulletin_row[o].rev /\ r.bulletin = bulletin_row[o].bulletin
      /\ r.fetch = bulletin_row[o].fetch /\ r.started = bulletin_row[o].started
  BY <1>2, RowFacts DEF OccRow
<1>4. bulletin_row' = [bulletin_row EXCEPT ![o] = r]
  BY <1>1
<1>5. Writes(o, r) /\ Tells(o, r)
  BY <1>1, <1>2, <1>3, <1>4, RowFacts DEF Writes, Tells
<1> QED
  BY <1>1, <1>2, <1>3, <1>5, RestStep, FilesStay

LEMMA JudgeKeeps == ASSUME BulletinInv, Bulletin!Judge PROVE BulletinInv'
<1> PICK o : o = worker.on
  OBVIOUS
<1>1. /\ worker.pc = "judge" /\ EngineType /\ JobsType /\ FilesKnown /\ WorkerType
      /\ UNCHANGED <<bulletin_edits, bulletin_job>> /\ bulletin_row \in [Occ -> OccRow]
      /\ Bulletin!Over(o) \/ Bulletin!IsPlaying(o) \/ Bulletin!GivesUp(o) \/ Bulletin!NotYet(o) \/ Bulletin!Arms(o)
  BY DEF Bulletin!Judge, BulletinInv, HandsInv, BulletinTypes, RowsType
<1>2. o \in Occ /\ ~Pending(o) /\ JobsType' /\ (worker.began => Bulletin!Aired(o))
  BY <1>1 DEF BulletinInv, HandsInv, InPass, Acting, JobsType, AirsInv, Counted
<1>3. CASE Bulletin!Over(o) \/ Bulletin!IsPlaying(o)
  <2> DEFINE ends == IF Bulletin!Over(o) THEN worker.seen ELSE "STARTED"
  <2>1. /\ Bulletin!Records(o) /\ Bulletin!Becomes(o, ends) /\ worker' = Bulletin!Idle /\ UNCHANGED <<bulletin_engine, bodies>>
        /\ UNCHANGED bulletin_file \/ bulletin_file' = [bulletin_file EXCEPT ![o] = 0]
        /\ ends \in {"FAILED", "COMPLETED", "STARTED"}
    BY <1>3 DEF Bulletin!Over, Bulletin!IsPlaying, Bulletin!Rests, Bulletin!NoCommand, Bulletin!engineVars
  <2> HIDE DEF ends
  <2> PICK r : r = [bulletin_row[o] EXCEPT !.state = ends, !.started = bulletin_row[o].started \/ worker.began]
    OBVIOUS
  <2>2. bulletin_row[o] \in OccRow /\ bulletin_row[o].started \in BOOLEAN /\ worker.began \in BOOLEAN
    BY <1>1, <1>2 DEF OccRow, WorkerType
  <2>3. /\ r.state = ends /\ r.rev = bulletin_row[o].rev /\ r.bulletin = bulletin_row[o].bulletin
        /\ r.fetch = bulletin_row[o].fetch /\ r.started = (bulletin_row[o].started \/ worker.began)
    BY <2>2 DEF OccRow
  <2>4. r \in OccRow
    BY <2>1, <2>2 DEF OccRow
  <2>5. bulletin_row' = [bulletin_row EXCEPT ![o] = r]
    BY <1>1, <2>1 DEF Bulletin!Becomes, OccRow
  <2>6. Writes(o, r)
    BY <1>1, <1>2, <2>1, <2>3, <2>5, RowFacts DEF Writes
  <2>7. Tells(o, r)
    <3>1. CASE Bulletin!Counts(o)
      <4>1. ~bulletin_row[o].started /\ worker.began /\ decisions' = [decisions EXCEPT ![o] = @ + 1]
        BY <2>1, <3>1 DEF Bulletin!Records, Bulletin!Counts
      <4>2. decisions[o] = 0
        BY <1>2, <4>1 DEF BulletinInv, AirsInv, Counted
      <4>3. decisions' = [decisions EXCEPT ![o] = 1]
        BY <4>1, <4>2
      <4> QED
        BY <1>2, <2>3, <4>1, <4>3 DEF Tells
    <3>2. CASE ~Bulletin!Counts(o)
      BY <2>1, <2>2, <2>3, <3>2 DEF Bulletin!Records, Bulletin!Counts, Tells
    <3> QED
      BY <3>1, <3>2
  <2>8. FilesKnown' /\ \A p \in Occ \ {o} : bulletin_file'[p] = bulletin_file[p]
    BY <1>1, <2>1 DEF FilesKnown
  <2> QED
    BY <1>1, <1>2, <2>1, <2>3, <2>4, <2>6, <2>7, <2>8, StillQuiet, RestStep
<1>4. ASSUME Bulletin!CancelIn(o), Bulletin!Fails(o), Bulletin!Rests, UNCHANGED decisions
      PROVE  BulletinInv'
  <2>1. Quieter
    BY <1>1, <1>4, FinishQuiets, StillQuiet DEF Bulletin!CancelIn, Bulletin!NoCommand, Bulletin!engineVars
  <2>2. /\ bulletin_row' = [bulletin_row EXCEPT ![o].state = "FAILED"] /\ bulletin_file' = [bulletin_file EXCEPT ![o] = 0]
        /\ worker' = Bulletin!Idle
    BY <1>4 DEF Bulletin!Fails, Bulletin!Rests
  <2>3. FilesKnown' /\ \A p \in Occ \ {o} : bulletin_file'[p] = bulletin_file[p]
    BY <1>1, <2>2 DEF FilesKnown
  <2> QED
    BY <1>1, <1>2, <1>4, <2>1, <2>2, <2>3, FailsStep
<1>5. CASE Bulletin!GivesUp(o)
  BY <1>4, <1>5 DEF Bulletin!GivesUp
<1>6. CASE Bulletin!NotYet(o)
  <2>1. /\ worker' = Bulletin!Idle
        /\ UNCHANGED <<bulletin_engine, bodies, bulletin_row, bulletin_file, decisions>>
    BY <1>6 DEF Bulletin!NotYet, Bulletin!Rests, Bulletin!NoCommand, Bulletin!engineVars
  <2>2. WorkerType' /\ Proceeds(o, bulletin_row[o])
    BY <2>1 DEF WorkerType, Proceeds, Bulletin!Idle, Bulletin!Holding
  <2> QED
    BY <1>1, <1>2, <2>1, <2>2, StillQuiet, RowStays
<1>7. CASE Bulletin!Arms(o)
  <2>1. CASE bus.of \in {"none", o}
    <3>1. /\ worker' = [worker EXCEPT !.pc = "commit"]
          /\ UNCHANGED <<bulletin_engine, bodies, bulletin_row, bulletin_file, decisions>>
      BY <1>7, <2>1 DEF Bulletin!Arms, Bulletin!Goes
    <3>2. WorkerType' /\ Proceeds(o, bulletin_row[o])
      BY <1>1, <1>2, <3>1 DEF WorkerType, Proceeds, Pending, BulletinInv, HandsInv, InPass
    <3> QED
      BY <1>1, <1>2, <3>1, <3>2, StillQuiet, RowStays
  <2>2. CASE bus.of \notin {"none", o}
    BY <1>4, <1>7, <2>2 DEF Bulletin!Arms
  <2> QED
    BY <2>1, <2>2
<1> QED
  BY <1>1, <1>3, <1>5, <1>6, <1>7

LEMMA HandKeeps == ASSUME BulletinInv, Bulletin!Hand PROVE BulletinInv'
<1> PICK o : o = worker.on
  OBVIOUS
<1>1. /\ worker.pc = "hand" /\ EngineType /\ JobsType /\ FilesKnown /\ WorkerType /\ Bulletin!Takes(o)
      /\ UNCHANGED <<bulletin_edits, bulletin_job, decisions>>
  BY DEF Bulletin!Hand, BulletinInv, HandsInv, BulletinTypes
<1>2. o \in Occ /\ ~Pending(o) /\ worker.rev = bulletin_row[o].rev
  BY <1>1 DEF BulletinInv, HandsInv, InPass, Acting
<1>3. ASSUME Bulletin!Goes("observe"), UNCHANGED <<bulletin_row, bulletin_file>>
      PROVE  WorkerType' /\ Proceeds(o, bulletin_row[o]) /\ worker'.pc = "observe" /\ worker'.on = o
  BY <1>1, <1>2, <1>3 DEF WorkerType, Proceeds, Pending, Bulletin!Goes
<1>4. CASE bulletin_engine.id = o
  <2>1. Bulletin!Goes("observe") /\ UNCHANGED <<bulletin_engine, bodies, bulletin_row, bulletin_file>>
    BY <1>1, <1>4 DEF Bulletin!Takes, Bulletin!NoCommand, Bulletin!engineVars
  <2> QED
    BY <1>1, <1>2, <1>3, <2>1, StillQuiet, RowStays
<1>5. CASE bulletin_engine.id # o /\ ~Bulletin!Accepts(o)
  <2>1. /\ bulletin_row' = [bulletin_row EXCEPT ![o].state = "FAILED"] /\ bulletin_file' = [bulletin_file EXCEPT ![o] = 0]
        /\ worker' = Bulletin!Idle /\ UNCHANGED <<bulletin_engine, bodies>>
    BY <1>1, <1>5 DEF Bulletin!Takes, Bulletin!NoCommand, Bulletin!engineVars, Bulletin!Fails, Bulletin!Rests
  <2>2. FilesKnown' /\ JobsType' /\ \A p \in Occ \ {o} : bulletin_file'[p] = bulletin_file[p]
    BY <1>1, <2>1 DEF FilesKnown, JobsType
  <2> QED
    BY <1>1, <1>2, <2>1, <2>2, StillQuiet, FailsStep
<1>6. CASE bulletin_engine.id # o /\ Bulletin!Accepts(o)
  <2> PICK n : n = bulletin_row[o].rev
    OBVIOUS
  <2>1. /\ bulletin_engine' = [id |-> o, phase |-> "PREPARING", heard |-> FALSE, began |-> FALSE,
                               rev |-> n, era |-> bulletin_engine.era]
        /\ Bulletin!Goes("observe") /\ UNCHANGED <<bulletin_row, bulletin_file, bodies>>
    BY <1>1, <1>2, <1>6 DEF Bulletin!Takes
  <2>2. n \in Revision /\ n \in Nat
    BY <1>2, RowFacts DEF OccRow
  <2>3. worker'.pc = "observe" /\ worker'.on = o /\ WorkerType'
    BY <1>3, <2>1
  <2>4. EngineType' /\ bulletin_engine'.id = o /\ bulletin_engine'.rev = n /\ ~bulletin_engine'.began
    BY <1>1, <1>2, <2>1, <2>2 DEF EngineType, Bulletin!Holding
  <2>5. BulletinTypes'
    BY <1>1, <2>1, <2>3, <2>4 DEF BulletinInv, HandsInv, BulletinTypes, RowsType, JobsType, FilesKnown, CountsType
  <2>6. InPass' /\ Dropped' /\ Downloads'
    BY <1>1, <1>2, <2>1, <2>2, <2>3, <2>4 DEF BulletinInv, HandsInv, InPass, Acting, Dropped, Downloads, Pending
  <2>7. bodies[o][n] = 0
    BY <1>1, <1>2, <2>2 DEF BulletinInv, AirsInv, GivenOnce, Given
  <2>8. GivenOnce'
    <3>1. ASSUME NEW p \in Occ, NEW q \in Revision, Given(p, q)'
          PROVE  \/ q < bulletin_row'[p].rev
                 \/ q = bulletin_row'[p].rev /\ ~Pending(p)' /\ ~(worker'.pc = "hand" /\ worker'.on = p)
      <4>1. CASE p = o /\ q = n
        BY <1>2, <2>1, <2>3, <4>1 DEF Pending
      <4>2. CASE ~(p = o /\ q = n)
        <5>1. Given(p, q)
          BY <2>1, <2>4, <3>1, <4>2 DEF Given
        <5> QED
          BY <2>1, <2>3, <5>1 DEF BulletinInv, AirsInv, GivenOnce, Pending
      <4> QED
        BY <4>1, <4>2
    <3> QED
      BY <2>1, <2>4, <2>7, <3>1 DEF GivenOnce
  <2>9. Counted' /\ Bulletin!AiredOnce'
    BY <1>1, <2>1, <2>3, <2>4 DEF BulletinInv, AirsInv, Counted, Bulletin!AiredOnce, Bulletin!Aired
  <2> QED
    BY <2>5, <2>6, <2>8, <2>9 DEF BulletinInv, HandsInv, AirsInv
<1> QED
  BY <1>4, <1>5, <1>6

LEMMA LookKeeps == ASSUME BulletinInv, Bulletin!Look PROVE BulletinInv'
<1>1. /\ worker.pc = "idle" /\ EngineType /\ JobsType /\ FilesKnown /\ RowsType
      /\ IF Bulletin!Old THEN Bulletin!Finish("FAILED") ELSE Bulletin!NoCommand
      /\ UNCHANGED <<bulletin_row, bulletin_edits, decisions>>
  BY DEF Bulletin!Look, Bulletin!db, BulletinInv, HandsInv, BulletinTypes
<1>2. Quieter
  BY <1>1, FinishQuiets, StillQuiet DEF Bulletin!NoCommand, Bulletin!engineVars
<1>3. /\ EngineType' /\ UNCHANGED bodies /\ bulletin_engine'.id = bulletin_engine.id
      /\ bulletin_engine'.rev = bulletin_engine.rev /\ bulletin_engine'.began = bulletin_engine.began
      /\ Held' => Held
      /\ bulletin_engine'.phase \in Before => bulletin_engine.phase \in Before
  BY <1>1, <1>2, QuietFacts
<1>4. Bulletin!Old => ~Held'
  BY <1>1 DEF EngineType, Held, Bulletin!Holding, Bulletin!Finish, Bulletin!Finished
<1>5. \E allow \in BOOLEAN, o \in Occ \cup {"none"} :
        worker' = IF o = "none" THEN Bulletin!Idle
                  ELSE [Bulletin!Idle EXCEPT !.pc = IF bulletin_row[o].state = "PENDING" THEN "prepare" ELSE "observe",
                                             !.on = o, !.allow = allow]
  BY DEF Bulletin!Look, Bulletin!Chosen, Bulletin!Active, Bulletin!Waiting
<1>6. PICK allow \in BOOLEAN, o \in Occ \cup {"none"} :
        worker' = IF o = "none" THEN Bulletin!Idle
                  ELSE [Bulletin!Idle EXCEPT !.pc = IF bulletin_row[o].state = "PENDING" THEN "prepare" ELSE "observe",
                                             !.on = o, !.allow = allow]
  BY <1>5
<1>7. WorkerType' /\ InPass' /\ worker'.pc \in {"idle", "prepare", "observe"}
  BY <1>1, <1>6 DEF WorkerType, InPass, Acting, Pending, Bulletin!Idle, Bulletin!Holding
<1>8. \A p \in Occ :
        /\ bulletin_job'[p] = IF p \in Bulletin!Reaped THEN [status |-> "none", rev |-> 0] ELSE bulletin_job[p]
        /\ bulletin_file'[p] = IF p \in Bulletin!Reaped \/ (Bulletin!Old /\ p = bulletin_engine.id) THEN 0
                               ELSE bulletin_file[p]
  BY DEF Bulletin!Look
<1>9. JobsType' /\ FilesKnown'
  <2>1. /\ bulletin_job' = [p \in Occ |-> IF p \in Bulletin!Reaped THEN [status |-> "none", rev |-> 0] ELSE bulletin_job[p]]
        /\ bulletin_file' = [p \in Occ |-> IF p \in Bulletin!Reaped \/ (Bulletin!Old /\ p = bulletin_engine.id) THEN 0
                                           ELSE bulletin_file[p]]
    BY DEF Bulletin!Look
  <2> QED
    BY <1>1, <2>1 DEF JobsType, FilesKnown
<1>10. CountsType'
  BY <1>1, <1>3 DEF BulletinInv, HandsInv, BulletinTypes, CountsType
<1>11. Dropped'
  <2>1. Held' => Held /\ ~Bulletin!Old
    BY <1>3, <1>4
  <2>2. Held /\ ~Bulletin!Old => bulletin_engine.id \in Occ /\ ~Pending(bulletin_engine.id)
    BY DEF Held, Bulletin!Old, Bulletin!Abandoned, BulletinInv, HandsInv, Dropped, Downloads, Pending
  <2> QED
    BY <1>1, <1>3, <2>1, <2>2 DEF BulletinInv, HandsInv, Dropped, Pending
<1>12. Downloads'
  <2>1. ASSUME NEW p \in Occ, Pending(p), bulletin_row[p].fetch # 0
        PROVE  UNCHANGED <<bulletin_job[p], bulletin_file[p]>>
    <3>1. p \notin Bulletin!Reaped
      BY <2>1 DEF Bulletin!Reaped, Pending
    <3>2. ~(Bulletin!Old /\ p = bulletin_engine.id)
      BY <2>1 DEF Bulletin!Old, BulletinInv, HandsInv, Dropped, Held
    <3> QED
      BY <1>8, <3>1, <3>2
  <2> QED
    BY <1>1, <2>1 DEF BulletinInv, HandsInv, Downloads, Pending
<1>13. GivenOnce'
  BY <1>1, <1>3, <1>7 DEF BulletinInv, AirsInv, GivenOnce, Given, Pending, Before
<1>14. Counted' /\ Bulletin!AiredOnce'
  BY <1>1, <1>3, <1>7 DEF BulletinInv, AirsInv, Counted, Bulletin!AiredOnce, Bulletin!Aired
<1>15. RowsType'
  BY <1>1 DEF RowsType
<1> QED
  BY <1>3, <1>7, <1>9, <1>10, <1>11, <1>12, <1>13, <1>14, <1>15 DEF BulletinInv, HandsInv, BulletinTypes, AirsInv

LEMMA WorkerDiesKeeps == ASSUME BulletinInv, Bulletin!WorkerDies PROVE BulletinInv'
<1>1. /\ worker' = Bulletin!Idle /\ bulletin_job' = [o \in Occ |-> [status |-> "none", rev |-> 0]]
      /\ UNCHANGED <<bulletin_row, bulletin_edits, bulletin_file, bulletin_engine, bodies, decisions>>
  BY DEF Bulletin!WorkerDies, Bulletin!Rests, Bulletin!db, Bulletin!engineVars
<1>2. worker'.pc = "idle" /\ WorkerType'
  BY <1>1 DEF WorkerType, Bulletin!Idle, Bulletin!Holding
<1>3. BulletinTypes'
  BY <1>1, <1>2 DEF BulletinInv, HandsInv, BulletinTypes, RowsType, JobsType, FilesKnown, EngineType, CountsType
<1>4. InPass' /\ Dropped' /\ Downloads'
  BY <1>1, <1>2 DEF BulletinInv, HandsInv, InPass, Acting, Dropped, Downloads, Pending, Held
<1>5. AirsInv'
  BY <1>1, <1>2 DEF BulletinInv, AirsInv, GivenOnce, Given, Pending, Counted, Bulletin!AiredOnce, Bulletin!Aired
<1> QED
  BY <1>3, <1>4, <1>5 DEF BulletinInv, HandsInv

LEMMA BulletinKept == ASSUME MaxEdits \in Nat, BulletinInv, Bulletin!Next PROVE BulletinInv'
<1>1. ASSUME NEW o \in Occ, OperatorSteps(o) PROVE BulletinInv'
  BY <1>1, OperatorStepsKeep, OperatorStepsAir DEF BulletinInv
<1>2. CASE EngineSteps
  BY <1>2, EngineStepsKeep, EngineStepsAir DEF BulletinInv
<1>3. CASE Bulletin!Worker
  BY <1>3, LookKeeps, PrepareKeeps, HandKeeps, ObserveKeeps, JudgeKeeps, CommitKeeps DEF Bulletin!Worker
<1> QED
  BY <1>1, <1>2, <1>3, WorkerDiesKeeps DEF Bulletin!Next, OperatorSteps, EngineSteps

(* Only a hand-over makes the engine prepare.                               *)
LEMMA OnlyHandPrepares ==
  ASSUME BulletinInv, Bulletin!Next, bulletin_engine'.phase = "PREPARING", bulletin_engine.phase # "PREPARING"
  PROVE  bulletin_engine'.rev = bulletin_row[bulletin_engine'.id].rev
<1>0. EngineType
  BY DEF BulletinInv, HandsInv, BulletinTypes
<1>1. ~Quieter
  BY <1>0, QuietFacts
<1>2. bulletin_engine' # bulletin_engine
  OBVIOUS
<1>3. ~EngineSteps
  <2>1. ~BodyBegins
    BY <1>0 DEF BodyBegins, EngineType
  <2>2. ~BeginsAgain
    BY DEF BeginsAgain, Bulletin!Unused
  <2> QED
    BY <1>0, <1>1, <2>1, <2>2, EngineMoves
<1>4. ASSUME NEW phase \in {"FAILED", "COMPLETED"} PROVE ~Bulletin!Finish(phase)
  BY <1>0, <1>1, FinishQuiets
<1>5. Bulletin!Hand
  BY <1>2, <1>3, <1>4 DEF Bulletin!Next, EngineSteps, Bulletin!Passes, Bulletin!Edit, Bulletin!Cancel, Bulletin!Expire,
     Bulletin!Fetched, Bulletin!FetchFails, Bulletin!engineVars, Bulletin!Worker, Bulletin!Look, Bulletin!Prepare,
     Bulletin!NoCommand, Bulletin!Observe, Bulletin!Judge, Bulletin!Over, Bulletin!IsPlaying, Bulletin!GivesUp,
     Bulletin!NotYet, Bulletin!Arms, Bulletin!CancelIn, Bulletin!Commit, Bulletin!WorkerDies
<1>6. worker.pc = "hand" /\ worker.on \in Occ /\ worker.rev = bulletin_row[worker.on].rev
  BY <1>5 DEF Bulletin!Hand, BulletinInv, HandsInv, InPass
<1>7. bulletin_engine'.id = worker.on /\ bulletin_engine'.rev = worker.rev
  BY <1>2, <1>5 DEF Bulletin!Hand, Bulletin!Takes, Bulletin!NoCommand, Bulletin!engineVars
<1> QED
  BY <1>6, <1>7

----------------------------------------------------------------------------
(* What is reported of a broadcast.  From the moment the job of the timer    *)
(* reads the newest request to its report, no operator's command runs; a     *)
(* newer request raises the revision, and a deletion takes the station off   *)
(* the air by itself.  The unit is what the switch made it, because one that *)
(* runs has its configuration and comes back when the engine dies.           *)

Playable ==
  /\ stream.active # <<>> /\ (stream.status \in Stations!Busy => stream.pending # <<>>)
  /\ \A b \in stations_files.saved : b[2] # <<>>
  /\ unit.on => stations_files.config # <<>>
Permitted ==
  /\ stations_row.rev \in Nat
  /\ stations_row.life = "ready" /\ ~stations_row.enabled => stations_row.desired = "stopped"
  /\ stations_row.life = "ready" /\ Cli \in {"c_render", "c_start", "c_wait"} => stations_row.enabled
  /\ (\E p \in Stations!Proc : stations_pc[p] = "provisioned") /\ stations_row.life # "pending_delete"
       => stations_row.enabled
Switching == Timer \in {"switch", "await", "report"}
Reporting ==
  Switching =>
    /\ held["timer"].rev \in Nat /\ held["timer"].rev <= stations_row.rev
    /\ held["timer"].running \in BOOLEAN /\ held["timer"].failed \in BOOLEAN
    /\ held["timer"].rev = stations_row.rev /\ stations_row.life = "ready" =>
         held["timer"].running = (stations_row.desired = "running")
    /\ Timer = "report" /\ ~held["timer"].failed => unit.on = held["timer"].running

LEMMA PlayableKept == ASSUME ~Overlap, StationInv, Playable, Stations!Next PROVE Playable'
<1> USE DEF Stations!stored, Stations!machine, Stations!Asks, Stations!Fault, Stations!Quiet, Stations!Keeps, Stations!Goes
<1>0. StreamType /\ FilesType /\ UnitType
  BY DEF StationInv, StationTyped
<1>1. ASSUME UNCHANGED <<stream, stations_files, unit>> PROVE Playable'
  BY <1>1 DEF Playable
<1>2. CASE Stations!Browser
  <2>1. CASE UNCHANGED stream
    BY <1>1, <1>2, <2>1 DEF Stations!Browser, Stations!RequestBroadcast, Stations!QueueListing,
       Stations!QueueSettings, Stations!RequestDelete, Stations!Retry
  <2>2. ASSUME NEW values \in Stations!Settings, Stations!QueueSettings(values) PROVE Playable'
    <3>1. values # <<>>
      BY DEF Stations!Settings
    <3> QED
      BY <1>0, <2>2, <3>1 DEF Stations!QueueSettings, Playable, StreamType
  <2> QED
    BY <1>2, <2>1, <2>2 DEF Stations!Browser, Stations!RequestBroadcast, Stations!QueueListing,
       Stations!RequestDelete, Stations!Retry
(* The unit starts with a configuration, or not at all. *)
<1>3. ASSUME UNCHANGED <<stream, stations_files>>, unit'.on => unit.on \/ stations_files.config # <<>> PROVE Playable'
  BY <1>3 DEF Playable
<1>4. CASE \/ Stations!EngineDies \/ Stations!Reboot \/ (\E p \in Stations!Proc : Stations!Dies(p))
  BY <1>0, <1>3, <1>4 DEF Stations!EngineDies, Stations!Reboot, Stations!Dies, Stations!Restarted, UnitType
<1>5. CASE \/ Stations!Wakes \/ Stations!NoBroadcast \/ Stations!BeginBroadcast \/ Stations!SwitchUnit
           \/ Stations!SwitchFails \/ Stations!Await \/ Stations!Report
  BY <1>0, <1>3, <1>5 DEF Stations!Wakes, Stations!NoBroadcast, Stations!Still, Stations!BeginBroadcast,
     Stations!SwitchUnit, Stations!SwitchFails, Stations!Await, Stations!Report, Stations!Started, Stations!Stopped,
     UnitType
<1>6. ASSUME NEW p \in Stations!Proc, Stations!Lifecycle(p) PROVE Playable'
  <2>1. CASE \/ Stations!NoLifecycle(p) \/ Stations!BeginLifecycle(p) \/ Stations!Provisioned(p) \/ Stations!Delete(p)
             \/ Stations!CreateFails(p) \/ Stations!DeleteFails(p) \/ Stations!StopUnit(p) \/ Stations!StopFails(p)
    BY <1>0, <1>3, <2>1 DEF Stations!NoLifecycle, Stations!Still, Stations!BeginLifecycle, Stations!Provisioned,
       Stations!Delete, Stations!CreateFails, Stations!DeleteFails, Stations!StopUnit, Stations!StopFails,
       Stations!Stopped, UnitType
  <2>2. CASE Stations!Render(p) \/ Stations!RenderFails(p)
    <3>1. /\ UNCHANGED <<stream, unit>> /\ stations_files'.saved = stations_files.saved
          /\ stations_files'.config \in {stations_files.config, stream.active}
      BY <1>0, <2>2 DEF Stations!Render, Stations!RenderFails, Stations!Rendered, FilesType
    <3> QED
      BY <3>1 DEF Playable
  <2>3. CASE Stations!Unlink(p) \/ Stations!UnlinkFails(p)
    <3>1. /\ UNCHANGED <<stream, unit>> /\ ~unit.on
          /\ stations_files'.saved \in {stations_files.saved, {}}
      BY <1>0, <2>3 DEF Stations!Unlink, Stations!UnlinkFails, Stations!Unlinked, FilesType, StationInv, Places
    <3> QED
      BY <3>1 DEF Playable
  <2> QED
    BY <1>6, <2>1, <2>2, <2>3 DEF Stations!Lifecycle
<1>7. CASE \/ Stations!NoAudio \/ Stations!InstallFails \/ Stations!Tell \/ Stations!TellFails \/ Stations!Hear
           \/ Stations!CommitFails
  BY <1>0, <1>3, <1>7 DEF Stations!NoAudio, Stations!Still, Stations!InstallFails, Stations!Tell, Stations!TellFails,
     Stations!Hear, Stations!CommitFails, Stations!Restarted, UnitType
<1>8. CASE Stations!AudioRefused \/ Stations!BeginAudio \/ Stations!Commit \/ Stations!AudioFails
  <2>1. /\ UNCHANGED <<stations_files, unit>>
        /\ stream'.status \in Stations!Busy => stream'.pending = stream.pending /\ stream.status \in Stations!Busy
        /\ stream'.active = stream.active \/ (Timer = "commit" /\ stream'.active = stream.pending)
    BY <1>0, <1>8 DEF Stations!AudioRefused, Stations!BeginAudio, Stations!Commit, Stations!AudioFails,
       Stations!Busy, StreamType, Timer
  <2>2. Timer = "commit" => stream.status \in Stations!Busy
    BY DEF StationInv, Places, Stations!Busy
  <2> QED
    BY <2>1, <2>2 DEF Playable
<1>9. CASE Stations!Install
  <2>1. /\ UNCHANGED <<stream, unit>> /\ stations_files.config # <<>> /\ stations_files'.config = stream.pending
        /\ \A b \in stations_files'.saved : b \in stations_files.saved \/ b[2] = stations_files.config
    BY <1>0, <1>9 DEF Stations!Install, FilesType
  <2>2. stream.status \in Stations!Busy
    BY <1>9 DEF Stations!Install, StationInv, Places, Stations!Busy, Timer
  <2> QED
    BY <2>1, <2>2 DEF Playable
<1>10. CASE Stations!Finish
  <2>1. /\ UNCHANGED <<stream, unit>> /\ stations_files'.config = stations_files.config
        /\ stations_files'.saved \subseteq stations_files.saved
    BY <1>0, <1>10 DEF Stations!Finish, FilesType
  <2> QED
    BY <2>1 DEF Playable
<1>11. CASE Stations!Restore \/ Stations!RestoreFails
  <2>1. CASE Stations!Backup = {}
    BY <1>1, <1>11, <2>1 DEF Stations!Restore, Stations!RestoreFails
  <2>2. CASE Stations!Backup # {}
    <3>1. Stations!Saved # <<>>
      BY <2>2 DEF Stations!Saved, Stations!Backup, Playable
    <3>2. /\ UNCHANGED stream /\ stations_files'.saved \subseteq stations_files.saved
          /\ stations_files'.config = Stations!Saved \/ UNCHANGED <<stations_files, unit>>
      <4> DEFINE Put == [stations_files EXCEPT !.config = Stations!Saved]
      <4>1. CASE Stations!Restore
        <5>1. UNCHANGED stream /\ stations_files' \in {Stations!Restored, Put}
          BY <2>2, <4>1 DEF Stations!Restore
        <5> QED
          BY <1>0, <5>1 DEF Stations!Restored, FilesType
      <4>2. CASE Stations!RestoreFails
        <5>1. UNCHANGED <<stream, unit>> /\ stations_files' \in {stations_files, Put}
          BY <4>2 DEF Stations!RestoreFails
        <5> QED
          BY <1>0, <5>1 DEF FilesType
      <4> QED
        BY <1>11, <4>1, <4>2
    <3> QED
      BY <3>1, <3>2 DEF Playable
  <2> QED
    BY <2>1, <2>2
<1>12. CASE \/ Stations!NoListing \/ Stations!BeginListing \/ Stations!ApplyListing \/ Stations!ListingFails
            \/ Stations!Listed \/ Stations!Unlisted
  <2>1. /\ UNCHANGED <<stream, unit>> /\ stations_files'.saved = stations_files.saved
        /\ stations_files'.config = stations_files.config
    BY <1>0, <1>12 DEF Stations!NoListing, Stations!Still, Stations!BeginListing, Stations!ApplyListing,
       Stations!ListingFails, Stations!Listed, Stations!Unlisted, FilesType
  <2> QED
    BY <2>1 DEF Playable
<1>13. CASE Stations!CliRender
  <2>1. /\ UNCHANGED <<stream, unit>> /\ stations_files'.saved = stations_files.saved
        /\ stations_files'.config = held["cli"].settings
    BY <1>0, <1>13 DEF Stations!CliRender, Stations!Rendered, FilesType
  <2>2. held["cli"].settings = stream.active
    BY <1>13 DEF Stations!CliRender, StationInv, Places, Cli
  <2> QED
    BY <2>1, <2>2 DEF Playable
<1>14. CASE \/ Stations!CliStart \/ Stations!CliWaits \/ Stations!CliStopped \/ Stations!CliDisabled
            \/ Stations!CliEnable \/ Stations!CliDelete \/ Stations!CliRetry \/ Stations!CliCreate
            \/ (\E disable \in BOOLEAN : Stations!CliStop(disable))
  <2>1. UNCHANGED <<stream, stations_files, unit>>
    BY <1>14 DEF Stations!CliStart, Stations!CliWaits, Stations!CliStop, Stations!CliStopped, Stations!CliDisabled,
       Stations!CliEnable, Stations!CliDelete, Stations!CliRetry, Stations!CliCreate, Stations!CliProcess,
       Stations!Command
  <2> QED
    BY <1>1, <2>1
<1>15. CASE \/ Stations!CliStarts \/ Stations!CliGivesUp \/ Stations!CliRestart
            \/ (\E disable \in BOOLEAN : Stations!CliStops(disable))
  <2>1. UNCHANGED <<stream, stations_files>>
    BY <1>15 DEF Stations!CliStarts, Stations!CliGivesUp, Stations!CliRestart, Stations!CliStops, Stations!Command
  <2>2. unit' \in {Stations!Started, Stations!Restarted, Stations!Stopped}
    BY <1>15 DEF Stations!CliStarts, Stations!CliGivesUp, Stations!CliRestart, Stations!CliStops
  <2>3. unit'.on => unit.on \/ stations_files.config # <<>>
    <3>1. CASE unit' = Stations!Started
      BY <1>0, <3>1 DEF Stations!Started, UnitType
    <3>2. CASE unit' = Stations!Restarted
      BY <1>0, <3>2 DEF Stations!Restarted, UnitType
    <3>3. CASE unit' = Stations!Stopped
      BY <3>3 DEF Stations!Stopped
    <3> QED
      BY <2>2, <3>1, <3>2, <3>3
  <2> QED
    BY <1>3, <2>1, <2>3
<1> QED
  BY <1>2, <1>4, <1>5, <1>6, <1>7, <1>8, <1>9, <1>10, <1>11, <1>12, <1>13, <1>14, <1>15
  DEF Stations!Next, Stations!Timer, Stations!Operator, Stations!Proc

(* What permits the station to be on the air.                               *)
LEMMA PermittedKept == ASSUME ~Overlap, StationInv, Permitted, Stations!Next PROVE Permitted'
<1> USE DEF Stations!stored, Stations!jobs, Stations!Asks, Stations!Fault, Stations!Quiet, Stations!Keeps, Stations!Goes,
            Stations!Proc, Timer, Cli
<1>0. RowType /\ StationTypes /\ OneActs /\ Places
  BY DEF StationInv, StationTyped
<1>1. CASE Stations!Browser
  <2>1. UNCHANGED stations_pc
    BY <1>1 DEF Stations!Browser, Stations!RequestBroadcast, Stations!QueueListing,
       Stations!QueueSettings, Stations!RequestDelete, Stations!Retry
  <2>2. CASE UNCHANGED stations_row
    BY <2>1, <2>2 DEF Permitted
  <2>3. ASSUME NEW on \in BOOLEAN, Stations!RequestBroadcast(on) PROVE Permitted'
    BY <1>0, <2>1, <2>3 DEF Stations!RequestBroadcast, Stations!Ready, Permitted, RowType
  <2>4. CASE Stations!RequestDelete \/ Stations!Retry
    BY <1>0, <2>1, <2>4 DEF Stations!RequestDelete, Stations!Condemned, Stations!Retry, Stations!Retried, Permitted, RowType
  <2> QED
    BY <1>1, <2>2, <2>3, <2>4 DEF Stations!Browser, Stations!QueueListing, Stations!QueueSettings
<1>2. CASE \/ Stations!EngineDies \/ Stations!Reboot \/ (\E p \in Stations!Proc : Stations!Dies(p))
  BY <1>0, <1>2 DEF Stations!EngineDies, Stations!Reboot, Stations!Dies, Permitted, StationTypes
<1>3. CASE \/ Stations!Wakes \/ Stations!NoBroadcast \/ Stations!BeginBroadcast \/ Stations!SwitchUnit
           \/ Stations!SwitchFails \/ Stations!Await \/ Stations!Report
  <2>1. /\ stations_row' = [stations_row EXCEPT !.status = stations_row'.status]
        /\ \E to : stations_pc' = [stations_pc EXCEPT !["timer"] = to] /\ to # "provisioned"
    BY <1>0, <1>3 DEF Stations!Wakes, Stations!NoBroadcast, Stations!Still, Stations!BeginBroadcast,
       Stations!SwitchUnit, Stations!SwitchFails, Stations!Await, Stations!Report, RowType
  <2> QED
    BY <1>0, <2>1 DEF Permitted, RowType, StationTypes
<1>4. ASSUME NEW p \in Stations!Proc, Stations!Lifecycle(p) PROVE Permitted'
  <2>1. CASE \/ Stations!NoLifecycle(p) \/ Stations!BeginLifecycle(p) \/ Stations!RenderFails(p) \/ Stations!StopUnit(p)
             \/ Stations!StopFails(p) \/ Stations!Unlink(p) \/ Stations!UnlinkFails(p)
    <3>1. /\ UNCHANGED stations_row
          /\ \E to : /\ stations_pc' = [stations_pc EXCEPT ![p] = to]
                     /\ to \notin {"provisioned", "c_render", "c_start", "c_wait"}
      BY <2>1 DEF Stations!NoLifecycle, Stations!Still, Stations!BeginLifecycle, Stations!RenderFails, Stations!StopUnit,
         Stations!StopFails, Stations!Unlink, Stations!UnlinkFails, Stations!After
    <3> QED
      BY <1>0, <3>1 DEF Permitted, StationTypes
  <2>2. CASE Stations!Render(p)
    BY <1>0, <2>2 DEF Stations!Render, Permitted, StationTypes
  <2>3. CASE Stations!Provisioned(p)
    <3>1. /\ stations_pc[p] = "provisioned" /\ stations_pc' = [stations_pc EXCEPT ![p] = Stations!After(p)]
          /\ stations_row.life # "pending_delete" => stations_row.enabled
          /\ stations_row' = IF stations_row.life = "pending_delete" THEN stations_row
                             ELSE [stations_row EXCEPT !.life = "ready"]
      BY <2>3 DEF Stations!Provisioned, Permitted
    <3>2. Stations!After(p) \in {"audio", "idle"}
      BY DEF Stations!After
    <3> QED
      BY <1>0, <3>1, <3>2 DEF Permitted, RowType, StationTypes
  <2>4. CASE Stations!Delete(p) \/ Stations!CreateFails(p) \/ Stations!DeleteFails(p)
    <3>1. /\ \E to \in {"audio", "idle"} : stations_pc' = [stations_pc EXCEPT ![p] = to]
          /\ stations_row'.life # "ready" /\ stations_row'.rev = stations_row.rev
      BY <1>0, <2>4 DEF Stations!Delete, Stations!CreateFails, Stations!DeleteFails, Stations!After, RowType
    <3>2. ~\E q \in Stations!Proc : stations_pc'[q] = "provisioned"
      BY <1>0, <2>4, <3>1 DEF Stations!Delete, Stations!CreateFails, Stations!DeleteFails, OneActs, StationTypes
    <3> QED
      BY <3>1, <3>2 DEF Permitted
  <2> QED
    BY <1>4, <2>1, <2>2, <2>3, <2>4 DEF Stations!Lifecycle
<1>5. CASE \/ Stations!NoAudio \/ Stations!InstallFails \/ Stations!Tell \/ Stations!TellFails \/ Stations!Hear
           \/ Stations!CommitFails \/ Stations!AudioRefused \/ Stations!BeginAudio \/ Stations!Commit
           \/ Stations!AudioFails \/ Stations!Install \/ Stations!Finish \/ Stations!Restore \/ Stations!RestoreFails
  <2>1. /\ UNCHANGED stations_row
        /\ \E to : stations_pc' = [stations_pc EXCEPT !["timer"] = to] /\ to # "provisioned"
    <3>1. CASE \/ Stations!NoAudio \/ Stations!InstallFails \/ Stations!TellFails \/ Stations!CommitFails
               \/ Stations!AudioRefused \/ Stations!BeginAudio \/ Stations!Commit \/ Stations!AudioFails
               \/ Stations!Finish \/ Stations!Restore \/ Stations!RestoreFails
      BY <3>1 DEF Stations!NoAudio, Stations!Still, Stations!InstallFails, Stations!TellFails, Stations!CommitFails,
         Stations!AudioRefused, Stations!BeginAudio, Stations!Commit, Stations!AudioFails, Stations!Finish,
         Stations!Restore, Stations!RestoreFails
    <3>2. CASE Stations!Tell
      BY <3>2 DEF Stations!Tell
    <3>3. CASE Stations!Hear
      <4>1. \/ stations_pc' = [stations_pc EXCEPT !["timer"] = "commit"]
            \/ stations_pc' = [stations_pc EXCEPT !["timer"] = "restore"]
        BY <3>3 DEF Stations!Hear
      <4> QED
        BY <3>3, <4>1 DEF Stations!Hear, Stations!Still
    <3>4. CASE Stations!Install
      <4>1. \/ stations_pc' = [stations_pc EXCEPT !["timer"] = "tell"]
            \/ stations_pc' = [stations_pc EXCEPT !["timer"] = "commit"]
        BY <3>4 DEF Stations!Install
      <4> QED
        BY <3>4, <4>1 DEF Stations!Install
    <3> QED
      BY <1>5, <3>1, <3>2, <3>3, <3>4
  <2> QED
    BY <1>0, <2>1 DEF Permitted, StationTypes
<1>6. CASE \/ Stations!NoListing \/ Stations!BeginListing \/ Stations!ApplyListing \/ Stations!ListingFails
           \/ Stations!Listed \/ Stations!Unlisted
  <2>1. /\ UNCHANGED stations_row
        /\ \E to : stations_pc' = [stations_pc EXCEPT !["timer"] = to] /\ to # "provisioned"
    BY <1>6 DEF Stations!NoListing, Stations!Still, Stations!BeginListing, Stations!ApplyListing,
       Stations!ListingFails, Stations!Listed, Stations!Unlisted
  <2> QED
    BY <1>0, <2>1 DEF Permitted, StationTypes
<1>7. CASE Stations!CliStart \/ Stations!CliRender \/ Stations!CliStarts
  <2>1. /\ UNCHANGED stations_row /\ \E to : stations_pc' = [stations_pc EXCEPT !["cli"] = to] /\ to # "provisioned"
        /\ Stations!Ready \/ stations_pc["cli"] \in {"c_render", "c_start"}
    BY <1>7 DEF Stations!CliStart, Stations!Command, Stations!CliRender, Stations!CliStarts
  <2> QED
    BY <1>0, <2>1 DEF Permitted, StationTypes, Stations!Ready
<1>8. CASE \/ Stations!CliGivesUp \/ Stations!CliRestart
           \/ (\E disable \in BOOLEAN : Stations!CliStop(disable) \/ Stations!CliStops(disable))
  <2>1. /\ UNCHANGED stations_row
        /\ \E to : /\ stations_pc' = [stations_pc EXCEPT !["cli"] = to]
                   /\ to \notin {"provisioned", "c_render", "c_start", "c_wait"}
    BY <1>8 DEF Stations!CliGivesUp, Stations!CliRestart, Stations!CliStop, Stations!CliStops, Stations!Command
  <2> QED
    BY <1>0, <2>1 DEF Permitted, StationTypes
<1>9. CASE \/ Stations!CliWaits \/ Stations!CliStopped \/ Stations!CliDisabled \/ Stations!CliEnable
           \/ Stations!CliDelete \/ Stations!CliRetry \/ Stations!CliCreate
  <2>1. /\ stations_pc' \in {[stations_pc EXCEPT !["cli"] = "idle"], [stations_pc EXCEPT !["cli"] = "lifecycle"]}
        /\ stations_row'.rev = stations_row.rev
        /\ stations_row'.life = "ready" => stations_row.life = "ready"
    BY <1>0, <1>9 DEF Stations!CliWaits, Stations!CliStopped, Stations!CliDisabled, Stations!CliEnable,
       Stations!CliDelete, Stations!CliRetry, Stations!CliCreate, Stations!CliProcess, Stations!Command,
       Stations!Condemned, Stations!Retried, RowType
  <2>2. stations_pc["timer"] = "idle" /\ stations_pc'["cli"] \in {"idle", "lifecycle"} /\ stations_pc'["timer"] = "idle"
    BY <1>0, <1>9, <2>1, ~Overlap DEF Stations!CliWaits, Stations!CliStopped, Stations!CliDisabled, Stations!CliEnable,
       Stations!CliDelete, Stations!CliRetry, Stations!CliCreate, Stations!CliProcess, Stations!Command,
       OneActs, StationTypes
  <2>3. stations_row'.life = "ready" /\ ~stations_row'.enabled => stations_row'.desired = "stopped"
    BY <1>0, <1>9 DEF Stations!CliWaits, Stations!CliStopped, Stations!CliDisabled, Stations!CliEnable,
       Stations!CliDelete, Stations!CliRetry, Stations!CliCreate, Stations!CliProcess, Stations!Command,
       Stations!Condemned, Stations!Retried, RowType, Permitted, Stations!Gone
  <2> QED
    BY <2>1, <2>2, <2>3 DEF Permitted
<1> QED
  BY <1>1, <1>2, <1>3, <1>4, <1>5, <1>6, <1>7, <1>8, <1>9
  DEF Stations!Next, Stations!Timer, Stations!Operator

(* From BeginBroadcast to Report nothing changes but by a browser's request. *)
LEMMA ReportingKept == ASSUME ~Overlap, StationInv, Playable, Permitted, Reporting, Stations!Next PROVE Reporting'
<1> USE DEF Stations!stored, Stations!machine, Stations!jobs, Stations!Asks, Stations!Fault, Stations!Quiet, Stations!Keeps,
            Stations!Goes, Stations!Proc, Timer, Cli, Switching
<1>0. /\ RowType /\ StationTypes /\ UnitType /\ OneActs /\ stations_row.rev \in Nat
      /\ Switching => stations_pc["cli"] = "idle"
  BY DEF StationInv, StationTyped, OneActs, Permitted
<1> SUFFICES ASSUME Switching' PROVE Reporting'
  BY DEF Reporting
<1>1. CASE Stations!Browser
  <2>1. UNCHANGED <<stations_pc, held, unit>>
    BY <1>1 DEF Stations!Browser, Stations!RequestBroadcast, Stations!QueueListing, Stations!QueueSettings,
       Stations!RequestDelete, Stations!Retry
  <2>2. \/ UNCHANGED stations_row \/ stations_row'.rev = stations_row.rev + 1
        \/ stations_row'.rev = stations_row.rev /\ stations_row'.life # "ready"
    BY <1>0, <1>1 DEF Stations!Browser, Stations!RequestBroadcast, Stations!QueueListing, Stations!QueueSettings,
       Stations!RequestDelete, Stations!Condemned, Stations!Retry, Stations!Retried, RowType
  <2> QED
    BY <1>0, <2>1, <2>2 DEF Reporting
<1>2. CASE Stations!BeginBroadcast
  <2>1. /\ held'["timer"].rev = stations_row.rev /\ stations_row'.rev = stations_row.rev
        /\ held'["timer"].running = (stations_row.desired = "running" /\ Stations!Ready)
        /\ held'["timer"].failed = FALSE /\ stations_pc'["timer"] = "switch"
        /\ stations_row'.life = stations_row.life /\ stations_row'.desired = stations_row.desired
    BY <1>0, <1>2 DEF Stations!BeginBroadcast, Stations!Nothing, RowType, StationTypes
  <2>2. stations_row.life = "ready" => (stations_row.desired = "running" => Stations!Ready)
    BY DEF Permitted, Stations!Ready
  <2>3. held'["timer"].running \in BOOLEAN /\ held'["timer"].failed \in BOOLEAN
    BY <2>1
  <2>4. stations_row'.life = "ready" => held'["timer"].running = (stations_row'.desired = "running")
    BY <2>1, <2>2
  <2>5. held'["timer"].rev \in Nat /\ held'["timer"].rev <= stations_row'.rev
    BY <1>0, <2>1
  <2> QED
    BY <2>1, <2>3, <2>4, <2>5 DEF Reporting
<1>3. CASE Stations!SwitchUnit
  <2>1. stations_pc["timer"] = "switch" /\ stations_pc'["timer"] = "await" /\ UNCHANGED <<stations_row, held>>
    BY <1>0, <1>3 DEF Stations!SwitchUnit, StationTypes
  <2> QED
    BY <2>1 DEF Reporting
<1>4. CASE Stations!SwitchFails
  <2>1. stations_pc["timer"] = "switch" /\ UNCHANGED stations_row /\ held' = [held EXCEPT !["timer"].failed = TRUE]
    BY <1>4 DEF Stations!SwitchFails, Stations!Fails
  <2>2. held'["timer"].failed = TRUE /\ held'["timer"].rev = held["timer"].rev
        /\ held'["timer"].running = held["timer"].running
    BY <1>0, <2>1 DEF StationTypes
  <2> QED
    BY <2>1, <2>2 DEF Reporting
<1>5. CASE Stations!Await
  <2>1. /\ stations_pc["timer"] = "await" /\ UNCHANGED <<stations_row, unit>>
        /\ held' = [held EXCEPT !["timer"].failed = TRUE] \/ UNCHANGED held
        /\ UNCHANGED held => unit.on = held["timer"].running \/ held["timer"].failed
    <3>1. stations_pc["timer"] = "await" /\ UNCHANGED <<stations_row, unit>>
      BY <1>5 DEF Stations!Await
    <3>2. CASE IF held["timer"].running THEN stations_row.desired # "running" \/ ~unit.on ELSE unit.on
      <4>1. held' = [held EXCEPT !["timer"].failed = TRUE]
        BY <1>5, <3>2 DEF Stations!Await, Stations!Fails
      <4>2. held'["timer"].failed = TRUE
        BY <1>0, <4>1 DEF StationTypes
      <4> QED
        BY <3>1, <4>1, <4>2
    <3>3. CASE ~(IF held["timer"].running THEN stations_row.desired # "running" \/ ~unit.on ELSE unit.on)
      <4>1. UNCHANGED held
        BY <1>5, <3>3 DEF Stations!Await
      <4>2. held["timer"].running \in BOOLEAN
        BY <3>1 DEF Reporting
      <4> QED
        BY <1>0, <3>1, <3>3, <4>1, <4>2 DEF UnitType
    <3> QED
      BY <3>2, <3>3
  <2>2. held'["timer"].rev = held["timer"].rev /\ held'["timer"].running = held["timer"].running
        /\ (held'["timer"].failed = TRUE \/ UNCHANGED held)
    BY <1>0, <2>1 DEF StationTypes
  <2> QED
    BY <2>1, <2>2 DEF Reporting
<1>6. CASE Stations!EngineDies
  <2>1. UNCHANGED <<stations_row, held, stations_pc>>
    BY <1>6 DEF Stations!EngineDies
  <2>2. unit.on /\ unit'.on = TRUE
    BY <1>0, <1>6 DEF Stations!EngineDies, Stations!Restarted, Playable, UnitType
  <2> QED
    BY <1>0, <2>1, <2>2 DEF Reporting, UnitType
<1>7. CASE Stations!Reboot \/ \E p \in Stations!Proc : Stations!Dies(p)
  <2>1. ~Switching'
    BY <1>0, <1>7 DEF Stations!Reboot, Stations!Dies, StationTypes
  <2> QED
    BY <2>1
<1>8. CASE Stations!Wakes \/ Stations!NoBroadcast \/ Stations!Report
  <2>1. ~Switching'
    BY <1>0, <1>8 DEF Stations!Wakes, Stations!NoBroadcast, Stations!Report, StationTypes
  <2> QED
    BY <2>1
<1>9. ASSUME NEW p \in Stations!Proc, Stations!Lifecycle(p) PROVE FALSE
  <2>1. /\ stations_pc[p] \notin {"idle", "switch", "await", "report"}
        /\ \E to : stations_pc' = [stations_pc EXCEPT ![p] = to] /\ to \notin {"switch", "await", "report"}
    BY <1>9 DEF Stations!Lifecycle, Stations!NoLifecycle, Stations!BeginLifecycle, Stations!Render,
       Stations!RenderFails, Stations!Provisioned, Stations!StopUnit, Stations!StopFails, Stations!Unlink,
       Stations!UnlinkFails, Stations!Delete, Stations!CreateFails, Stations!DeleteFails, Stations!After
  <2> QED
    BY <1>0, <2>1 DEF StationTypes
<1>10. CASE \/ Stations!NoAudio \/ Stations!InstallFails \/ Stations!Tell \/ Stations!TellFails \/ Stations!Hear
            \/ Stations!CommitFails \/ Stations!AudioRefused \/ Stations!BeginAudio \/ Stations!Commit
            \/ Stations!AudioFails \/ Stations!Install \/ Stations!Finish \/ Stations!Restore \/ Stations!RestoreFails
  <2>1. \E to : stations_pc' = [stations_pc EXCEPT !["timer"] = to] /\ to \notin {"switch", "await", "report"}
    <3>1. CASE \/ Stations!NoAudio \/ Stations!InstallFails \/ Stations!TellFails \/ Stations!CommitFails
               \/ Stations!AudioRefused \/ Stations!BeginAudio \/ Stations!Commit \/ Stations!AudioFails
               \/ Stations!Finish \/ Stations!Restore \/ Stations!RestoreFails
      BY <3>1 DEF Stations!NoAudio, Stations!Still, Stations!InstallFails, Stations!TellFails, Stations!CommitFails,
         Stations!AudioRefused, Stations!BeginAudio, Stations!Commit, Stations!AudioFails, Stations!Finish,
         Stations!Restore, Stations!RestoreFails
    <3>2. CASE Stations!Tell
      BY <3>2 DEF Stations!Tell
    <3>3. CASE Stations!Hear
      BY <3>3 DEF Stations!Hear, Stations!Still
    <3>4. CASE Stations!Install
      BY <3>4 DEF Stations!Install
    <3> QED
      BY <1>10, <3>1, <3>2, <3>3, <3>4
  <2> QED
    BY <1>0, <2>1 DEF StationTypes
<1>11. CASE \/ Stations!NoListing \/ Stations!BeginListing \/ Stations!ApplyListing \/ Stations!ListingFails
            \/ Stations!Listed \/ Stations!Unlisted
  <2>1. \E to : stations_pc' = [stations_pc EXCEPT !["timer"] = to] /\ to \notin {"switch", "await", "report"}
    BY <1>11 DEF Stations!NoListing, Stations!Still, Stations!BeginListing, Stations!ApplyListing,
       Stations!ListingFails, Stations!Listed, Stations!Unlisted
  <2> QED
    BY <1>0, <2>1 DEF StationTypes
(* An operator's command runs only while the timer's job does not. *)
<1>12. CASE \/ Stations!CliStart \/ Stations!CliRestart \/ (\E disable \in BOOLEAN : Stations!CliStop(disable))
            \/ Stations!CliEnable \/ Stations!CliDelete \/ Stations!CliRetry \/ Stations!CliCreate
  <2>1. stations_pc["timer"] = "idle" /\ \E to : stations_pc' = [stations_pc EXCEPT !["cli"] = to]
    BY <1>12, ~Overlap DEF Stations!CliStart, Stations!CliRestart, Stations!CliStop, Stations!CliEnable,
       Stations!CliDelete, Stations!CliRetry, Stations!CliCreate, Stations!CliProcess, Stations!Command
  <2> QED
    BY <1>0, <2>1 DEF StationTypes
<1>13. CASE \/ Stations!CliRender \/ Stations!CliStarts \/ Stations!CliWaits \/ Stations!CliGivesUp
            \/ (\E disable \in BOOLEAN : Stations!CliStops(disable)) \/ Stations!CliStopped \/ Stations!CliDisabled
  <2>1. stations_pc["cli"] # "idle" /\ \E to : stations_pc' = [stations_pc EXCEPT !["cli"] = to]
    BY <1>13 DEF Stations!CliRender, Stations!CliStarts, Stations!CliWaits, Stations!CliGivesUp, Stations!CliStops,
       Stations!CliStopped, Stations!CliDisabled
  <2> QED
    BY <1>0, <2>1 DEF StationTypes
<1> QED
  BY <1>1, <1>2, <1>3, <1>4, <1>5, <1>6, <1>7, <1>8, <1>9, <1>10, <1>11, <1>12, <1>13
  DEF Stations!Next, Stations!Timer, Stations!Operator

(* Nothing but the report of a broadcast says that one is done.             *)
LEMMA ReportTells ==
  ASSUME StationInv, Reporting, Stations!Next, stations_row.status \in Stations!Busy, stations_row'.status = "ready",
         stations_row'.life = "ready"
  PROVE  unit.on = (stations_row'.desired = "running")
<1> USE DEF Stations!stored, Stations!Asks, Stations!Quiet, Stations!Still, Stations!Busy
<1>0. RowType
  BY DEF StationInv, StationTyped
<1>1. stations_row' # stations_row
  OBVIOUS
<1>2. Stations!Report
  <2>1. ~Stations!Browser
    BY <1>0 DEF Stations!Browser, Stations!RequestBroadcast, Stations!QueueListing, Stations!QueueSettings,
       Stations!RequestDelete, Stations!Condemned, Stations!Retry, Stations!Retried, RowType
  <2>2. ~(Stations!EngineDies \/ Stations!Reboot \/ \E p \in Stations!Proc : Stations!Dies(p))
    BY <1>1 DEF Stations!EngineDies, Stations!Reboot, Stations!Dies
  <2>3. ASSUME NEW p \in Stations!Proc PROVE ~Stations!Lifecycle(p)
    BY <1>0 DEF Stations!Lifecycle, Stations!NoLifecycle, Stations!BeginLifecycle, Stations!Render,
       Stations!RenderFails, Stations!Provisioned, Stations!StopUnit, Stations!StopFails, Stations!Unlink,
       Stations!UnlinkFails, Stations!Delete, Stations!CreateFails, Stations!DeleteFails, RowType
  <2>4. ~Stations!Operator
    BY <1>0, <2>3 DEF Stations!Operator, Stations!CliStart, Stations!CliRender, Stations!CliStarts, Stations!CliWaits,
       Stations!CliGivesUp, Stations!CliRestart, Stations!CliStop, Stations!CliStops, Stations!CliStopped,
       Stations!CliDisabled, Stations!CliEnable, Stations!CliDelete, Stations!CliRetry, Stations!CliCreate,
       Stations!CliProcess, Stations!Command, Stations!Condemned, Stations!Retried, Stations!Proc, RowType
  <2>5. ~(Stations!Wakes \/ Stations!NoBroadcast \/ Stations!SwitchUnit \/ Stations!SwitchFails \/ Stations!Await)
    BY <1>1 DEF Stations!Wakes, Stations!NoBroadcast, Stations!SwitchUnit, Stations!SwitchFails, Stations!Await
  <2>6. ~Stations!BeginBroadcast
    BY <1>0 DEF Stations!BeginBroadcast, RowType
  <2>7. ~\/ Stations!NoAudio \/ Stations!InstallFails \/ Stations!Tell \/ Stations!TellFails \/ Stations!Hear
         \/ Stations!CommitFails \/ Stations!AudioRefused \/ Stations!BeginAudio \/ Stations!Commit
         \/ Stations!AudioFails \/ Stations!Install \/ Stations!Finish \/ Stations!Restore \/ Stations!RestoreFails
    BY <1>1 DEF Stations!NoAudio, Stations!InstallFails, Stations!Tell, Stations!TellFails, Stations!Hear,
       Stations!CommitFails, Stations!AudioRefused, Stations!BeginAudio, Stations!Commit, Stations!AudioFails,
       Stations!Install, Stations!Finish, Stations!Restore, Stations!RestoreFails
  <2>8. ~\/ Stations!NoListing \/ Stations!BeginListing \/ Stations!ApplyListing \/ Stations!ListingFails
         \/ Stations!Listed \/ Stations!Unlisted
    BY <1>1 DEF Stations!NoListing, Stations!BeginListing, Stations!ApplyListing, Stations!ListingFails,
       Stations!Listed, Stations!Unlisted
  <2> QED
    BY <2>1, <2>2, <2>3, <2>4, <2>5, <2>6, <2>7, <2>8 DEF Stations!Next, Stations!Timer, Stations!Proc
<1>3. /\ Timer = "report" /\ stations_row.rev = held["timer"].rev
      /\ stations_row' = [stations_row EXCEPT !.status = IF held["timer"].failed THEN "failed" ELSE "ready"]
  BY <1>1, <1>2 DEF Stations!Report, Stations!Goes, Timer
<1>4. /\ ~held["timer"].failed /\ stations_row'.desired = stations_row.desired
      /\ stations_row'.life = stations_row.life
  BY <1>0, <1>3 DEF RowType
<1> QED
  BY <1>3, <1>4 DEF Reporting, Switching


----------------------------------------------------------------------------
(* THE RUN: one component acts, the others stand still. *)

LEMMA WhoActs ==
  ASSUME [Next]_vars
  PROVE  /\ part' = part
         /\ (part = "stations" /\ Stations!Next) \/ UNCHANGED stations
         /\ (part = "media" /\ Media!Next) \/ UNCHANGED media
         /\ (part = "production" /\ Production!Next) \/ UNCHANGED production
         /\ (part = "bulletin" /\ Bulletin!Next) \/ UNCHANGED bulletin
         /\ (part = "central" /\ Central!Next) \/ UNCHANGED central
BY DEF vars, Next, StationsNext, UpgradesNext, MediaNext, ProductionNext, BulletinNext, CentralNext, ReportNext,
       SwitchNext, LookaheadNext

LEMMA StandStill ==
  /\ UNCHANGED stations => UNCHANGED Stations!runtimeVars
  /\ UNCHANGED media => UNCHANGED Media!mediaVars
  /\ UNCHANGED production => UNCHANGED Production!productionVars
  /\ UNCHANGED bulletin => UNCHANGED Bulletin!bulletinVars
  /\ UNCHANGED central => UNCHANGED Central!centralVars
<1>1. UNCHANGED stations => UNCHANGED Stations!runtimeVars
  BY DEF stations, Stations!runtimeVars, Stations!stored, Stations!machine, Stations!jobs
<1>2. UNCHANGED media => UNCHANGED Media!mediaVars
  BY DEF media, Media!mediaVars, Media!workspace, Media!catalog, Media!playback
<1>3. UNCHANGED production => UNCHANGED Production!productionVars
  BY DEF production, Production!productionVars, Production!rows
<1>4. UNCHANGED bulletin => UNCHANGED Bulletin!bulletinVars
  BY DEF bulletin, Bulletin!bulletinVars, Bulletin!db, Bulletin!engineVars
<1>5. UNCHANGED central => UNCHANGED Central!centralVars
  BY DEF central, Central!centralVars, Central!row
<1> QED
  BY <1>1, <1>2, <1>3, <1>4, <1>5

LEMMA BulletinRests == ASSUME BulletinInv, UNCHANGED bulletin PROVE BulletinInv'
BY DEF bulletin, BulletinInv, HandsInv, BulletinTypes, RowsType, JobsType, FilesKnown, WorkerType, EngineType, CountsType,
       InPass, Acting, Pending, Dropped, Held, Downloads, AirsInv, GivenOnce, Given, Counted, Bulletin!Aired,
       Bulletin!AiredOnce

ReportsInv == StationInv /\ Playable /\ Permitted /\ Reporting
LEMMA ReportsBegin == ASSUME Stations!Init PROVE ReportsInv
<1>1. stream.active = <<1, 1>> /\ stream.active # <<>>
  BY DEF Stations!Init
<1> QED
  BY <1>1, StationBegins DEF ReportsInv, Stations!Init, Playable, Permitted, Reporting, Switching, Timer, Cli,
     Stations!Busy, Stations!Proc
LEMMA ReportsRest == ASSUME ReportsInv, UNCHANGED stations PROVE ReportsInv'
BY StationRests DEF stations, ReportsInv, Playable, Permitted, Reporting, Switching, Timer, Cli

(* A definition's body is aired once, whatever is edited, lost or restarted, *)
(* and the history says once that a bulletin was aired, and only of one that *)
(* was.                                                                     *)
THEOREM AiredOnceAlways == ASSUME MaxEdits \in Nat PROVE Spec => []AiredOnce
<1> DEFINE I == part = "bulletin" => BulletinInv
<1>1. Init => I
  BY HandsBegin DEF Init, BulletinInv
<1>2. I /\ [Next]_vars => I'
  BY WhoActs, BulletinKept, BulletinRests
<1>3. I => AiredOnce
  BY DEF AiredOnce, BulletinInv, AirsInv
<1> QED
  BY <1>1, <1>2, <1>3, PTL DEF Spec

(* What a step may never do, in the run: a report of a broadcast is true, an *)
(* operator's cue points are not overwritten, a take is published only while *)
(* its producer may, the engine is handed the newest revision of a bulletin, *)
(* a rejected credential is not used.                                       *)
THEOREM StepsPermittedAlways == ASSUME ~Overlap, MaxEdits \in Nat PROVE Spec => StepsPermitted
<1> DEFINE S == part = "stations" => ReportsInv
           M == part = "media" => MediaInv
           P == part = "production" => ProductionInv
           B == part = "bulletin" => BulletinInv
           C == part = "central" => CentralInv /\ Welcome
           I == S /\ M /\ P /\ B /\ C
<1>1. Init => I
  BY ReportsBegin, MediaBegins, ProductionBegins, HandsBegin, CentralBegins, WelcomeBegins DEF Init, BulletinInv
<1>2. I /\ [Next]_vars => I'
  <2> SUFFICES ASSUME I, [Next]_vars PROVE I'
    OBVIOUS
  <2>1. S'
    BY WhoActs, StationKept, PlayableKept, PermittedKept, ReportingKept, ReportsRest DEF ReportsInv
  <2>2. M' /\ P'
    BY WhoActs, MediaKept, ProductionKept, MediaRests, ProductionRests
  <2>3. B'
    BY WhoActs, BulletinKept, BulletinRests
  <2>4. ASSUME Welcome, UNCHANGED central PROVE Welcome'
    BY <2>4 DEF central, Welcome
  <2>5. C'
    BY <2>4, WhoActs, CentralKept, WelcomeKept, CentralRests
  <2> QED
    BY <2>1, <2>2, <2>3, <2>5
<1>3. I /\ [Next]_vars => [stations_row.status \in Stations!Busy /\ stations_row'.status = "ready" /\ stations_row'.life = "ready"
                            => unit.on = (stations_row'.desired = "running")]_Stations!runtimeVars
  BY WhoActs, StandStill, ReportTells DEF ReportsInv
<1>4. I /\ [Next]_vars => [media_song.there /\ media_song'.there /\ media_song.cue = "operator" => media_song'.cue = "operator"]_Media!mediaVars
  BY WhoActs, StandStill, OperatorsCueStays
<1>5. I /\ [Next]_vars =>
        [/\ \A d \in ProducerDraft : (attempt[d].status = "running" /\ attempt'[d].status = "complete") => Production!Current(d)
         /\ (~production_song.on /\ production_song'.on) => granted]_Production!productionVars
  BY WhoActs, StandStill, OnlyPublishFinishes, OnlyReconcileAirs DEF Finishes, Airs
<1>6. I /\ [Next]_vars =>
        [bulletin_engine'.phase = "PREPARING" /\ bulletin_engine.phase # "PREPARING" =>
           bulletin_engine'.rev = bulletin_row[bulletin_engine'.id].rev]_Bulletin!bulletinVars
  BY WhoActs, StandStill, OnlyHandPrepares
<1>7. I /\ [Next]_vars => [server' # server => reg # "credentials_rejected"]_Central!centralVars
  BY WhoActs, StandStill, RequestsChangeTheServer
<1> QED
  BY <1>1, <1>2, <1>3, <1>4, <1>5, <1>6, <1>7, PTL
  DEF Spec, StepsPermitted, Stations!ReportIsTrue, Media!EditsKept, Production!PublishedWhilePermitted,
      Bulletin!CurrentIsHanded, Central!RejectedStops

----------------------------------------------------------------------------
(* THE SONGS SELECTED AHEAD.  A selection that certainly was not heard is   *)
(* nowhere: not in the engine's queue, not on the air, not among the STARTs *)
(* that are unread.  A request is given to a new selection only when all    *)
(* its earlier ones are such, so one attempt at most can be heard.  And as  *)
(* long as nothing dies, the positions of the current selections rise up to *)
(* the cursor: a refresh has rewound it before it takes anything back.      *)

----------------------------------------------------------------------------
(* Lookahead: SEQUENCES *)

LEMMA Ranged == ASSUME NEW S, NEW s \in Seq(S) PROVE Ahead!Range(s) \subseteq S /\ (s = <<>> => Ahead!Range(s) = {})
<1>1. \A i \in DOMAIN s : s[i] \in S
  OBVIOUS
<1>2. s = <<>> => DOMAIN s = {}
  OBVIOUS
<1> QED
  BY <1>1, <1>2 DEF Ahead!Range

LEMMA RangeHead ==
  ASSUME NEW S, NEW s \in Seq(S), s # <<>>
  PROVE  Head(s) \in S /\ Tail(s) \in Seq(S) /\ Ahead!Range(s) = {Head(s)} \cup Ahead!Range(Tail(s))
<1>1. Head(s) \in S /\ Tail(s) \in Seq(S)
  BY HeadTailProperties
<1>2. Len(s) \in Nat /\ Len(s) >= 1 /\ Head(s) = s[1] /\ DOMAIN s = 1..Len(s) /\ 1 \in DOMAIN s
  OBVIOUS
<1>3. Len(Tail(s)) = Len(s) - 1 /\ \A i \in 1..Len(Tail(s)) : Tail(s)[i] = s[i + 1]
  BY HeadTailProperties
<1>4. DOMAIN Tail(s) = 1..(Len(s) - 1)
  BY <1>1, <1>3
<1>5. \A i \in DOMAIN Tail(s) : i + 1 \in DOMAIN s /\ Tail(s)[i] = s[i + 1]
  BY <1>2, <1>3, <1>4
<1>6. \A i \in DOMAIN s : i = 1 \/ (i - 1 \in DOMAIN Tail(s) /\ s[i] = Tail(s)[i - 1])
  BY <1>2, <1>3, <1>4
<1>7. ASSUME NEW i \in DOMAIN s PROVE s[i] \in {Head(s)} \cup Ahead!Range(Tail(s))
  BY <1>2, <1>6 DEF Ahead!Range
<1>8. Head(s) \in Ahead!Range(s)
  BY <1>2 DEF Ahead!Range
<1>9. ASSUME NEW i \in DOMAIN Tail(s) PROVE Tail(s)[i] \in Ahead!Range(s)
  BY <1>5 DEF Ahead!Range
<1>10. Ahead!Range(s) \subseteq {Head(s)} \cup Ahead!Range(Tail(s))
  BY <1>7, Zenon DEF Ahead!Range
<1>11. Ahead!Range(Tail(s)) \subseteq Ahead!Range(s)
  BY <1>9, Zenon DEF Ahead!Range
<1> QED
  BY <1>1, <1>8, <1>10, <1>11

LEMMA RangeAppend ==
  ASSUME NEW S, NEW s \in Seq(S), NEW e \in S
  PROVE  /\ Append(s, e) \in Seq(S) /\ Ahead!Range(Append(s, e)) = Ahead!Range(s) \cup {e}
         /\ Len(Append(s, e)) = Len(s) + 1 /\ Append(s, e)[Len(s) + 1] = e
         /\ \A i \in 1..Len(s) : Append(s, e)[i] = s[i]
<1>1. /\ Append(s, e) \in Seq(S) /\ Len(Append(s, e)) = Len(s) + 1
      /\ \A i \in 1..Len(s) : Append(s, e)[i] = s[i]
      /\ Append(s, e)[Len(s) + 1] = e
  BY AppendProperties
<1>2. Len(s) \in Nat /\ DOMAIN s = 1..Len(s) /\ DOMAIN Append(s, e) = 1..(Len(s) + 1)
  BY <1>1
<1> QED
  BY <1>1, <1>2 DEF Ahead!Range

LEMMA Mapped ==
  ASSUME NEW S, NEW s \in Seq(S), NEW f, f \in [DOMAIN s -> S]
  PROVE  f \in Seq(S) /\ Len(f) = Len(s) /\ DOMAIN f = DOMAIN s
<1>1. Len(s) \in Nat /\ DOMAIN s = 1..Len(s)
  OBVIOUS
<1> QED
  BY <1>1

LEMMA UpTo == ASSUME NEW G, 0 \in G, \A n \in Nat : n \in G => n + 1 \in G PROVE Nat \subseteq G
<1> DEFINE B == Nat \ G
           Less == {p \in Nat \X Nat : p[1] < p[2]}
<1> SUFFICES ASSUME B # {} PROVE FALSE
  OBVIOUS
<1>1. IsWellFoundedOn(Less, Nat)
  BY NatLessThanWellFounded DEF OpToRel
<1>2. B \in SUBSET Nat
  OBVIOUS
<1>3. PICK x \in B : \A y \in B : ~(<<y, x>> \in Less)
  <2> HIDE DEF B, Less
  <2> QED
    BY <1>1, <1>2, WFMin, Zenon
<1>4. x \in Nat /\ x # 0 /\ x - 1 \in Nat
  BY <1>3
<1>5. <<x - 1, x>> \in Less
  BY <1>4
<1>6. x - 1 \in G
  BY <1>3, <1>4, <1>5
<1> QED
  BY <1>3, <1>4, <1>6

(* What RemoveFuture leaves in the queue.                                  *)
Keeping(s, gone, k, f) ==
  f = [n \in 0..k |-> IF n = 0 THEN <<>>
                      ELSE IF s[n] \in gone THEN f[n - 1] ELSE Append(f[n - 1], s[n])]

LEMMA KeepingExists == ASSUME NEW s, NEW gone PROVE \A k \in Nat : \E f : Keeping(s, gone, k, f)
<1> DEFINE G == {k \in Nat : \E f : Keeping(s, gone, k, f)}
<1>1. 0 \in G
  <2> DEFINE f == [n \in 0..0 |-> <<>>]
  <2>1. Keeping(s, gone, 0, f)
    BY DEF Keeping
  <2> QED
    BY <2>1
<1>2. ASSUME NEW k \in Nat, k \in G PROVE k + 1 \in G
  <2>1. PICK f : Keeping(s, gone, k, f)
    BY <1>2
  <2> DEFINE more == IF s[k + 1] \in gone THEN f[k] ELSE Append(f[k], s[k + 1])
             g == [n \in 0..(k + 1) |-> IF n = k + 1 THEN more ELSE f[n]]
  <2>2. \A n \in 0..k : g[n] = f[n] /\ n # k + 1
    BY <1>2
  <2>3. g[k + 1] = more
    BY <1>2
  <2>4. ASSUME NEW n \in 0..(k + 1)
        PROVE  g[n] = IF n = 0 THEN <<>> ELSE IF s[n] \in gone THEN g[n - 1] ELSE Append(g[n - 1], s[n])
    <3>1. CASE n = k + 1
      <4>1. n # 0 /\ n - 1 = k /\ k \in 0..k
        BY <1>2, <3>1
      <4> QED
        BY <2>2, <2>3, <3>1, <4>1
    <3>2. CASE n \in 0..k
      <4>1. n # 0 => n - 1 \in 0..k
        BY <1>2, <3>2
      <4>2. f[n] = IF n = 0 THEN <<>> ELSE IF s[n] \in gone THEN f[n - 1] ELSE Append(f[n - 1], s[n])
        BY <2>1, <3>2 DEF Keeping
      <4> QED
        BY <2>2, <3>2, <4>1, <4>2
    <3> QED
      BY <1>2, <3>1, <3>2
  <2>5. Keeping(s, gone, k + 1, g)
    <3> HIDE DEF g
    <3>1. g = [n \in 0..(k + 1) |-> g[n]]
      BY DEF g
    <3> QED
      BY <2>4, <3>1 DEF Keeping
  <2>6. k + 1 \in Nat
    BY <1>2
  <2> QED
    BY <2>5, <2>6
<1> HIDE DEF G
<1>3. Nat \subseteq G
  BY <1>1, <1>2, UpTo
<1> QED
  BY <1>3 DEF G

LEMMA WithoutKeeps ==
  ASSUME NEW S, NEW s \in Seq(S), NEW gone
  PROVE  Ahead!Without(s, gone) \in Seq(S) /\ Ahead!Range(Ahead!Without(s, gone)) = Ahead!Range(s) \ gone
<1> DEFINE L == Len(s)
           f == CHOOSE h : Keeping(s, gone, L, h)
           P(n) == f[n] \in Seq(S) /\ Ahead!Range(f[n]) = {s[i] : i \in 1..n} \ gone
           G == {n \in Nat : n <= L => P(n)}
<1>1. L \in Nat /\ DOMAIN s = 1..L
  OBVIOUS
<1>2. Keeping(s, gone, L, f)
  BY <1>1, KeepingExists
<1>3. Ahead!Without(s, gone) = f[L]
  BY DEF Ahead!Without, Keeping
<1> HIDE DEF f
<1>4. f[0] = <<>> /\ \A n \in 1..L : f[n] = IF s[n] \in gone THEN f[n - 1] ELSE Append(f[n - 1], s[n])
  <2>1. \A n \in 0..L : f[n] = IF n = 0 THEN <<>> ELSE IF s[n] \in gone THEN f[n - 1] ELSE Append(f[n - 1], s[n])
    BY <1>2 DEF Keeping
  <2>2. 0 \in 0..L /\ \A n \in 1..L : n \in 0..L /\ n # 0
    BY <1>1
  <2> QED
    BY <2>1, <2>2
<1>5. 0 \in G
  <2>1. f[0] \in Seq(S) /\ Ahead!Range(f[0]) = {}
    BY <1>4 DEF Ahead!Range
  <2>2. {s[i] : i \in 1..0} = {}
    OBVIOUS
  <2> QED
    BY <2>1, <2>2
<1>6. ASSUME NEW n \in Nat, n \in G PROVE n + 1 \in G
  <2> SUFFICES ASSUME n + 1 <= L PROVE P(n + 1)
    BY <1>6
  <2>1. P(n) /\ n + 1 \in 1..L /\ n + 1 - 1 = n /\ s[n + 1] \in S
    BY <1>1, <1>6
  <2>2. {s[i] : i \in 1..(n + 1)} = {s[i] : i \in 1..n} \cup {s[n + 1]}
    BY <1>6
  <2>3. f[n + 1] = IF s[n + 1] \in gone THEN f[n] ELSE Append(f[n], s[n + 1])
    BY <1>4, <2>1
  <2>4. CASE s[n + 1] \in gone
    BY <2>1, <2>2, <2>3, <2>4
  <2>5. CASE s[n + 1] \notin gone
    <3>1. f[n + 1] \in Seq(S) /\ Ahead!Range(f[n + 1]) = Ahead!Range(f[n]) \cup {s[n + 1]}
      BY <2>1, <2>3, <2>5, RangeAppend
    <3> QED
      BY <2>1, <2>2, <2>5, <3>1
  <2> QED
    BY <2>4, <2>5
<1> HIDE DEF G
<1>7. Nat \subseteq G
  BY <1>5, <1>6, UpTo
<1>8. P(L)
  <2>1. L \in G /\ L <= L
    BY <1>1, <1>7
  <2> HIDE DEF L, P
  <2> QED
    BY <2>1 DEF G
<1>9. Ahead!Range(s) = {s[i] : i \in 1..L}
  BY <1>1 DEF Ahead!Range
<1> QED
  BY <1>3, <1>8, <1>9

----------------------------------------------------------------------------
(* Lookahead: INVARIANTS *)

LookaheadBounds == MaxRows \in Nat /\ MaxProgramEdits \in Nat /\ MaxOutages \in Nat

LookaheadPlaces    == {"idle", "mark", "prefill", "remove", "settle", "fill", "select", "push", "record"}
Away(i)   == rows[i].status = "failed" /\ rows[i].why \in Ahead!Safe     \* it was not heard, and is nowhere
InRefresh == lookahead_pc \in {"prefill", "remove", "settle"} \/ back = "remove"

SelectionsType ==
  /\ rows \in Seq(Ahead!Rows) /\ Len(rows) <= MaxRows
  /\ \A i \in Ahead!Rids : rows[i].slot < i /\ rows[i].sig <= programming /\ rows[i].engine <= life
ProgrammeType ==
  /\ requests \in [ListenerRequest -> Ahead!Outstanding \cup Ahead!Terminal \cup {"none"}] /\ programming \in 1..MaxProgramEdits + 1
  /\ cursor \in 0..MaxRows /\ cursor <= Len(rows)
QueueType ==
  /\ fifo \in Seq(Ahead!Rids) /\ air \in Ahead!Rids \cup {Ahead!None} /\ unread \in Seq(Ahead!Rids)
  /\ lookahead_faults \in [crash: Nat, outage: 0..MaxOutages]
  /\ life \in 1..lookahead_faults.outage + 1
RefresherType ==
  /\ lookahead_pc \in LookaheadPlaces /\ back \in {"idle", "remove"} /\ rewound \in BOOLEAN
  /\ todo \subseteq Ahead!Rids /\ ids \subseteq Ahead!Rids
  /\ lookahead_pc \in {"idle", "mark", "prefill", "remove", "settle"} => back = "idle"
  /\ lookahead_pc = "prefill" => todo # {}
LookaheadTypes == SelectionsType /\ ProgrammeType /\ QueueType /\ RefresherType

(* What is about to be pushed or recorded is selected, and not what is     *)
(* taken back.                                                             *)
PushInv == lookahead_pc \in {"push", "record"} =>
  /\ rows # <<>> /\ rows[Ahead!New].status = "selected" /\ Ahead!New \notin todo
  /\ lookahead_pc = "push" => Ahead!New \notin Ahead!Live /\ Ahead!New \notin Ahead!Range(unread)
AwayInv == \A i \in Ahead!Rids : Away(i) => i \notin Ahead!Live /\ i \notin Ahead!Range(unread)
(* The identity that is stored with a request is that of the engine.       *)
IdentityInv == \A i \in Ahead!Rids :
  /\ rows[i].status = "selected" => rows[i].engine = 0
  /\ rows[i].status = "queued" => rows[i].engine # 0
  /\ rows[i].status = "failed" /\ rows[i].why = "refresh" => rows[i].engine # 0
  /\ i \in Ahead!Live => rows[i].engine \in {0, life}
OneAttempt == \A i, j \in Ahead!Rids :
  i # j /\ rows[i].request # Ahead!None /\ rows[i].request = rows[j].request => Away(i) \/ Away(j)
Waiting == \A i \in Ahead!Rids : rows[i].request \in ListenerRequest \ {Ahead!None} /\ requests[rows[i].request] \in {"none", "pending"} => Away(i)
(* What is taken back is known to the database, or not in the engine.      *)
TodoInv ==
  /\ lookahead_pc = "mark" => \A i \in todo :
       rows[i].status \in {"selected", "queued"} \/ (rows[i].status = "failed" /\ rows[i].why = "refresh")
  /\ InRefresh => \A i \in todo : rows[i].engine = 0 => i \notin Ahead!Live
AttemptsInv == PushInv /\ AwayInv /\ IdentityInv /\ OneAttempt /\ Waiting /\ TodoInv

LEMMA TypeParts == LookaheadTypes => Ahead!TypeOK
BY DEF LookaheadTypes, Ahead!TypeOK, SelectionsType, ProgrammeType, QueueType, RefresherType

LEMMA LookaheadBegins == ASSUME LookaheadBounds PROVE Ahead!Init => LookaheadTypes /\ AttemptsInv
<1> SUFFICES ASSUME Ahead!Init PROVE LookaheadTypes /\ AttemptsInv
  OBVIOUS
<1>1. Ahead!Rids = {} /\ rows \in Seq(Ahead!Rows) /\ Len(rows) = 0 /\ fifo \in Seq(Ahead!Rids) /\ unread \in Seq(Ahead!Rids)
  BY DEF Ahead!Init, Ahead!Rids
<1>2. SelectionsType
  BY <1>1 DEF LookaheadBounds, Ahead!Init, SelectionsType
<1>3. ProgrammeType
  BY <1>1 DEF LookaheadBounds, Ahead!Init, ProgrammeType
<1>4. QueueType
  BY <1>1 DEF LookaheadBounds, Ahead!Init, QueueType
<1>5. RefresherType
  BY <1>1 DEF Ahead!Init, RefresherType, LookaheadPlaces
<1> QED
  BY <1>1, <1>2, <1>3, <1>4, <1>5 DEF Ahead!Init, LookaheadTypes, AttemptsInv, PushInv, AwayInv, IdentityInv,
         OneAttempt, Waiting, TodoInv, InRefresh

----------------------------------------------------------------------------
(* Lookahead: STEPS IN GENERAL *)

(* What a step may do to a selection, whatever the step.                   *)
RowMove(i) ==
  /\ rows'[i].slot = rows[i].slot /\ rows'[i].request = rows[i].request
  /\ rows'[i].sig \in {rows[i].sig, 0} /\ rows'[i].engine \in {rows[i].engine, life}
  /\ Away(i) => rows'[i] = rows[i]
  /\ rows'[i].status = "selected" => rows[i].status = "selected" /\ rows'[i].engine = rows[i].engine
  /\ rows'[i].status = "queued" => rows'[i].engine # 0
  /\ rows'[i].status = "failed" /\ rows'[i].why = "refresh" => rows'[i].engine # 0
  /\ rows'[i].status = "failed" /\ rows'[i].why \in Ahead!Safe => Away(i) \/ (i \notin Ahead!Live' /\ i \notin Ahead!Range(unread'))
  /\ rows[i].status = "started" => rows'[i].status = "started"
  /\ rows'[i].status = "queued" => rows[i].status = "queued" \/ i \in Ahead!Live \/ lookahead_pc = "record"
  /\ rows'[i].status = "failed" => \/ rows[i].status = "failed" \/ rows'[i].why \in Ahead!Safe
                                   \/ lookahead_pc = "fill" /\ rows[i].status = "queued" /\ (rows[i].engine # life \/ i \notin Ahead!Live)
                                   \/ lookahead_faults' # lookahead_faults
  /\ rows'[i].why = "refresh" => rows[i].why = "refresh" \/ rows'[i].sig = 0 \/ (lookahead_pc = "mark" /\ i \in todo)
  /\ rows[i].why = "refresh" /\ rows'[i].status = "queued" => rows'[i].why = "refresh"
Revised == rows' \in Seq(Ahead!Rows) /\ Len(rows') = Len(rows) /\ \A i \in Ahead!Rids : RowMove(i)
(* And what it may do to the engine.                                       *)
EngineMove ==
  /\ fifo' \in Seq(Ahead!Rids) /\ air' \in Ahead!Rids \cup {Ahead!None} /\ unread' \in Seq(Ahead!Rids)
  /\ \A i \in Ahead!Live' : i \in Ahead!Live \/ (lookahead_pc = "push" /\ i = Ahead!New)
  /\ Ahead!Range(unread') \subseteq Ahead!Range(unread) \cup Ahead!Live
  /\ life' = life \/ Ahead!Live' = {}
EngineStays == UNCHANGED <<fifo, air, life>> /\ unread' \in {<<>>, unread}

LEMMA LiveIn ==
  ASSUME QueueType
  PROVE  Ahead!Live \subseteq Ahead!Rids /\ Ahead!Range(fifo) \subseteq Ahead!Rids /\ Ahead!Range(unread) \subseteq Ahead!Rids
BY Ranged DEF QueueType, Ahead!Live

LEMMA RowFields ==
  ASSUME SelectionsType
  PROVE  /\ Len(rows) \in Nat /\ Ahead!Rids = 1..Len(rows) /\ Ahead!Rids \subseteq Nat /\ Ahead!None \notin Ahead!Rids
         /\ \A i \in Ahead!Rids : rows[i] \in Ahead!Rows
<1>1. rows \in Seq(Ahead!Rows)
  BY DEF SelectionsType
<1>2. \A S : \A s \in Seq(S) : Len(s) \in Nat /\ DOMAIN s = 1..Len(s) /\ \A i \in DOMAIN s : s[i] \in S
  OBVIOUS
<1> HIDE DEF Ahead!Rows
<1> QED
  BY <1>1, <1>2 DEF Ahead!Rids, Ahead!None

LEMMA EngineStands == ASSUME LookaheadTypes, EngineStays PROVE EngineMove /\ Ahead!Live' = Ahead!Live
<1>1. Ahead!Live' = Ahead!Live
  BY DEF EngineStays, Ahead!Live
<1>2. unread' \in Seq(Ahead!Rids) /\ Ahead!Range(unread') \subseteq Ahead!Range(unread)
  <2>1. <<>> \in Seq(Ahead!Rids) /\ Ahead!Range(<<>>) = {}
    BY DEF Ahead!Range
  <2> QED
    BY <2>1 DEF EngineStays, LookaheadTypes, QueueType
<1> QED
  BY <1>1, <1>2 DEF EngineMove, EngineStays, LookaheadTypes, QueueType

LEMMA SameRids == ASSUME SelectionsType, Revised PROVE Ahead!Rids' = Ahead!Rids
<1>1. Len(rows) \in Nat /\ Ahead!Rids = 1..Len(rows)
  BY RowFields
<1>2. DOMAIN rows' = 1..Len(rows')
  BY DEF Revised
<1> QED
  BY <1>1, <1>2 DEF Revised, Ahead!Rids

LEMMA RowsStand ==
  ASSUME LookaheadTypes, AttemptsInv, UNCHANGED rows
  PROVE  Revised
<1>1. ASSUME NEW i \in Ahead!Rids PROVE RowMove(i)
  BY DEF AttemptsInv, IdentityInv, RowMove, Away
<1> QED
  BY <1>1 DEF Revised, LookaheadTypes, SelectionsType

LEMMA Moved ==
  ASSUME LookaheadTypes, AttemptsInv, Revised, EngineMove
  PROVE  Ahead!Rids' = Ahead!Rids /\ AwayInv' /\ IdentityInv' /\ OneAttempt' /\ \A i \in Ahead!Rids : Away(i) => Away(i)'
<1>1. Ahead!Rids' = Ahead!Rids
  BY SameRids DEF LookaheadTypes
<1>2. \A i \in Ahead!Rids : Away(i) => Away(i)'
  BY DEF Revised, RowMove, Away
<1>3. ASSUME NEW i \in Ahead!Rids', Away(i)' PROVE i \notin Ahead!Live' /\ i \notin Ahead!Range(unread')
  <2>1. CASE Away(i)
    <3>1. i \notin Ahead!Live /\ i \notin Ahead!Range(unread) /\ ~(lookahead_pc = "push" /\ i = Ahead!New)
      BY <1>1, <2>1 DEF AttemptsInv, AwayInv, PushInv, Away
    <3> QED
      BY <3>1 DEF EngineMove
  <2>2. CASE ~Away(i)
    BY <1>1, <1>3, <2>2 DEF Revised, RowMove, Away
  <2> QED
    BY <2>1, <2>2
<1>4. AwayInv'
  BY <1>3 DEF AwayInv
<1>5. ASSUME NEW i \in Ahead!Rids
      PROVE  /\ rows'[i].status = "selected" => rows'[i].engine = 0
             /\ rows'[i].status = "queued" => rows'[i].engine # 0
             /\ rows'[i].status = "failed" /\ rows'[i].why = "refresh" => rows'[i].engine # 0
             /\ i \in Ahead!Live' => rows'[i].engine \in {0, life'}
  <2>1. RowMove(i)
    BY DEF Revised
  <2>2. rows'[i].status = "selected" => rows'[i].engine = 0
    BY <2>1 DEF RowMove, AttemptsInv, IdentityInv
  <2>3. ASSUME i \in Ahead!Live' PROVE rows'[i].engine \in {0, life'}
    <3>1. life' = life /\ (i \in Ahead!Live \/ (lookahead_pc = "push" /\ i = Ahead!New))
      BY <2>3 DEF EngineMove
    <3>2. rows[i].engine \in {0, life}
      BY <3>1 DEF AttemptsInv, IdentityInv, PushInv
    <3> QED
      BY <2>1, <3>1, <3>2 DEF RowMove
  <2> QED
    BY <2>1, <2>2, <2>3 DEF RowMove
<1>6. IdentityInv'
  BY <1>1, <1>5 DEF IdentityInv
<1>7. OneAttempt'
  <2> SUFFICES ASSUME NEW i \in Ahead!Rids, NEW j \in Ahead!Rids, i # j, rows'[i].request # Ahead!None, rows'[i].request = rows'[j].request
               PROVE  Away(i)' \/ Away(j)'
    BY <1>1 DEF OneAttempt
  <2>1. rows[i].request = rows'[i].request /\ rows[j].request = rows'[j].request
    BY DEF Revised, RowMove
  <2> QED
    BY <1>2, <2>1 DEF AttemptsInv, OneAttempt
<1> QED
  BY <1>1, <1>2, <1>4, <1>6, <1>7

LEMMA WaitsOn ==
  ASSUME LookaheadTypes, AttemptsInv, Revised, EngineMove,
         \A i \in Ahead!Rids : rows[i].request \in ListenerRequest \ {Ahead!None} /\ requests'[rows[i].request] \in {"none", "pending"}
                           => requests[rows[i].request] \in {"none", "pending"} \/ Away(i)'
  PROVE  Waiting'
<1> SUFFICES ASSUME NEW i \in Ahead!Rids, rows'[i].request \in ListenerRequest \ {Ahead!None}, requests'[rows'[i].request] \in {"none", "pending"}
             PROVE  Away(i)'
  BY Moved DEF Waiting
<1>1. rows'[i].request = rows[i].request
  BY DEF Revised, RowMove
<1>2. requests[rows[i].request] \in {"none", "pending"} => Away(i)
  BY <1>1 DEF AttemptsInv, Waiting
<1> QED
  BY <1>1, <1>2, Moved

(* What is taken back stays what it is while the refresh goes on.          *)
LEMMA TodoStays ==
  ASSUME LookaheadTypes, AttemptsInv, Revised, EngineMove, todo' = todo, lookahead_pc' # "mark" \/ (lookahead_pc = "mark" /\ UNCHANGED rows),
         InRefresh' => InRefresh
  PROVE  TodoInv'
<1>1. ASSUME NEW i \in todo, InRefresh', rows'[i].engine = 0 PROVE i \notin Ahead!Live'
  <2>1. i \in Ahead!Rids /\ RowMove(i)
    BY DEF LookaheadTypes, RefresherType, Revised
  <2>2. rows[i].engine = 0
    <3>1. life # 0
      BY DEF LookaheadTypes, QueueType
    <3> QED
      BY <1>1, <2>1, <3>1 DEF RowMove
  <2>3. i \notin Ahead!Live /\ ~(lookahead_pc = "push" /\ i = Ahead!New)
    BY <1>1, <2>2 DEF AttemptsInv, TodoInv, PushInv
  <2> QED
    BY <2>3 DEF EngineMove
<1> QED
  BY <1>1 DEF TodoInv, AttemptsInv

----------------------------------------------------------------------------
(* Lookahead: THE ENGINE, THE WEB, AND THE STEPS THAT LEAVE THE SELECTIONS ALONE *)

Waits(i) == rows[i].request \in ListenerRequest \ {Ahead!None} /\ requests[rows[i].request] \in {"none", "pending"}

LEMMA Stands ==
  ASSUME LookaheadTypes, AttemptsInv, EngineMove, UNCHANGED <<rows, todo, lookahead_pc, back>>, Ahead!Live' \subseteq Ahead!Live,
         \A i \in Ahead!Rids : Waits(i)' => Waits(i)
  PROVE  AttemptsInv'
<1>1. Revised
  BY RowsStand
<1>2. Ahead!Rids' = Ahead!Rids /\ AwayInv' /\ IdentityInv' /\ OneAttempt'
  BY <1>1, Moved
<1>3. Waiting'
  BY <1>1, WaitsOn DEF Waits
<1>4. TodoInv'
  BY <1>1, TodoStays DEF InRefresh
<1>5. PushInv'
  BY DEF AttemptsInv, PushInv, EngineMove, Ahead!New
<1> QED
  BY <1>2, <1>3, <1>4, <1>5 DEF AttemptsInv

LEMMA TypeStands ==
  ASSUME LookaheadBounds, LookaheadTypes, UNCHANGED rows, programming' >= programming, life' >= life,
         programming' \in Nat, life' \in Nat
  PROVE  SelectionsType' /\ Ahead!Rids' = Ahead!Rids
<1>1. ASSUME NEW i \in Ahead!Rids PROVE rows[i].sig \in Nat /\ rows[i].engine \in Nat
  <2>1. rows[i] \in Ahead!Rows
    BY RowFields DEF LookaheadTypes
  <2>2. rows[i].sig \in 0..MaxProgramEdits + 1 /\ rows[i].engine \in 0..MaxOutages + 1
    BY <2>1 DEF Ahead!Rows
  <2> QED
    BY <2>2 DEF LookaheadBounds
<1> QED
  BY <1>1 DEF LookaheadTypes, SelectionsType, Ahead!Rids, ProgrammeType, QueueType

LEMMA TakesKeeps ==
  ASSUME LookaheadBounds, LookaheadTypes, AttemptsInv, Ahead!Takes
  PROVE  LookaheadTypes' /\ AttemptsInv'
<1>1. /\ air = Ahead!None /\ fifo # <<>> /\ air' = Head(fifo) /\ fifo' = Tail(fifo) /\ unread' = Append(unread, Head(fifo))
      /\ UNCHANGED <<rows, todo, lookahead_pc, back, requests, programming, life, lookahead_faults, cursor, auto, ids, rewound>>
  BY DEF Ahead!Takes, Ahead!web, Ahead!database, Ahead!worker, Ahead!refreshing
<1>2. Head(fifo) \in Ahead!Rids /\ Tail(fifo) \in Seq(Ahead!Rids) /\ Ahead!Range(fifo) = {Head(fifo)} \cup Ahead!Range(Tail(fifo))
  BY <1>1, RangeHead DEF LookaheadTypes, QueueType
<1>3. Append(unread, Head(fifo)) \in Seq(Ahead!Rids) /\ Ahead!Range(Append(unread, Head(fifo))) = Ahead!Range(unread) \cup {Head(fifo)}
  BY <1>2, RangeAppend DEF LookaheadTypes, QueueType
<1>4. Ahead!Live' = Ahead!Live
  <2>1. Ahead!None \notin Ahead!Rids
    BY RowFields DEF LookaheadTypes
  <2> QED
    BY <1>1, <1>2, <2>1 DEF Ahead!Live
<1>5. EngineMove
  BY <1>1, <1>2, <1>3, <1>4 DEF EngineMove, Ahead!Live
<1>6. AttemptsInv'
  BY <1>1, <1>4, <1>5, Stands DEF Waits
<1>7. SelectionsType' /\ Ahead!Rids' = Ahead!Rids
  BY <1>1, TypeStands DEF LookaheadTypes, ProgrammeType, QueueType
<1> QED
  BY <1>1, <1>2, <1>3, <1>6, <1>7 DEF LookaheadTypes, ProgrammeType, QueueType, RefresherType

LEMMA EndsKeeps ==
  ASSUME LookaheadBounds, LookaheadTypes, AttemptsInv, Ahead!Ends
  PROVE  LookaheadTypes' /\ AttemptsInv'
<1>1. /\ air' = Ahead!None
      /\ UNCHANGED <<rows, todo, lookahead_pc, back, requests, programming, life, lookahead_faults, cursor, auto, ids, rewound, fifo, unread>>
  BY DEF Ahead!Ends, Ahead!web, Ahead!database, Ahead!worker, Ahead!refreshing
<1>2. Ahead!Live' \subseteq Ahead!Live
  BY <1>1 DEF Ahead!Live
<1>3. EngineMove
  BY <1>1, <1>2 DEF EngineMove, LookaheadTypes, QueueType
<1>4. AttemptsInv'
  BY <1>1, <1>2, <1>3, Stands DEF Waits
<1>5. SelectionsType' /\ Ahead!Rids' = Ahead!Rids
  BY <1>1, TypeStands DEF LookaheadTypes, ProgrammeType, QueueType
<1> QED
  BY <1>1, <1>4, <1>5 DEF LookaheadTypes, ProgrammeType, QueueType, RefresherType

LEMMA EngineRestartsKeeps ==
  ASSUME LookaheadBounds, LookaheadTypes, AttemptsInv, Ahead!EngineRestarts
  PROVE  LookaheadTypes' /\ AttemptsInv'
<1>1. /\ life' = life + 1 /\ fifo' = <<>> /\ air' = Ahead!None /\ unread' = <<>>
      /\ lookahead_faults.outage < MaxOutages /\ lookahead_faults' = [lookahead_faults EXCEPT !.outage = lookahead_faults.outage + 1]
      /\ UNCHANGED <<rows, todo, lookahead_pc, back, requests, programming, cursor, auto, ids, rewound>>
  BY DEF Ahead!EngineRestarts, Ahead!web, Ahead!database, Ahead!worker, Ahead!refreshing
<1>2. Ahead!Range(<<>>) = {} /\ <<>> \in Seq(Ahead!Rids)
  BY DEF Ahead!Range
<1>3. Ahead!Live' = {}
  BY <1>1, <1>2 DEF Ahead!Live
<1>4. EngineMove
  BY <1>1, <1>2, <1>3 DEF EngineMove
<1>5. AttemptsInv'
  BY <1>1, <1>3, <1>4, Stands DEF Waits
<1>6. SelectionsType' /\ Ahead!Rids' = Ahead!Rids
  BY <1>1, TypeStands DEF LookaheadTypes, ProgrammeType, QueueType
<1>7. lookahead_faults' \in [crash: Nat, outage: 0..MaxOutages] /\ lookahead_faults'.outage = lookahead_faults.outage + 1
  BY <1>1 DEF LookaheadBounds, LookaheadTypes, QueueType
<1>8. QueueType'
  BY <1>1, <1>2, <1>6, <1>7 DEF LookaheadTypes, QueueType
<1> QED
  BY <1>1, <1>5, <1>6, <1>8 DEF LookaheadTypes, ProgrammeType, RefresherType

LEMMA WebKeeps == ASSUME LookaheadBounds, LookaheadTypes, AttemptsInv, Ahead!Web PROVE LookaheadTypes' /\ AttemptsInv'
<1>1. /\ UNCHANGED <<rows, todo, lookahead_pc, back, life, lookahead_faults, cursor, auto, ids, rewound, fifo, air, unread>>
      /\ programming' \in 1..MaxProgramEdits + 1 /\ programming' >= programming
      /\ requests' \in [ListenerRequest -> Ahead!Outstanding \cup Ahead!Terminal \cup {"none"}]
      /\ \A r \in ListenerRequest : requests'[r] \in {"none", "pending"} => requests[r] \in {"none", "pending"}
  <2>1. CASE Ahead!Edit
    <3>1. /\ programming <= MaxProgramEdits /\ programming' = programming + 1 /\ UNCHANGED requests
          /\ UNCHANGED <<rows, todo, lookahead_pc, back, life, lookahead_faults, cursor, auto, ids, rewound, fifo, air, unread>>
      BY <2>1 DEF Ahead!Edit, Ahead!Quiet, Ahead!engineVars, Ahead!worker, Ahead!refreshing
    <3> QED
      BY <3>1 DEF LookaheadTypes, ProgrammeType, LookaheadBounds
  <2>2. ASSUME NEW r \in ListenerRequest, Ahead!Submit(r) \/ Ahead!Reject(r) PROVE <1>1!:
    <3>1. PICK v \in {"pending", "rejected"} : /\ requests' = [requests EXCEPT ![r] = v]
                                               /\ v = "pending" => requests[r] = "none"
      BY <2>2 DEF Ahead!Submit, Ahead!Reject
    <3>2. /\ UNCHANGED programming
          /\ UNCHANGED <<rows, todo, lookahead_pc, back, life, lookahead_faults, cursor, auto, ids, rewound, fifo, air, unread>>
      BY <2>2 DEF Ahead!Submit, Ahead!Reject, Ahead!Quiet, Ahead!engineVars, Ahead!worker, Ahead!refreshing, Ahead!web
    <3>3. v \in Ahead!Outstanding \cup Ahead!Terminal \cup {"none"}
      BY DEF Ahead!Outstanding, Ahead!Terminal
    <3> QED
      BY <3>1, <3>2, <3>3 DEF LookaheadTypes, ProgrammeType
  <2> QED
    BY <2>1, <2>2 DEF Ahead!Web
<1>2. EngineMove /\ Ahead!Live' = Ahead!Live
  BY <1>1, EngineStands DEF EngineStays
<1>3. AttemptsInv'
  BY <1>1, <1>2, Stands DEF Waits
<1>4. SelectionsType' /\ Ahead!Rids' = Ahead!Rids
  BY <1>1, TypeStands DEF LookaheadTypes, ProgrammeType, QueueType
<1> QED
  BY <1>1, <1>3, <1>4 DEF LookaheadTypes, ProgrammeType, QueueType, RefresherType

LEMMA CrashKeeps ==
  ASSUME LookaheadBounds, LookaheadTypes, AttemptsInv, Ahead!Crash
  PROVE  LookaheadTypes' /\ AttemptsInv'
<1>1. /\ UNCHANGED <<rows, life, cursor, requests, programming, fifo, air, unread>>
      /\ lookahead_pc' = "idle" /\ back' = "idle" /\ auto' = TRUE /\ todo' = {} /\ ids' = {} /\ rewound' = FALSE
      /\ lookahead_faults' = [lookahead_faults EXCEPT !.crash = lookahead_faults.crash + 1]
  BY DEF Ahead!Crash, Ahead!Dies, Ahead!Forgotten, Ahead!web, Ahead!database, Ahead!engineVars
<1>2. EngineMove /\ Ahead!Live' = Ahead!Live
  BY <1>1, EngineStands DEF EngineStays
<1>3. Revised
  BY <1>1, RowsStand
<1>4. Ahead!Rids' = Ahead!Rids /\ AwayInv' /\ IdentityInv' /\ OneAttempt'
  BY <1>2, <1>3, Moved
<1>5. Waiting'
  BY <1>1, <1>2, <1>3, WaitsOn
<1>6. PushInv' /\ TodoInv'
  BY <1>1 DEF PushInv, TodoInv
<1>7. SelectionsType' /\ Ahead!Rids' = Ahead!Rids
  BY <1>1, TypeStands DEF LookaheadTypes, ProgrammeType, QueueType
<1>8. lookahead_faults' \in [crash: Nat, outage: 0..MaxOutages] /\ lookahead_faults'.outage = lookahead_faults.outage
  BY <1>1 DEF LookaheadTypes, QueueType
<1> QED
  BY <1>1, <1>4, <1>5, <1>6, <1>7, <1>8 DEF LookaheadTypes, ProgrammeType, QueueType, RefresherType, AttemptsInv,
         LookaheadPlaces

LEMMA RemoveFutureKeeps ==
  ASSUME LookaheadBounds, LookaheadTypes, AttemptsInv, Ahead!RemoveFuture
  PROVE  LookaheadTypes' /\ AttemptsInv'
<1>1. /\ UNCHANGED <<rows, life, cursor, requests, programming, air, unread, back, auto, todo, ids, rewound, lookahead_faults>>
      /\ lookahead_pc = "remove" /\ lookahead_pc' = "settle" /\ fifo' = Ahead!Without(fifo, ids)
  BY DEF Ahead!RemoveFuture, Ahead!Goes, Ahead!Work, Ahead!web, Ahead!database, Ahead!refreshing
<1>2. fifo' \in Seq(Ahead!Rids) /\ Ahead!Range(fifo') = Ahead!Range(fifo) \ ids
  BY <1>1, WithoutKeeps DEF LookaheadTypes, QueueType
<1>3. Ahead!Live' \subseteq Ahead!Live
  BY <1>1, <1>2 DEF Ahead!Live
<1>4. EngineMove
  BY <1>1, <1>2, <1>3 DEF EngineMove, LookaheadTypes, QueueType
<1>5. Revised
  BY <1>1, RowsStand
<1>6. Ahead!Rids' = Ahead!Rids /\ AwayInv' /\ IdentityInv' /\ OneAttempt'
  BY <1>4, <1>5, Moved
<1>7. Waiting'
  BY <1>1, <1>4, <1>5, WaitsOn
<1>8. PushInv' /\ TodoInv'
  BY <1>1, <1>4, <1>5, TodoStays DEF PushInv, InRefresh
<1>9. SelectionsType' /\ Ahead!Rids' = Ahead!Rids
  BY <1>1, TypeStands DEF LookaheadTypes, ProgrammeType, QueueType
<1> QED
  BY <1>1, <1>2, <1>6, <1>7, <1>8, <1>9 DEF LookaheadTypes, ProgrammeType, QueueType, RefresherType, AttemptsInv,
         LookaheadPlaces

----------------------------------------------------------------------------
(* Lookahead: THE REFILL *)

LEMMA TypeRevised ==
  ASSUME LookaheadBounds, LookaheadTypes, Revised, UNCHANGED <<programming, life>>
  PROVE  SelectionsType' /\ Ahead!Rids' = Ahead!Rids
<1>1. Ahead!Rids' = Ahead!Rids
  BY SameRids DEF LookaheadTypes
<1>2. ASSUME NEW i \in Ahead!Rids
      PROVE  rows'[i].slot < i /\ rows'[i].sig <= programming /\ rows'[i].engine <= life
  <2>1. rows[i].slot < i /\ rows[i].sig <= programming /\ rows[i].engine <= life /\ RowMove(i)
    BY DEF LookaheadTypes, SelectionsType, Revised
  <2>2. programming \in Nat /\ life \in Nat
    BY DEF LookaheadTypes, ProgrammeType, QueueType, LookaheadBounds
  <2> QED
    BY <2>1, <2>2 DEF RowMove
<1> QED
  BY <1>1, <1>2 DEF LookaheadTypes, SelectionsType, Revised

LEMMA OneRow ==
  ASSUME LookaheadTypes, AttemptsInv, NEW n \in Ahead!Rids, NEW r \in Ahead!Rows, rows' = [rows EXCEPT ![n] = r], RowMove(n)
  PROVE  Revised
<1>1. rows' \in Seq(Ahead!Rows) /\ Len(rows') = Len(rows) /\ \A i \in Ahead!Rids : i # n => rows'[i] = rows[i]
  <2>1. rows \in Seq(Ahead!Rows)
    BY DEF LookaheadTypes, SelectionsType
  <2>2. \A S : \A s \in Seq(S), x \in S : \A k \in DOMAIN s :
          /\ [s EXCEPT ![k] = x] \in Seq(S) /\ Len([s EXCEPT ![k] = x]) = Len(s)
          /\ \A i \in DOMAIN s : i # k => [s EXCEPT ![k] = x][i] = s[i]
    OBVIOUS
  <2> HIDE DEF Ahead!Rows
  <2> QED
    BY <2>1, <2>2 DEF Ahead!Rids
<1>2. ASSUME NEW i \in Ahead!Rids, i # n PROVE RowMove(i)
  BY <1>1, <1>2 DEF AttemptsInv, IdentityInv, RowMove, Away
<1> QED
  BY <1>1, <1>2 DEF Revised

LEMMA PushKeeps ==
  ASSUME LookaheadBounds, LookaheadTypes, AttemptsInv, Ahead!Push
  PROVE  LookaheadTypes' /\ AttemptsInv'
<1>1. /\ UNCHANGED <<rows, life, programming, cursor, requests, air, unread, back, auto, todo, ids, rewound, lookahead_faults>>
      /\ lookahead_pc = "push" /\ lookahead_pc' = "record" /\ fifo' = Append(fifo, Ahead!New)
  BY DEF Ahead!Push, Ahead!Goes, Ahead!Work, Ahead!web, Ahead!database, Ahead!refreshing
<1>2. Ahead!New \in Ahead!Rids
  <2>1. rows # <<>> /\ rows \in Seq(Ahead!Rows)
    BY <1>1 DEF AttemptsInv, PushInv, LookaheadTypes, SelectionsType
  <2> HIDE DEF Ahead!Rows
  <2> QED
    BY <2>1 DEF Ahead!New, Ahead!Rids
<1>3. fifo' \in Seq(Ahead!Rids) /\ Ahead!Range(fifo') = Ahead!Range(fifo) \cup {Ahead!New}
  BY <1>1, <1>2, RangeAppend DEF LookaheadTypes, QueueType
<1>4. EngineMove
  BY <1>1, <1>3 DEF EngineMove, LookaheadTypes, QueueType, Ahead!Live
<1>5. Revised
  BY <1>1, RowsStand
<1>6. Ahead!Rids' = Ahead!Rids /\ AwayInv' /\ IdentityInv' /\ OneAttempt'
  BY <1>4, <1>5, Moved
<1>7. Waiting'
  BY <1>1, <1>4, <1>5, WaitsOn
<1>8. PushInv' /\ TodoInv'
  BY <1>1, <1>4, <1>5, TodoStays DEF AttemptsInv, PushInv, InRefresh, Ahead!New
<1>9. SelectionsType' /\ Ahead!Rids' = Ahead!Rids
  BY <1>1, <1>5, TypeRevised
<1> QED
  BY <1>1, <1>3, <1>6, <1>7, <1>8, <1>9 DEF LookaheadTypes, ProgrammeType, QueueType, RefresherType, AttemptsInv,
         LookaheadPlaces

LEMMA NewIs ==
  ASSUME LookaheadTypes, AttemptsInv, lookahead_pc \in {"push", "record"}
  PROVE  /\ Ahead!New \in Ahead!Rids /\ rows[Ahead!New] \in Ahead!Rows /\ rows[Ahead!New].status = "selected" /\ ~Away(Ahead!New)
         /\ rows[Ahead!New].engine = 0
<1>1. Ahead!New \in Ahead!Rids
  <2>1. rows # <<>> /\ rows \in Seq(Ahead!Rows)
    BY DEF AttemptsInv, PushInv, LookaheadTypes, SelectionsType
  <2> HIDE DEF Ahead!Rows
  <2> QED
    BY <2>1 DEF Ahead!New, Ahead!Rids
<1>2. rows[Ahead!New] \in Ahead!Rows
  BY <1>1, RowFields DEF LookaheadTypes
<1> QED
  BY <1>1, <1>2 DEF AttemptsInv, PushInv, IdentityInv, Away

LEMMA CancelledKeeps ==
  ASSUME LookaheadBounds, LookaheadTypes, AttemptsInv, Ahead!Cancelled
  PROVE  LookaheadTypes' /\ AttemptsInv' /\ Revised
<1>1. /\ UNCHANGED <<life, programming, cursor, requests, fifo, air, unread, back, auto, todo, ids, rewound, lookahead_faults>>
      /\ lookahead_pc = "push" /\ lookahead_pc' = "select"
      /\ rows' = [rows EXCEPT ![Ahead!New] = [rows[Ahead!New] EXCEPT !.status = "failed", !.why = "cancelled"]]
  BY DEF Ahead!Cancelled, Ahead!Failed, Ahead!Goes, Ahead!Work, Ahead!web, Ahead!engineVars, Ahead!refreshing
<1> DEFINE r == [rows[Ahead!New] EXCEPT !.status = "failed", !.why = "cancelled"]
<1>2. /\ r \in Ahead!Rows /\ r.status = "failed" /\ r.why = "cancelled" /\ r.sig = rows[Ahead!New].sig
      /\ r.slot = rows[Ahead!New].slot /\ r.engine = rows[Ahead!New].engine /\ r.request = rows[Ahead!New].request
  BY <1>1, NewIs DEF Ahead!Rows, Ahead!Safe
<1>3. EngineMove /\ Ahead!Live' = Ahead!Live
  BY <1>1, EngineStands DEF EngineStays
<1>4. RowMove(Ahead!New)
  <2>1. rows'[Ahead!New] = r
    BY <1>1, NewIs DEF Ahead!Rids
  <2>2. Ahead!New \notin Ahead!Live' /\ Ahead!New \notin Ahead!Range(unread')
    BY <1>1, <1>3 DEF AttemptsInv, PushInv
  <2> HIDE DEF r
  <2> QED
    BY <1>1, <1>2, <2>1, <2>2, NewIs DEF RowMove, Ahead!Safe
<1>5. Revised
  <2> HIDE DEF r
  <2> QED
    BY <1>1, <1>2, <1>4, NewIs, OneRow DEF r
<1>6. Ahead!Rids' = Ahead!Rids /\ AwayInv' /\ IdentityInv' /\ OneAttempt'
  BY <1>3, <1>5, Moved
<1>7. Waiting'
  BY <1>1, <1>3, <1>5, WaitsOn
<1>8. PushInv' /\ TodoInv'
  BY <1>1, <1>3, <1>5, TodoStays DEF PushInv, InRefresh
<1>9. SelectionsType' /\ Len(rows') = Len(rows)
  BY <1>1, <1>5, TypeRevised DEF Revised
<1> QED
  BY <1>5, <1>1, <1>6, <1>7, <1>8, <1>9 DEF LookaheadTypes, ProgrammeType, QueueType, RefresherType, AttemptsInv,
         LookaheadPlaces

LEMMA RecordKeeps ==
  ASSUME LookaheadBounds, LookaheadTypes, AttemptsInv, Ahead!Record
  PROVE  LookaheadTypes' /\ AttemptsInv' /\ Revised
<1>1. /\ UNCHANGED <<life, programming, cursor, requests, fifo, air, unread, back, auto, todo, ids, rewound, lookahead_faults>>
      /\ lookahead_pc = "record" /\ lookahead_pc' = "select"
      /\ rows' = [rows EXCEPT ![Ahead!New] = [rows[Ahead!New] EXCEPT !.status = "queued", !.engine = life]]
  BY DEF Ahead!Record, Ahead!Goes, Ahead!Work, Ahead!web, Ahead!engineVars, Ahead!refreshing
<1> DEFINE r == [rows[Ahead!New] EXCEPT !.status = "queued", !.engine = life]
<1>0. life \in 1..MaxOutages + 1
  BY DEF LookaheadBounds, LookaheadTypes, QueueType
<1>2. /\ r \in Ahead!Rows /\ r.status = "queued" /\ r.why = rows[Ahead!New].why /\ r.sig = rows[Ahead!New].sig
      /\ r.slot = rows[Ahead!New].slot /\ r.engine = life /\ r.request = rows[Ahead!New].request /\ life # 0
  <2>1. life \in 0..MaxOutages + 1 /\ life # 0
    BY <1>0 DEF LookaheadBounds
  <2> QED
    BY <1>1, <2>1, NewIs DEF Ahead!Rows
<1>3. EngineMove /\ Ahead!Live' = Ahead!Live
  BY <1>1, EngineStands DEF EngineStays
<1>4. RowMove(Ahead!New)
  <2>1. rows'[Ahead!New] = r
    BY <1>1, NewIs DEF Ahead!Rids
  <2> HIDE DEF r
  <2> QED
    BY <1>1, <1>2, <2>1, NewIs DEF RowMove
<1>5. Revised
  <2> HIDE DEF r
  <2> QED
    BY <1>1, <1>2, <1>4, NewIs, OneRow DEF r
<1>6. Ahead!Rids' = Ahead!Rids /\ AwayInv' /\ IdentityInv' /\ OneAttempt'
  BY <1>3, <1>5, Moved
<1>7. Waiting'
  BY <1>1, <1>3, <1>5, WaitsOn
<1>8. PushInv' /\ TodoInv'
  BY <1>1, <1>3, <1>5, TodoStays DEF PushInv, InRefresh
<1>9. SelectionsType' /\ Len(rows') = Len(rows)
  BY <1>1, <1>5, TypeRevised DEF Revised
<1> QED
  BY <1>5, <1>1, <1>6, <1>7, <1>8, <1>9 DEF LookaheadTypes, ProgrammeType, QueueType, RefresherType, AttemptsInv,
         LookaheadPlaces

LEMMA PushFailsKeeps ==
  ASSUME LookaheadBounds, LookaheadTypes, AttemptsInv, NEW accepted \in BOOLEAN, Ahead!PushFails(accepted)
  PROVE  LookaheadTypes' /\ AttemptsInv'
<1>1. /\ UNCHANGED <<life, programming, cursor, requests, air, unread, auto, todo, ids, rewound>>
      /\ lookahead_faults.outage < MaxOutages /\ lookahead_faults' = [lookahead_faults EXCEPT !.outage = lookahead_faults.outage + 1]
      /\ lookahead_pc = "push" /\ lookahead_pc' = back /\ back' = "idle" /\ fifo' \in {fifo, Append(fifo, Ahead!New)}
      /\ rows' = [rows EXCEPT ![Ahead!New] = [rows[Ahead!New] EXCEPT !.status = "failed", !.why = "queue_failed"]]
  BY DEF Ahead!PushFails, Ahead!Finish, Ahead!Outage, Ahead!Failed, Ahead!web, Ahead!refreshing
<1> DEFINE r == [rows[Ahead!New] EXCEPT !.status = "failed", !.why = "queue_failed"]
<1>2. /\ r \in Ahead!Rows /\ r.status = "failed" /\ r.why = "queue_failed" /\ r.sig = rows[Ahead!New].sig
      /\ r.slot = rows[Ahead!New].slot /\ r.engine = rows[Ahead!New].engine /\ r.request = rows[Ahead!New].request
  BY <1>1, NewIs DEF Ahead!Rows
<1>3. fifo' \in Seq(Ahead!Rids) /\ Ahead!Range(fifo') \subseteq Ahead!Range(fifo) \cup {Ahead!New}
  <2>1. fifo \in Seq(Ahead!Rids) /\ Ahead!New \in Ahead!Rids
    BY <1>1, NewIs DEF LookaheadTypes, QueueType
  <2>2. Append(fifo, Ahead!New) \in Seq(Ahead!Rids) /\ Ahead!Range(Append(fifo, Ahead!New)) = Ahead!Range(fifo) \cup {Ahead!New}
    BY <2>1, RangeAppend
  <2> QED
    BY <1>1, <2>1, <2>2
<1>4. EngineMove
  BY <1>1, <1>3 DEF EngineMove, LookaheadTypes, QueueType, Ahead!Live
<1>5. RowMove(Ahead!New)
  <2>1. rows'[Ahead!New] = r
    BY <1>1, NewIs DEF Ahead!Rids
  <2>2. lookahead_faults' # lookahead_faults
    <3>1. lookahead_faults \in [crash: Nat, outage: 0..MaxOutages]
      BY DEF LookaheadTypes, QueueType
    <3>2. lookahead_faults'.outage = lookahead_faults.outage + 1 /\ lookahead_faults.outage \in Nat
      BY <1>1, <3>1 DEF LookaheadBounds
    <3> QED
      BY <3>2
  <2> HIDE DEF r
  <2> QED
    BY <1>2, <2>1, <2>2, NewIs, <1>1 DEF RowMove, Ahead!Safe
<1>6. Revised
  <2> HIDE DEF r
  <2> QED
    BY <1>1, <1>2, <1>5, NewIs, OneRow DEF r
<1>7. Ahead!Rids' = Ahead!Rids /\ AwayInv' /\ IdentityInv' /\ OneAttempt'
  BY <1>4, <1>6, Moved
<1>8. Waiting'
  BY <1>1, <1>4, <1>6, WaitsOn
<1>9. back \in {"idle", "remove"}
  BY DEF LookaheadTypes, RefresherType
<1>10. PushInv' /\ TodoInv'
  BY <1>1, <1>4, <1>6, <1>9, TodoStays DEF PushInv, InRefresh
<1>11. SelectionsType' /\ Len(rows') = Len(rows)
  BY <1>1, <1>6, TypeRevised DEF Revised
<1>12. lookahead_faults' \in [crash: Nat, outage: 0..MaxOutages] /\ lookahead_faults'.outage = lookahead_faults.outage + 1
  BY <1>1 DEF LookaheadBounds, LookaheadTypes, QueueType
<1>13. QueueType'
  BY <1>1, <1>3, <1>7, <1>12 DEF LookaheadTypes, QueueType
<1> QED
  BY <1>1, <1>7, <1>8, <1>9, <1>10, <1>11, <1>13 DEF LookaheadTypes, ProgrammeType, RefresherType, AttemptsInv,
         LookaheadPlaces

LEMMA SelectKeeps ==
  ASSUME LookaheadBounds, LookaheadTypes, AttemptsInv, Ahead!Select
  PROVE  LookaheadTypes' /\ AttemptsInv'
<1>1. /\ UNCHANGED <<life, programming, fifo, air, unread, auto, todo, ids, rewound, lookahead_faults>> /\ lookahead_pc = "select"
  BY DEF Ahead!Select, Ahead!Work, Ahead!web, Ahead!engineVars, Ahead!refreshing
<1>2. EngineMove /\ Ahead!Live' = Ahead!Live
  BY <1>1, EngineStands DEF EngineStays
<1>3. CASE Ahead!Finish /\ UNCHANGED Ahead!database
  <2>1. UNCHANGED <<rows, cursor, requests>> /\ lookahead_pc' = back /\ back' = "idle"
    BY <1>3 DEF Ahead!Finish, Ahead!database
  <2>2. Revised
    BY <2>1, RowsStand
  <2>3. Ahead!Rids' = Ahead!Rids /\ AwayInv' /\ IdentityInv' /\ OneAttempt'
    BY <1>2, <2>2, Moved
  <2>4. Waiting'
    BY <1>2, <2>1, <2>2, WaitsOn
  <2>5. back \in {"idle", "remove"}
    BY DEF LookaheadTypes, RefresherType
  <2>6. PushInv' /\ TodoInv'
    BY <1>1, <1>2, <2>1, <2>2, <2>5, TodoStays DEF PushInv, InRefresh
  <2>7. SelectionsType'
    BY <1>1, <2>2, TypeRevised
  <2> QED
    BY <1>1, <2>1, <2>3, <2>4, <2>5, <2>6, <2>7 DEF LookaheadTypes, ProgrammeType, QueueType, RefresherType,
           AttemptsInv, LookaheadPlaces
<1>4. ASSUME NEW r \in {Ahead!None} \cup {q \in ListenerRequest : open /\ requests[q] = "pending"}, Len(rows) # MaxRows,
             rows' = Append(rows, [status |-> "selected", why |-> "", sig |-> programming,
                                   slot |-> cursor, engine |-> 0, request |-> r]),
             requests' = [q \in ListenerRequest |-> IF q = r THEN "queued" ELSE requests[q]],
             cursor' = cursor + 1, lookahead_pc' = "push", UNCHANGED back
      PROVE  LookaheadTypes' /\ AttemptsInv'
  <2>0. PICK n : n = Len(rows) + 1
    OBVIOUS
  <2> DEFINE row == [status |-> "selected", why |-> "", sig |-> programming,
                     slot |-> cursor, engine |-> 0, request |-> r]
  <2>1. /\ row \in Ahead!Rows /\ row.status = "selected" /\ row.sig = programming /\ row.slot = cursor
        /\ row.engine = 0 /\ row.request = r
    <3>1. programming \in 0..MaxProgramEdits + 1 /\ cursor \in Nat /\ 0 \in 0..MaxOutages + 1 /\ r \in ListenerRequest \cup {Ahead!None}
      BY DEF LookaheadBounds, LookaheadTypes, ProgrammeType
    <3> QED
      BY <3>1 DEF Ahead!Rows
  <2>2. rows \in Seq(Ahead!Rows) /\ Len(rows) \in Nat /\ Ahead!Rids = 1..Len(rows)
    BY RowFields DEF LookaheadTypes, SelectionsType
  <2> HIDE DEF row, Ahead!Rows
  <2>3. rows' = Append(rows, row)
    BY <1>4 DEF row
  <2>4. /\ rows' \in Seq(Ahead!Rows) /\ Len(rows') = n /\ rows'[n] = row
        /\ \A i \in 1..Len(rows) : rows'[i] = rows[i]
    BY <2>0, <2>1, <2>2, <2>3, RangeAppend
  <2>5. Ahead!Rids' = Ahead!Rids \cup {n} /\ Ahead!New' = n /\ n \notin Ahead!Rids /\ n \in Nat /\ n <= MaxRows /\ n = Len(rows) + 1
    <3>1. Ahead!Rids' = 1..n
      BY <2>4 DEF Ahead!Rids
    <3>2. Len(rows) <= MaxRows
      BY DEF LookaheadTypes, SelectionsType
    <3>3. n \in Nat /\ n \notin Ahead!Rids /\ 1..n = Ahead!Rids \cup {n}
      BY <2>0, <2>2
    <3>4. n <= MaxRows
      <4>1. Len(rows) # MaxRows
        BY <1>4
      <4> QED
        BY <2>0, <2>2, <3>2, <4>1 DEF LookaheadBounds
    <3>5. Ahead!New' = n
      BY <2>4 DEF Ahead!New
    <3> QED
      BY <2>0, <3>1, <3>3, <3>4, <3>5
  <2>6. n \notin Ahead!Live /\ n \notin Ahead!Range(unread) /\ n \notin todo
    BY <2>5, LiveIn DEF LookaheadTypes, RefresherType
  <2>7. \A i \in Ahead!Rids : rows'[i] = rows[i]
    BY <2>2, <2>4
  <2>8. ~Away(n)' /\ \A i \in Ahead!Rids : Away(i)' <=> Away(i)
    BY <2>1, <2>4, <2>7 DEF Away
  <2>9. AwayInv'
    BY <1>1, <1>2, <2>5, <2>8 DEF AwayInv, AttemptsInv
  <2>10. IdentityInv'
    BY <1>1, <1>2, <2>1, <2>4, <2>5, <2>6, <2>7 DEF IdentityInv, AttemptsInv
  <2>11. \A i \in Ahead!Rids : rows[i].request # Ahead!None /\ rows[i].request = r => Away(i)
    BY DEF AttemptsInv, Waiting
  <2>12. OneAttempt'
    <3> SUFFICES ASSUME NEW i \in Ahead!Rids', NEW j \in Ahead!Rids', i # j, rows'[i].request # Ahead!None,
                        rows'[i].request = rows'[j].request
                 PROVE  Away(i)' \/ Away(j)'
      BY DEF OneAttempt
    <3>1. CASE i \in Ahead!Rids /\ j \in Ahead!Rids
      BY <2>7, <2>8, <3>1 DEF AttemptsInv, OneAttempt
    <3>2. CASE i = n \/ j = n
      BY <2>1, <2>4, <2>5, <2>7, <2>8, <2>11, <3>2
    <3> QED
      BY <2>5, <3>1, <3>2
  <2>13. Waiting'
    <3> SUFFICES ASSUME NEW i \in Ahead!Rids', rows'[i].request \in ListenerRequest \ {Ahead!None},
                        requests'[rows'[i].request] \in {"none", "pending"}
                 PROVE  Away(i)'
      BY DEF Waiting
    <3>1. rows'[i].request # r /\ requests'[rows'[i].request] = requests[rows'[i].request]
      BY <1>4
    <3>2. i \in Ahead!Rids
      BY <2>1, <2>4, <2>5, <3>1
    <3> QED
      BY <2>7, <2>8, <3>1, <3>2 DEF AttemptsInv, Waiting
  <2>14. TodoInv'
    <3>1. todo \subseteq Ahead!Rids
      BY DEF LookaheadTypes, RefresherType
    <3> QED
      BY <1>1, <1>2, <1>4, <2>7, <3>1 DEF AttemptsInv, TodoInv, InRefresh
  <2>15. PushInv'
    <3>1. rows' # <<>>
      BY <2>2, <2>4, <2>5
    <3> QED
      BY <1>1, <1>2, <2>1, <2>4, <2>5, <2>6, <3>1 DEF PushInv
  <2>16. SelectionsType'
    <3>1. cursor < n /\ programming <= programming /\ 0 <= life
      BY <2>2, <2>5 DEF LookaheadTypes, ProgrammeType, QueueType, LookaheadBounds
    <3>2. ASSUME NEW i \in Ahead!Rids' PROVE rows'[i].slot < i /\ rows'[i].sig <= programming /\ rows'[i].engine <= life
      BY <2>1, <2>4, <2>5, <2>7, <3>1 DEF LookaheadTypes, SelectionsType
    <3> QED
      BY <1>1, <2>4, <2>5, <3>2 DEF SelectionsType
  <2>17. ProgrammeType'
    <3>1. requests' \in [ListenerRequest -> Ahead!Outstanding \cup Ahead!Terminal \cup {"none"}]
      BY <1>4 DEF LookaheadTypes, ProgrammeType, Ahead!Outstanding
    <3>2. cursor' \in 0..MaxRows /\ cursor' <= Len(rows')
      <4>1. cursor' = cursor + 1
        BY <1>4
      <4>2. cursor \in 0..MaxRows /\ cursor <= Len(rows)
        BY DEF LookaheadTypes, ProgrammeType
      <4>3. Len(rows') = n /\ n <= MaxRows
        BY <2>4, <2>5
      <4> QED
        BY <2>0, <2>2, <4>1, <4>2, <4>3 DEF LookaheadBounds
    <3> QED
      BY <1>1, <3>1, <3>2 DEF LookaheadTypes, ProgrammeType
  <2>18. QueueType' /\ RefresherType'
    <3>1. \A s \in Seq(Ahead!Rids) : s \in Seq(Ahead!Rids')
      BY <2>5
    <3> QED
      BY <1>1, <1>4, <2>5, <3>1 DEF LookaheadTypes, QueueType, RefresherType, LookaheadPlaces
  <2> QED
    BY <2>9, <2>10, <2>12, <2>13, <2>14, <2>15, <2>16, <2>17, <2>18 DEF LookaheadTypes, AttemptsInv
<1> QED
  BY <1>3, <1>4 DEF Ahead!Select
----------------------------------------------------------------------------
(* Lookahead: THE REFRESH *)

LEMMA FirstIs == ASSUME NEW S, S \subseteq Nat, S # {} PROVE Ahead!First(S) \in S /\ \A j \in S : Ahead!First(S) <= j
<1> DEFINE Less == {p \in Nat \X Nat : p[1] < p[2]}
<1>1. IsWellFoundedOn(Less, Nat)
  BY NatLessThanWellFounded DEF OpToRel
<1>2. PICK x \in S : \A y \in S : ~(<<y, x>> \in Less)
  <2> HIDE DEF Less
  <2> QED
    BY <1>1, WFMin, Zenon
<1>3. \A y \in S : x <= y
  <2> TAKE y \in S
  <2>1. x \in Nat /\ y \in Nat /\ <<y, x>> \notin Less
    BY <1>2
  <2> QED
    BY <2>1
<1> QED
  BY <1>3 DEF Ahead!First

LEMMA RevisedMap ==
  ASSUME LookaheadTypes, rows' \in [Ahead!Rids -> Ahead!Rows], \A i \in Ahead!Rids : RowMove(i)
  PROVE  Revised
<1>1. rows \in Seq(Ahead!Rows) /\ DOMAIN rows = Ahead!Rids
  BY DEF LookaheadTypes, SelectionsType, Ahead!Rids
<1> HIDE DEF Ahead!Rows
<1> QED
  BY <1>1, Mapped DEF Revised

LEMMA StartedAre ==
  ASSUME LookaheadTypes
  PROVE  /\ Ahead!StartedRows \in [Ahead!Rids -> Ahead!Rows]
         /\ \A i \in Ahead!Rids : IF i \in Ahead!Range(unread)
              THEN /\ Ahead!StartedRows[i].status = "started" /\ Ahead!StartedRows[i].slot = rows[i].slot
                   /\ Ahead!StartedRows[i].request = rows[i].request /\ Ahead!StartedRows[i].sig = rows[i].sig
                   /\ Ahead!StartedRows[i].engine = rows[i].engine /\ Ahead!StartedRows[i].why = rows[i].why
              ELSE Ahead!StartedRows[i] = rows[i]
<1>1. ASSUME NEW i \in Ahead!Rids PROVE rows[i] \in Ahead!Rows
  BY RowFields DEF LookaheadTypes
<1>2. ASSUME NEW i \in Ahead!Rids
      PROVE  LET s == [rows[i] EXCEPT !.status = "started"]
             IN /\ s \in Ahead!Rows /\ s.status = "started" /\ s.slot = rows[i].slot /\ s.request = rows[i].request
                /\ s.sig = rows[i].sig /\ s.engine = rows[i].engine /\ s.why = rows[i].why
  BY <1>1 DEF Ahead!Rows
<1> HIDE DEF Ahead!Rows
<1> QED
  BY <1>1, <1>2 DEF Ahead!StartedRows

LEMMA ConfirmedAre ==
  ASSUME LookaheadTypes
  PROVE  /\ Ahead!Confirmed(rows) \in [ListenerRequest -> Ahead!Outstanding \cup Ahead!Terminal \cup {"none"}]
         /\ \A r \in ListenerRequest : Ahead!Confirmed(rows)[r] \in {requests[r], "played"}
BY DEF LookaheadTypes, ProgrammeType, Ahead!Confirmed, Ahead!Terminal

(* A selection whose START is read.                                        *)
LEMMA StartedMoves ==
  ASSUME LookaheadTypes, AttemptsInv, NEW i \in Ahead!Rids, rows'[i] = Ahead!StartedRows[i]
  PROVE  RowMove(i)
<1>1. CASE i \in Ahead!Range(unread)
  <2>1. ~Away(i)
    BY <1>1 DEF AttemptsInv, AwayInv
  <2> QED
    BY <1>1, <2>1, StartedAre DEF RowMove
<1>2. CASE i \notin Ahead!Range(unread)
  BY <1>2, StartedAre DEF AttemptsInv, IdentityInv, RowMove, Away
<1> QED
  BY <1>1, <1>2

LEMMA BeginKeeps ==
  ASSUME LookaheadBounds, LookaheadTypes, AttemptsInv, Ahead!Begin
  PROVE  LookaheadTypes' /\ AttemptsInv' /\ Revised
<1>1. /\ lookahead_pc = "idle" /\ UNCHANGED <<cursor, fifo, air, life, programming, back, ids, rewound, lookahead_faults>>
      /\ unread' = <<>> /\ rows' = Ahead!StartedRows /\ todo' = Ahead!Obsolete(rows') /\ lookahead_pc' \in {"fill", "mark"} /\ back = "idle"
  BY DEF Ahead!Begin, Ahead!Work, Ahead!web, LookaheadTypes, RefresherType
<1>2. PICK old \in SUBSET ListenerRequest :
        requests' = [r \in ListenerRequest |-> IF Ahead!Confirmed(rows)[r] = "played" THEN "played"
                                       ELSE IF r \in old THEN "expired" ELSE Ahead!Maintained(rows', requests)[r]]
  BY DEF Ahead!Begin
<1>3. EngineMove /\ Ahead!Live' = Ahead!Live
  BY <1>1, EngineStands DEF EngineStays
<1>4. Revised
  <2>1. \A i \in Ahead!Rids : RowMove(i)
    BY <1>1, StartedMoves
  <2> QED
    BY <1>1, <2>1, StartedAre, RevisedMap
<1>5. Ahead!Rids' = Ahead!Rids /\ AwayInv' /\ IdentityInv' /\ OneAttempt'
  BY <1>3, <1>4, Moved
<1>6. \A r \in ListenerRequest : \/ Ahead!Maintained(rows', requests)[r] = requests[r]
                                 \/ /\ Ahead!Maintained(rows', requests)[r] = "pending"
                                    /\ \A i \in Ahead!Rids : rows'[i].request = r => Away(i)'
  BY <1>5 DEF Ahead!Maintained, Away, Ahead!Rids
<1>7. ASSUME NEW i \in Ahead!Rids, rows[i].request \in ListenerRequest \ {Ahead!None}, requests'[rows[i].request] \in {"none", "pending"}
      PROVE  requests[rows[i].request] \in {"none", "pending"} \/ Away(i)'
  <2>1. requests'[rows[i].request] = Ahead!Maintained(rows', requests)[rows[i].request]
    BY <1>2, <1>7
  <2>2. rows'[i].request = rows[i].request
    BY <1>4 DEF Revised, RowMove
  <2> QED
    BY <1>6, <1>7, <2>1, <2>2
<1>8. Waiting'
  BY <1>3, <1>4, <1>7, WaitsOn
<1>9. PushInv' /\ TodoInv'
  BY <1>1 DEF PushInv, TodoInv, InRefresh, Ahead!Obsolete
<1>10. SelectionsType'
  BY <1>1, <1>4, TypeRevised
<1>11. requests' \in [ListenerRequest -> Ahead!Outstanding \cup Ahead!Terminal \cup {"none"}]
  <2>1. \A r \in ListenerRequest : Ahead!Maintained(rows', requests)[r] \in Ahead!Outstanding \cup Ahead!Terminal \cup {"none"}
    BY <1>6 DEF Ahead!Outstanding, LookaheadTypes, ProgrammeType
  <2> QED
    BY <1>2, <2>1 DEF Ahead!Terminal
<1>12. ProgrammeType'
  BY <1>1, <1>4, <1>11 DEF LookaheadTypes, ProgrammeType, Revised
<1>13. QueueType'
  BY <1>1, <1>3, <1>5 DEF LookaheadTypes, QueueType, EngineMove
<1>14. RefresherType'
  BY <1>1, <1>5 DEF LookaheadTypes, RefresherType, LookaheadPlaces, Ahead!Obsolete, Ahead!Rids
<1> QED
  BY <1>4, <1>5, <1>8, <1>9, <1>10, <1>12, <1>13, <1>14 DEF LookaheadTypes, AttemptsInv

LEMMA MarkKeeps ==
  ASSUME LookaheadBounds, LookaheadTypes, AttemptsInv, Ahead!Mark
  PROVE  LookaheadTypes' /\ AttemptsInv' /\ Revised
<1> DEFINE found == {i \in todo : rows[i].status = "selected" /\ rows[i].engine = 0 /\ i \in Ahead!Live}
           sure(i) == i \in found \/ rows[i].engine = life
           chosen == {i \in todo : rows[i].why = "refresh" \/ (sure(i) /\ i \in Ahead!Range(fifo))}
           seen(i) == IF i \in found THEN [rows[i] EXCEPT !.status = "queued", !.engine = life] ELSE rows[i]
           row(i) == IF i \in chosen THEN [seen(i) EXCEPT !.why = "refresh"] ELSE seen(i)
<1>1. /\ lookahead_pc = "mark" /\ UNCHANGED <<requests, cursor, fifo, air, life, unread, programming, back, rewound, lookahead_faults>>
      /\ rows' = [i \in Ahead!Rids |-> row(i)] /\ back = "idle"
      /\ ids' = {i \in chosen : sure(i) /\ i \in Ahead!Range(fifo)}
      /\ lookahead_pc' \in {"settle", "prefill", "remove"} /\ (lookahead_pc' = "prefill" => ids' # {})
      /\ todo' = chosen \cup {i \in todo : rows'[i].status = "selected" /\ rows'[i].engine = 0}
  BY DEF Ahead!Mark, Ahead!Work, Ahead!web, Ahead!engineVars, LookaheadTypes, RefresherType
<1>2. EngineMove /\ Ahead!Live' = Ahead!Live
  BY <1>1, EngineStands DEF EngineStays
<1>3. found \subseteq todo /\ chosen \subseteq todo /\ todo \subseteq Ahead!Rids /\ life # 0
  BY DEF LookaheadTypes, RefresherType, QueueType
<1>4. ASSUME NEW i \in Ahead!Rids
      PROVE  /\ row(i) \in Ahead!Rows /\ row(i).slot = rows[i].slot /\ row(i).request = rows[i].request
             /\ row(i).sig = rows[i].sig
             /\ row(i).why = IF i \in chosen THEN "refresh" ELSE rows[i].why
             /\ row(i).status = IF i \in found THEN "queued" ELSE rows[i].status
             /\ row(i).engine = IF i \in found THEN life ELSE rows[i].engine
             /\ i \notin todo => row(i) = rows[i]
  <2>1. rows[i] \in Ahead!Rows
    BY RowFields DEF LookaheadTypes
  <2>2. life \in 0..MaxOutages + 1
    BY DEF LookaheadBounds, LookaheadTypes, QueueType
  <2>3. /\ seen(i) \in Ahead!Rows /\ seen(i).slot = rows[i].slot /\ seen(i).request = rows[i].request
        /\ seen(i).sig = rows[i].sig /\ seen(i).why = rows[i].why
        /\ seen(i).status = IF i \in found THEN "queued" ELSE rows[i].status
        /\ seen(i).engine = IF i \in found THEN life ELSE rows[i].engine
    <3> HIDE DEF found
    <3> QED
      BY <2>1, <2>2 DEF Ahead!Rows
  <2> HIDE DEF found, chosen, seen
  <2>4. /\ row(i) \in Ahead!Rows /\ row(i).slot = seen(i).slot /\ row(i).request = seen(i).request
        /\ row(i).sig = seen(i).sig /\ row(i).why = (IF i \in chosen THEN "refresh" ELSE seen(i).why)
        /\ row(i).status = seen(i).status /\ row(i).engine = seen(i).engine
    BY <2>3 DEF Ahead!Rows
  <2>5. i \notin todo => row(i) = rows[i]
    BY <1>3 DEF seen
  <2> QED
    BY <2>3, <2>4, <2>5
<1>5. rows' \in [Ahead!Rids -> Ahead!Rows] /\ \A i \in Ahead!Rids : rows'[i] = row(i)
  <2> HIDE DEF row, Ahead!Rows
  <2> QED
    BY <1>1, <1>4
<1> HIDE DEF row
<1>6. ASSUME NEW i \in Ahead!Rids PROVE RowMove(i)
  <2>1. CASE i \in todo
    <3>1. rows[i].status \in {"selected", "queued"} \/ (rows[i].status = "failed" /\ rows[i].why = "refresh")
      BY <1>1, <2>1 DEF AttemptsInv, TodoInv
    <3>2. ~Away(i)
      BY <3>1 DEF Away, Ahead!Safe
    <3>3. rows'[i].status = "failed" => rows[i].why = "refresh" /\ rows[i].engine # 0 /\ rows'[i].why = "refresh"
      BY <1>4, <1>5, <2>1, <3>1 DEF AttemptsInv, IdentityInv
    <3>4. rows'[i].status = "queued" => rows'[i].engine # 0
      BY <1>3, <1>4, <1>5 DEF AttemptsInv, IdentityInv
    <3>5. i \in found => i \in Ahead!Live /\ rows[i].status = "selected"
      OBVIOUS
    <3> HIDE DEF found, chosen
    <3> QED
      BY <1>1, <1>4, <1>5, <2>1, <3>1, <3>2, <3>3, <3>4, <3>5 DEF RowMove, Ahead!Safe
  <2>2. CASE i \notin todo
    BY <1>4, <1>5, <2>2 DEF AttemptsInv, IdentityInv, RowMove, Away
  <2> QED
    BY <2>1, <2>2
<1>7. Revised
  BY <1>5, <1>6, RevisedMap
<1>8. Ahead!Rids' = Ahead!Rids /\ AwayInv' /\ IdentityInv' /\ OneAttempt'
  BY <1>2, <1>7, Moved
<1>9. Waiting'
  BY <1>1, <1>2, <1>7, WaitsOn
<1>10. todo' \subseteq todo /\ ids' \subseteq todo /\ (lookahead_pc' = "prefill" => todo' # {})
  BY <1>1, <1>3
<1>11. PushInv' /\ TodoInv'
  <2>1. ASSUME NEW i \in todo', rows'[i].engine = 0 PROVE i \notin Ahead!Live
    <3>1. i \in Ahead!Rids /\ i \in todo /\ i \notin found /\ rows[i].engine = 0
      BY <1>3, <1>4, <1>5, <1>10, <2>1
    <3>2. rows[i].status = "selected"
      <4>1. CASE i \in chosen
        <5>1. rows[i].why = "refresh"
          BY <1>3, <3>1, <4>1
        <5> QED
          BY <1>1, <3>1, <5>1 DEF AttemptsInv, TodoInv, IdentityInv
      <4>2. CASE i \notin chosen
        BY <1>1, <1>4, <1>5, <2>1, <3>1, <4>2
      <4> QED
        BY <4>1, <4>2
    <3> QED
      BY <3>1, <3>2
  <2> QED
    BY <1>1, <1>2, <2>1 DEF PushInv, TodoInv
<1>12. SelectionsType'
  BY <1>1, <1>7, TypeRevised
<1>13. ProgrammeType' /\ QueueType'
  BY <1>1, <1>7, <1>8 DEF LookaheadTypes, ProgrammeType, QueueType, Revised
<1>14. RefresherType'
  BY <1>1, <1>3, <1>8, <1>10 DEF LookaheadTypes, RefresherType, LookaheadPlaces
<1> QED
  BY <1>7, <1>8, <1>9, <1>11, <1>12, <1>13, <1>14 DEF LookaheadTypes, AttemptsInv

LEMMA PrefillKeeps ==
  ASSUME LookaheadBounds, LookaheadTypes, AttemptsInv, Ahead!Prefill
  PROVE  LookaheadTypes' /\ AttemptsInv' /\ Revised
<1> DEFINE rs == Ahead!StartedRows
           waiting == {i \in todo : rs[i].status # "started"}
           first == Ahead!First(IF waiting = {} THEN todo ELSE waiting)
           possible == {i \in Ahead!Rids : i > first /\ rs[i].sig = programming /\ i \in Ahead!Live}
           tracked == {i \in possible : rs[i].engine = life}
           n == Ahead!First(IF tracked = {} THEN possible ELSE tracked)
           row == [rs[n] EXCEPT !.engine = life,
                     !.status = IF rs[n].status = "started" \/ n \in tracked THEN rs[n].status ELSE "queued"]
<1>1. /\ lookahead_pc = "prefill" /\ UNCHANGED <<fifo, air, life, programming, todo, ids, lookahead_faults>>
      /\ unread' = <<>> /\ requests' = Ahead!Confirmed(rows) /\ rewound' = TRUE /\ back = "idle"
  BY DEF Ahead!Prefill, Ahead!Work, Ahead!web, LookaheadTypes, RefresherType
<1>2. \/ /\ possible # {} /\ lookahead_pc' = "remove" /\ UNCHANGED <<cursor, back>> /\ rows' = [rs EXCEPT ![n] = row]
      \/ /\ rows' = rs /\ lookahead_pc' = "fill" /\ back' = "remove"
         /\ cursor' = cursor \/ cursor' = rs[first].slot
  BY DEF Ahead!Prefill, Ahead!RestoreBefore
<1>3. EngineMove /\ Ahead!Live' = Ahead!Live
  BY <1>1, EngineStands DEF EngineStays
<1>4. todo # {} /\ todo \subseteq Ahead!Rids /\ Ahead!Rids \subseteq Nat
  BY <1>1, RowFields DEF LookaheadTypes, RefresherType
<1>5. first \in Ahead!Rids
  <2> DEFINE C == IF waiting = {} THEN todo ELSE waiting
  <2>1. C \subseteq Nat /\ C # {} /\ C \subseteq Ahead!Rids
    BY <1>4
  <2> HIDE DEF C
  <2>2. Ahead!First(C) \in C
    BY <2>1, FirstIs
  <2> QED
    BY <2>1, <2>2 DEF C
<1>6. possible # {} => n \in possible /\ (n \in tracked \/ tracked = {})
  <2> SUFFICES ASSUME possible # {} PROVE n \in possible /\ (n \in tracked \/ tracked = {})
    OBVIOUS
  <2> DEFINE C == IF tracked = {} THEN possible ELSE tracked
  <2>1. C \subseteq Nat /\ C # {} /\ C \subseteq possible /\ (tracked # {} => C = tracked)
    BY <1>4
  <2>2. n = Ahead!First(C)
    OBVIOUS
  <2> HIDE DEF C, tracked, possible, n
  <2>3. Ahead!First(C) \in C
    BY <2>1, FirstIs
  <2> QED
    BY <2>1, <2>2, <2>3
<1>7. Revised
  <2>1. CASE rows' = rs
    <3>1. \A i \in Ahead!Rids : RowMove(i)
      BY <2>1, StartedMoves
    <3> QED
      BY <2>1, <3>1, StartedAre, RevisedMap
  <2>2. CASE possible # {} /\ rows' = [rs EXCEPT ![n] = row]
    <3>1. n \in Ahead!Rids /\ n \in Ahead!Live /\ rs[n] \in Ahead!Rows
      <4>1. n \in Ahead!Rids /\ n \in Ahead!Live
        BY <1>6, <2>2
      <4> HIDE DEF n, Ahead!Rows
      <4> QED
        BY <4>1, StartedAre
    <3> HIDE DEF n, tracked, possible, rs
    <3>2. /\ row \in Ahead!Rows /\ row.slot = rs[n].slot /\ row.request = rs[n].request /\ row.sig = rs[n].sig
          /\ row.why = rs[n].why /\ row.engine = life
          /\ row.status = IF rs[n].status = "started" \/ n \in tracked THEN rs[n].status ELSE "queued"
      <4>1. life \in 0..MaxOutages + 1
        BY DEF LookaheadBounds, LookaheadTypes, QueueType
      <4> QED
        BY <3>1, <4>1 DEF Ahead!Rows
    <3> HIDE DEF row
    <3>3. rows' \in [Ahead!Rids -> Ahead!Rows] /\ rows'[n] = row /\ \A i \in Ahead!Rids : i # n => rows'[i] = rs[i]
      <4>1. rs \in [Ahead!Rids -> Ahead!Rows]
        BY StartedAre DEF rs
      <4> HIDE DEF Ahead!Rows
      <4> QED
        BY <2>2, <3>1, <3>2, <4>1
    <3>4. RowMove(n)
      <4>1. ~Away(n) /\ life # 0
        BY <3>1 DEF AttemptsInv, AwayInv, LookaheadTypes, QueueType
      <4>2. /\ rs[n].slot = rows[n].slot /\ rs[n].request = rows[n].request /\ rs[n].sig = rows[n].sig
            /\ rs[n].engine = rows[n].engine /\ rs[n].why = rows[n].why
            /\ rs[n].status \in {"started", rows[n].status}
        BY <3>1, StartedAre DEF rs
      <4>3. n \in tracked => rs[n].engine = life
        BY DEF tracked
      <4>4. rows[n].status = "selected" => rows[n].engine = 0
        BY <3>1 DEF AttemptsInv, IdentityInv
      <4>5. rows'[n].status = "selected" => FALSE
        BY <3>2, <3>3, <4>1, <4>2, <4>3, <4>4
      <4>6. rows'[n].status = "failed" /\ rows'[n].why \in Ahead!Safe => FALSE
        BY <3>2, <3>3, <4>1, <4>2 DEF Away
      <4> QED
        BY <3>1, <3>2, <3>3, <4>1, <4>2, <4>5, <4>6 DEF RowMove
    <3>5. \A i \in Ahead!Rids : RowMove(i)
      <4> TAKE i \in Ahead!Rids
      <4>1. i # n => rows'[i] = Ahead!StartedRows[i]
        BY <3>3 DEF rs
      <4> QED
        BY <3>4, <4>1, StartedMoves
    <3> QED
      BY <3>3, <3>5, RevisedMap
  <2> QED
    BY <1>2, <2>1, <2>2
<1>8. Ahead!Rids' = Ahead!Rids /\ AwayInv' /\ IdentityInv' /\ OneAttempt'
  BY <1>3, <1>7, Moved
<1>9. Waiting'
  <2>1. \A i \in Ahead!Rids : rows[i].request \in ListenerRequest \ {Ahead!None} /\ requests'[rows[i].request] \in {"none", "pending"}
          => requests[rows[i].request] \in {"none", "pending"}
    BY <1>1, ConfirmedAre
  <2> QED
    BY <1>3, <1>7, <2>1, WaitsOn
<1>10. PushInv' /\ TodoInv'
  BY <1>1, <1>2, <1>3, <1>7, TodoStays DEF PushInv, InRefresh
<1>11. SelectionsType' /\ Len(rows') = Len(rows)
  BY <1>1, <1>7, TypeRevised DEF Revised
<1>12. cursor' \in 0..MaxRows /\ cursor' <= Len(rows')
  <2>1. rs[first].slot < first /\ rs[first].slot \in Nat /\ first \in Nat /\ first <= Len(rows) /\ Len(rows) <= MaxRows
    <3>1. rs[first].slot = rows[first].slot /\ rows[first] \in Ahead!Rows /\ rows[first].slot < first
      <4> HIDE DEF first, Ahead!Rows
      <4> QED
        BY <1>5, StartedAre, RowFields DEF LookaheadTypes, SelectionsType
    <3>2. rows[first].slot \in Nat
      <4> HIDE DEF first
      <4> QED
        BY <3>1 DEF Ahead!Rows
    <3>3. Ahead!Rids = 1..Len(rows) /\ Len(rows) \in Nat /\ Len(rows) <= MaxRows
      BY RowFields DEF LookaheadTypes, SelectionsType
    <3> HIDE DEF first, rs
    <3> QED
      BY <1>5, <3>1, <3>2, <3>3
  <2>2. cursor \in 0..MaxRows /\ cursor <= Len(rows)
    BY DEF LookaheadTypes, ProgrammeType
  <2>3. cursor' = cursor \/ cursor' = rs[first].slot
    BY <1>2
  <2> HIDE DEF rs, first
  <2> QED
    BY <1>11, <2>1, <2>2, <2>3 DEF LookaheadBounds
<1>13. ProgrammeType'
  BY <1>1, <1>12, ConfirmedAre DEF LookaheadTypes, ProgrammeType
<1>14. QueueType'
  BY <1>1, <1>3, <1>8 DEF LookaheadTypes, QueueType, EngineMove
<1>15. RefresherType'
  BY <1>1, <1>2, <1>8 DEF LookaheadTypes, RefresherType, LookaheadPlaces
<1> QED
  BY <1>7, <1>8, <1>9, <1>10, <1>11, <1>13, <1>14, <1>15 DEF LookaheadTypes, AttemptsInv

LEMMA SettleKeeps ==
  ASSUME LookaheadBounds, LookaheadTypes, AttemptsInv, Ahead!Settle
  PROVE  LookaheadTypes' /\ AttemptsInv' /\ Revised
<1> DEFINE rs == Ahead!StartedRows
           gone == {i \in todo : \/ rs[i].why = "refresh" /\ rs[i].status # "started" /\ (rs[i].engine # life \/ i \notin Ahead!Live)
                                 \/ rs[i].status = "selected" /\ rs[i].engine = 0}
           row(i) == IF i \in gone THEN [rs[i] EXCEPT !.status = "failed", !.why = "changed"] ELSE rs[i]
<1>1. /\ lookahead_pc = "settle" /\ lookahead_pc' = "fill" /\ UNCHANGED <<fifo, air, life, programming, back, lookahead_faults>>
      /\ unread' = <<>> /\ requests' = Ahead!Confirmed(rows) /\ rewound' = FALSE /\ todo' = {} /\ ids' = {}
      /\ back = "idle"
  BY DEF Ahead!Settle, Ahead!Work, Ahead!web, LookaheadTypes, RefresherType
<1>2. /\ rows' = [i \in Ahead!Rids |-> row(i)]
      /\ cursor' = cursor \/ (gone # {} /\ cursor' = row(Ahead!First(gone)).slot) \/ (gone # {} /\ cursor' = rs[Ahead!First(gone)].slot)
  BY DEF Ahead!Settle, Ahead!RestoreBefore
<1>3. EngineMove /\ Ahead!Live' = Ahead!Live
  BY <1>1, EngineStands DEF EngineStays
<1>4. gone \subseteq Ahead!Rids /\ Ahead!Rids \subseteq Nat
  BY RowFields DEF LookaheadTypes, RefresherType
<1>5. ASSUME NEW i \in Ahead!Rids
      PROVE  /\ rs[i] \in Ahead!Rows /\ row(i) \in Ahead!Rows /\ row(i).slot = rs[i].slot /\ row(i).request = rs[i].request
             /\ row(i).sig = rs[i].sig /\ row(i).engine = rs[i].engine
             /\ i \in gone => row(i).status = "failed" /\ row(i).why = "changed"
             /\ i \notin gone => row(i) = rs[i]
  <2>1. rs[i] \in Ahead!Rows
    <3> HIDE DEF Ahead!Rows
    <3> QED
      BY StartedAre
  <2> HIDE DEF rs, gone
  <2> QED
    BY <2>1 DEF Ahead!Rows, Ahead!Safe
<1>6. rows' \in [Ahead!Rids -> Ahead!Rows] /\ \A i \in Ahead!Rids : rows'[i] = row(i)
  <2> HIDE DEF row, Ahead!Rows
  <2> QED
    BY <1>2, <1>5
<1>7. ASSUME NEW i \in gone PROVE i \notin Ahead!Live /\ ~Away(i) /\ rows[i].slot = rs[i].slot /\ rows[i].request = rs[i].request
                                  /\ rows[i].status # "started" /\ rows[i].sig = rs[i].sig /\ rows[i].engine = rs[i].engine
  <2>1. i \in Ahead!Rids /\ i \in todo
    BY <1>4
  <2>2. i \notin Ahead!Range(unread) /\ rs[i] = rows[i]
    BY <2>1, StartedAre
  <2>3. CASE rows[i].why = "refresh" /\ rows[i].status # "started" /\ (rows[i].engine # life \/ i \notin Ahead!Live)
    <3>1. ~Away(i)
      BY <2>3 DEF Away, Ahead!Safe
    <3>2. i \in Ahead!Live => rows[i].engine = 0
      BY <2>1, <2>3 DEF AttemptsInv, IdentityInv
    <3> QED
      BY <1>1, <2>1, <2>2, <3>1, <3>2 DEF AttemptsInv, TodoInv, InRefresh
  <2>4. CASE rows[i].status = "selected" /\ rows[i].engine = 0
    <3>1. ~Away(i)
      BY <2>4 DEF Away
    <3> QED
      BY <1>1, <2>1, <2>2, <2>4, <3>1 DEF AttemptsInv, TodoInv, InRefresh
  <2> QED
    BY <2>2, <2>3, <2>4
<1> HIDE DEF gone, row
<1>8. Revised
  <2>1. ASSUME NEW i \in Ahead!Rids PROVE RowMove(i)
    <3>1. CASE i \in gone
      <4>1. Ahead!Range(unread') = {}
        BY <1>1 DEF Ahead!Range
      <4> QED
        BY <1>3, <1>5, <1>6, <1>7, <3>1, <4>1 DEF RowMove, Ahead!Safe
    <3>2. CASE i \notin gone
      BY <1>5, <1>6, <3>2, StartedMoves
    <3> QED
      BY <3>1, <3>2
  <2> QED
    BY <1>6, <2>1, RevisedMap
<1>9. Ahead!Rids' = Ahead!Rids /\ AwayInv' /\ IdentityInv' /\ OneAttempt'
  BY <1>3, <1>8, Moved
<1>10. Waiting'
  <2>1. \A i \in Ahead!Rids : rows[i].request \in ListenerRequest \ {Ahead!None} /\ requests'[rows[i].request] \in {"none", "pending"}
          => requests[rows[i].request] \in {"none", "pending"}
    BY <1>1, ConfirmedAre
  <2> QED
    BY <1>3, <1>8, <2>1, WaitsOn
<1>11. PushInv' /\ TodoInv'
  BY <1>1 DEF PushInv, TodoInv, InRefresh
<1>12. SelectionsType' /\ Len(rows') = Len(rows)
  BY <1>1, <1>8, TypeRevised DEF Revised
<1>13. cursor' \in 0..MaxRows /\ cursor' <= Len(rows')
  <2>1. ASSUME gone # {} PROVE cursor' = cursor \/ (cursor' \in Nat /\ cursor' < Len(rows))
    <3>1. Ahead!First(gone) \in gone
      BY <1>4, <2>1, FirstIs
    <3> DEFINE f == Ahead!First(gone)
    <3>2. f \in Ahead!Rids /\ f \in gone
      BY <1>4, <3>1
    <3>3. cursor' = cursor \/ cursor' = rows[f].slot
      BY <1>2, <1>5, <1>7, <3>2
    <3> HIDE DEF f, Ahead!Rows
    <3>4. rows[f] \in Ahead!Rows /\ rows[f].slot < f
      BY <3>2, RowFields DEF LookaheadTypes, SelectionsType
    <3>5. rows[f].slot \in Nat
      BY <3>4 DEF Ahead!Rows
    <3>6. Ahead!Rids = 1..Len(rows) /\ Len(rows) \in Nat
      BY RowFields DEF LookaheadTypes
    <3> QED
      BY <3>2, <3>3, <3>4, <3>5, <3>6
  <2>2. cursor \in 0..MaxRows /\ cursor <= Len(rows) /\ Len(rows) <= MaxRows /\ Len(rows) \in Nat
    BY RowFields DEF LookaheadTypes, ProgrammeType, SelectionsType
  <2>3. cursor' = cursor \/ (cursor' \in Nat /\ cursor' < Len(rows))
    BY <1>2, <2>1
  <2> QED
    BY <1>12, <2>2, <2>3 DEF LookaheadBounds
<1>14. ProgrammeType'
  BY <1>1, <1>13, ConfirmedAre DEF LookaheadTypes, ProgrammeType
<1>15. QueueType'
  BY <1>1, <1>3, <1>9 DEF LookaheadTypes, QueueType, EngineMove
<1>16. RefresherType'
  BY <1>1, <1>9 DEF LookaheadTypes, RefresherType, LookaheadPlaces
<1> QED
  BY <1>8, <1>9, <1>10, <1>11, <1>12, <1>14, <1>15, <1>16 DEF LookaheadTypes, AttemptsInv

LEMMA FillRows ==
  ASSUME LookaheadBounds, LookaheadTypes, AttemptsInv, NEW slow \in SUBSET Ahead!Waits, NEW ms, NEW i \in Ahead!Rids
  PROVE  LET a == rows[i]
             b == Ahead!StartedRows[i]
             c == Ahead!Vanished(Ahead!StartedRows)[i]
             d == Ahead!Observed(Ahead!Vanished(Ahead!StartedRows), slow)[i]
             e == Ahead!Retracted(Ahead!Observed(Ahead!Vanished(Ahead!StartedRows), slow), ms)[i]
         IN /\ e \in Ahead!Rows /\ e.slot = a.slot /\ e.request = a.request /\ e.sig \in {a.sig, 0}
            /\ e.engine \in {a.engine, life}
            /\ d.request = a.request /\ (e.engine # a.engine => i \in Ahead!Live)
            /\ e.status = d.status /\ (d.status = "failed" => e.why = d.why)
            /\ Away(i) => e = a
            /\ e.status = "selected" => a.status = "selected" /\ e.engine = a.engine
            /\ e.status = "queued" => e.engine # 0
            /\ e.status = "failed" /\ e.why = "refresh" => e.engine # 0
            /\ e.status = "failed" /\ e.why \in Ahead!Safe => Away(i) \/ i \notin Ahead!Live
            /\ a.status = "started" => e.status = "started"
            /\ e.status = "queued" => a.status = "queued" \/ i \in Ahead!Live
            /\ e.status = "failed" /\ e.why \notin Ahead!Safe =>
                 a.status = "failed" \/ (a.status = "queued" /\ (a.engine # life \/ i \notin Ahead!Live))
            /\ e.why = "refresh" => a.why = "refresh" \/ e.sig = 0
            /\ a.why = "refresh" /\ e.status = "queued" => e.why = "refresh"
<1> DEFINE a == rows[i]
           b == Ahead!StartedRows[i]
           c == Ahead!Vanished(Ahead!StartedRows)[i]
           seen == Ahead!Observed(Ahead!Vanished(Ahead!StartedRows), slow)
           d == seen[i]
           e == Ahead!Retracted(seen, ms)[i]
<1>1. /\ a \in Ahead!Rows /\ b \in Ahead!Rows /\ life \in 0..MaxOutages + 1 /\ life # 0 /\ DOMAIN Ahead!StartedRows = Ahead!Rids
      /\ b.slot = a.slot /\ b.request = a.request /\ b.sig = a.sig /\ b.engine = a.engine /\ b.why = a.why
      /\ b.status \in {"started", a.status} /\ (b.status = "started" \/ b = a)
  <2>1. a \in Ahead!Rows /\ b \in Ahead!Rows /\ DOMAIN Ahead!StartedRows = Ahead!Rids
    <3> HIDE DEF Ahead!Rows
    <3> QED
      BY RowFields, StartedAre DEF LookaheadTypes
  <2>2. life \in 0..MaxOutages + 1 /\ life # 0
    BY DEF LookaheadBounds, LookaheadTypes, QueueType
  <2> HIDE DEF Ahead!Rows
  <2> QED
    BY <2>1, <2>2, StartedAre
<1>2. c = IF b.status = "queued" /\ (b.engine # life \/ i \notin Ahead!Live)
          THEN [b EXCEPT !.status = "failed",
                  !.why = IF b.why = "refresh" THEN b.why ELSE IF b.engine # life THEN "restarted" ELSE "not_started"]
          ELSE b
  <2> HIDE DEF Ahead!Rows
  <2> QED
    BY <1>1 DEF Ahead!Vanished
<1>3. DOMAIN Ahead!Vanished(Ahead!StartedRows) = Ahead!Rids
  BY <1>1 DEF Ahead!Vanished
<1> DEFINE mine == Ahead!OfRequest(Ahead!Vanished(Ahead!StartedRows), i)
<1>4. /\ d = IF mine /\ i \in Ahead!Live THEN [c EXCEPT !.status = "queued", !.engine = life]
             ELSE IF i \in slow THEN [c EXCEPT !.status = "failed", !.why = "not_started"]
             ELSE c
      /\ i \in slow => mine /\ i \notin Ahead!Live /\ c.status \in {"selected", "failed"} /\ c.why \notin Ahead!Safe
  <2> HIDE DEF Ahead!Rows
  <2> QED
    BY <1>3 DEF Ahead!Observed, Ahead!Waits, Ahead!Unseen
<1>5. mine => c.request # Ahead!None /\ c.status # "started"
  BY DEF Ahead!OfRequest
<1>6. DOMAIN seen = Ahead!Rids
  BY <1>3 DEF Ahead!Observed
<1>7. e \in {d, [d EXCEPT !.sig = 0, !.why = "refresh"]} /\ (e # d => d.status \in {"selected", "queued"})
  <2> HIDE DEF Ahead!Rows, seen
  <2> QED
    BY <1>6 DEF Ahead!Retracted
<1>8. \A r \in Ahead!Rows, v \in Ahead!Safe \cup {"refresh"} :
        LET s == [r EXCEPT !.status = "failed", !.why = v]
        IN s \in Ahead!Rows /\ s.status = "failed" /\ s.why = v /\ s.slot = r.slot /\ s.request = r.request /\ s.sig = r.sig
           /\ s.engine = r.engine
  BY DEF Ahead!Rows
<1>9. \A r \in Ahead!Rows :
        LET s == [r EXCEPT !.status = "queued", !.engine = life]
        IN s \in Ahead!Rows /\ s.status = "queued" /\ s.why = r.why /\ s.slot = r.slot /\ s.request = r.request /\ s.sig = r.sig
           /\ s.engine = life
  BY <1>1 DEF Ahead!Rows
<1>10. \A r \in Ahead!Rows :
        LET s == [r EXCEPT !.sig = 0, !.why = "refresh"]
        IN s \in Ahead!Rows /\ s.status = r.status /\ s.why = "refresh" /\ s.slot = r.slot /\ s.request = r.request /\ s.sig = 0
           /\ s.engine = r.engine
  <2>1. 0 \in 0..MaxProgramEdits + 1
    BY DEF LookaheadBounds
  <2> QED
    BY <2>1 DEF Ahead!Rows
<1>11. /\ Away(i) <=> a.status = "failed" /\ a.why \in Ahead!Safe
       /\ Away(i) => i \notin Ahead!Live /\ b = a
       /\ a.status = "selected" => a.engine = 0
       /\ a.status = "queued" => a.engine # 0
       /\ a.status = "failed" /\ a.why = "refresh" => a.engine # 0
       /\ i \in Ahead!Live => a.engine \in {0, life}
  <2>1. Away(i) => i \notin Ahead!Range(unread) /\ i \notin Ahead!Live
    BY DEF AttemptsInv, AwayInv
  <2> HIDE DEF Ahead!Rows
  <2> QED
    BY <2>1, StartedAre DEF Away, AttemptsInv, IdentityInv
<1> HIDE DEF a, b, c, d, e, mine, seen, Ahead!Rows
<1>12. /\ c \in Ahead!Rows /\ c.slot = a.slot /\ c.request = a.request /\ c.sig = a.sig /\ c.engine = a.engine
       /\ c.status = "selected" => a.status = "selected"
       /\ c.status = "queued" => c.engine = life
       /\ c.status = "failed" /\ c.why = "refresh" => c.engine # 0
       /\ c.status = "failed" /\ c.why \in Ahead!Safe => Away(i) \/ i \notin Ahead!Live
       /\ Away(i) => c = a
       /\ a.status = "started" => c.status = "started"
       /\ c.status = "queued" => a.status = "queued" \/ i \in Ahead!Live
       /\ c.status = "failed" /\ c.why \notin Ahead!Safe =>
            a.status = "failed" \/ (a.status = "queued" /\ (a.engine # life \/ i \notin Ahead!Live))
       /\ c.why = "refresh" => a.why = "refresh"
       /\ a.why = "refresh" => c.why = "refresh"
  <2>1. CASE b.status = "queued" /\ (b.engine # life \/ i \notin Ahead!Live)
    <3> DEFINE v == IF b.why = "refresh" THEN b.why ELSE IF b.engine # life THEN "restarted" ELSE "not_started"
    <3>1. v \in Ahead!Safe \cup {"refresh"} /\ c = [b EXCEPT !.status = "failed", !.why = v]
          /\ (v = "refresh" <=> b.why = "refresh")
      BY <1>2, <2>1 DEF Ahead!Safe
    <3> HIDE DEF v
    <3>2. /\ c \in Ahead!Rows /\ c.status = "failed" /\ c.why = v /\ c.slot = b.slot /\ c.request = b.request /\ c.sig = b.sig
          /\ c.engine = b.engine
      BY <1>1, <1>8, <3>1
    <3>3. a.status = "queued" /\ a.engine # 0 /\ ~Away(i)
      BY <1>1, <1>11, <2>1
    <3> QED
      BY <1>1, <1>11, <2>1, <3>1, <3>2, <3>3
  <2>2. CASE ~(b.status = "queued" /\ (b.engine # life \/ i \notin Ahead!Live))
    <3>1. c = b
      BY <1>2, <2>2
    <3> QED
      BY <1>1, <1>11, <2>2, <3>1
  <2> QED
    BY <2>1, <2>2
<1>13. /\ d \in Ahead!Rows /\ d.slot = a.slot /\ d.request = a.request /\ d.sig = a.sig /\ d.engine \in {a.engine, life}
       /\ d.engine # a.engine => i \in Ahead!Live
       /\ d.status = "selected" => a.status = "selected" /\ d.engine = a.engine
       /\ d.status = "queued" => d.engine # 0
       /\ d.status = "failed" /\ d.why = "refresh" => d.engine # 0
       /\ d.status = "failed" /\ d.why \in Ahead!Safe => Away(i) \/ i \notin Ahead!Live
       /\ Away(i) => d = a
       /\ a.status = "started" => d.status = "started"
       /\ d.status = "queued" => a.status = "queued" \/ i \in Ahead!Live
       /\ d.status = "failed" /\ d.why \notin Ahead!Safe =>
            a.status = "failed" \/ (a.status = "queued" /\ (a.engine # life \/ i \notin Ahead!Live))
       /\ d.why = "refresh" => a.why = "refresh"
       /\ a.why = "refresh" /\ d.status = "queued" => d.why = "refresh"
  <2>1. CASE mine /\ i \in Ahead!Live
    <3>1. d = [c EXCEPT !.status = "queued", !.engine = life]
      BY <1>4, <2>1
    <3>2. /\ d \in Ahead!Rows /\ d.status = "queued" /\ d.why = c.why /\ d.slot = c.slot /\ d.request = c.request /\ d.sig = c.sig /\ d.engine = life
      BY <1>9, <1>12, <3>1
    <3> QED
      BY <1>1, <1>5, <1>11, <1>12, <2>1, <3>2
  <2>2. CASE i \in slow
    <3>0. mine /\ i \notin Ahead!Live /\ c.status \in {"selected", "failed"} /\ c.why \notin Ahead!Safe
      BY <1>4, <2>2
    <3>1. d = [c EXCEPT !.status = "failed", !.why = "not_started"] /\ "not_started" \in Ahead!Safe
      BY <1>4, <2>2, <3>0 DEF Ahead!Safe
    <3>2. /\ d \in Ahead!Rows /\ d.status = "failed" /\ d.why = "not_started" /\ d.slot = c.slot /\ d.request = c.request
          /\ d.sig = c.sig /\ d.engine = c.engine
      BY <1>8, <1>12, <3>1
    <3>3. ~Away(i)
      BY <1>11, <1>12, <3>0
    <3> QED
      BY <1>1, <1>5, <1>11, <1>12, <3>0, <3>1, <3>2, <3>3
  <2>3. CASE d = c
    BY <1>1, <1>12, <2>3
  <2> QED
    BY <1>4, <2>1, <2>2, <2>3
<1>14. CASE e = d
  BY <1>13, <1>14 DEF a, d, e, seen
<1>15. CASE e = [d EXCEPT !.sig = 0, !.why = "refresh"] /\ d.status \in {"selected", "queued"}
  <2>1. /\ e \in Ahead!Rows /\ e.status = d.status /\ e.why = "refresh" /\ e.slot = d.slot /\ e.request = d.request /\ e.sig = 0
        /\ e.engine = d.engine
    BY <1>10, <1>13, <1>15
  <2>2. ~Away(i)
    BY <1>11, <1>13, <1>15
  <2>3. /\ e \in Ahead!Rows /\ e.slot = a.slot /\ e.request = a.request /\ e.sig \in {a.sig, 0}
        /\ e.engine \in {a.engine, life}
        /\ d.request = a.request /\ (e.engine # a.engine => i \in Ahead!Live)
        /\ e.status = d.status /\ (d.status = "failed" => e.why = d.why)
        /\ Away(i) => e = a
        /\ e.status = "selected" => a.status = "selected" /\ e.engine = a.engine
        /\ e.status = "queued" => e.engine # 0
        /\ e.status = "failed" /\ e.why = "refresh" => e.engine # 0
        /\ e.status = "failed" /\ e.why \in Ahead!Safe => Away(i) \/ i \notin Ahead!Live
        /\ a.status = "started" => e.status = "started"
        /\ e.status = "queued" => a.status = "queued" \/ i \in Ahead!Live
        /\ e.status = "failed" /\ e.why \notin Ahead!Safe =>
             a.status = "failed" \/ (a.status = "queued" /\ (a.engine # life \/ i \notin Ahead!Live))
        /\ e.why = "refresh" => a.why = "refresh" \/ e.sig = 0
        /\ a.why = "refresh" /\ e.status = "queued" => e.why = "refresh"
    BY <1>13, <1>15, <2>1, <2>2
  <2> QED
    BY <2>3 DEF a, d, e, seen
<1> QED
  BY <1>7, <1>14, <1>15

LEMMA FillKeeps ==
  ASSUME LookaheadBounds, LookaheadTypes, AttemptsInv, Ahead!Fill
  PROVE  LookaheadTypes' /\ AttemptsInv' /\ Revised
<1> PICK slow \in SUBSET Ahead!Waits : Ahead!Looks(slow)
  BY DEF Ahead!Fill
<1> DEFINE qs == Ahead!Confirmed(rows)
           seen == Ahead!Observed(Ahead!Vanished(Ahead!StartedRows), slow)
           ms == Ahead!Maintained(seen, Ahead!Requeued(seen, qs))
<1>1. /\ lookahead_pc = "fill" /\ UNCHANGED <<cursor, fifo, air, life, programming, todo, ids, rewound, lookahead_faults>>
      /\ unread' = <<>> /\ rows' = Ahead!Retracted(seen, ms) /\ requests' = ms
      /\ \/ lookahead_pc' = "idle" /\ back' = "idle"
         \/ lookahead_pc' = "select" /\ back' = back
  BY DEF Ahead!Looks, Ahead!Work, Ahead!web
<1>2. EngineMove /\ Ahead!Live' = Ahead!Live
  BY <1>1, EngineStands DEF EngineStays
<1>3. ASSUME NEW i \in Ahead!Rids
      PROVE  /\ rows'[i] \in Ahead!Rows /\ RowMove(i)
             /\ rows'[i].status = seen[i].status /\ (seen[i].status = "failed" => rows'[i].why = seen[i].why)
  <2> DEFINE r == rows'[i]
  <2>1. /\ r \in Ahead!Rows /\ r.slot = rows[i].slot /\ r.request = rows[i].request /\ r.sig \in {rows[i].sig, 0}
        /\ r.engine \in {rows[i].engine, life}
        /\ r.status = seen[i].status /\ (seen[i].status = "failed" => r.why = seen[i].why)
        /\ Away(i) => r = rows[i]
        /\ r.status = "selected" => rows[i].status = "selected" /\ r.engine = rows[i].engine
        /\ r.status = "queued" => r.engine # 0
        /\ r.status = "failed" /\ r.why = "refresh" => r.engine # 0
        /\ r.status = "failed" /\ r.why \in Ahead!Safe => Away(i) \/ i \notin Ahead!Live
        /\ rows[i].status = "started" => r.status = "started"
        /\ r.status = "queued" => rows[i].status = "queued" \/ i \in Ahead!Live
        /\ r.status = "failed" /\ r.why \notin Ahead!Safe =>
             rows[i].status = "failed" \/ (rows[i].status = "queued" /\ (rows[i].engine # life \/ i \notin Ahead!Live))
        /\ r.why = "refresh" => rows[i].why = "refresh" \/ r.sig = 0
        /\ rows[i].why = "refresh" /\ r.status = "queued" => r.why = "refresh"
    <3> HIDE DEF ms, Ahead!Rows
    <3> QED
      BY <1>1, FillRows
  <2>2. Ahead!Range(unread') = {}
    BY <1>1 DEF Ahead!Range
  <2> HIDE DEF seen, ms, Ahead!Rows
  <2> QED
    BY <1>1, <1>2, <2>1, <2>2 DEF RowMove
<1>4. DOMAIN rows' = Ahead!Rids /\ DOMAIN seen = Ahead!Rids
  <2>1. DOMAIN Ahead!StartedRows = Ahead!Rids
    BY DEF Ahead!StartedRows
  <2>2. DOMAIN seen = Ahead!Rids
    BY <2>1 DEF Ahead!Observed, Ahead!Vanished
  <2> HIDE DEF seen, ms
  <2> QED
    BY <1>1, <2>2 DEF Ahead!Retracted
<1>5. rows' \in [Ahead!Rids -> Ahead!Rows]
  <2>1. rows' = [i \in DOMAIN rows' |-> rows'[i]]
    <3> HIDE DEF seen, ms
    <3> QED
      BY <1>1 DEF Ahead!Retracted
  <2> HIDE DEF Ahead!Rows, seen, ms
  <2> QED
    BY <1>3, <1>4, <2>1
<1>6. Revised
  BY <1>3, <1>5, RevisedMap
<1>7. Ahead!Rids' = Ahead!Rids /\ AwayInv' /\ IdentityInv' /\ OneAttempt'
  BY <1>2, <1>6, Moved
<1>8. \A r \in ListenerRequest : qs[r] \in {requests[r], "played"}
  BY ConfirmedAre
<1> HIDE DEF qs
<1>9. \A r \in ListenerRequest : Ahead!Requeued(seen, qs)[r] \in {"queued", requests[r], "played"}
  <2> HIDE DEF seen
  <2> QED
    BY <1>8 DEF Ahead!Requeued
<1>10. \A r \in ListenerRequest :
         \/ ms[r] \in {"queued", requests[r], "played"}
         \/ ms[r] = "pending" /\ \A i \in Ahead!Rids : seen[i].request = r => seen[i].status = "failed" /\ seen[i].why \in Ahead!Safe
  <2> DEFINE q == Ahead!Requeued(seen, qs)
  <2> HIDE DEF seen, q
  <2>1. \A r \in ListenerRequest : q[r] \in {"queued", requests[r], "played"}
    BY <1>9 DEF q
  <2>2. ms = Ahead!Maintained(seen, q)
    BY DEF q
  <2> HIDE DEF ms
  <2> QED
    BY <1>4, <2>1, <2>2 DEF Ahead!Maintained
<1>11. requests' \in [ListenerRequest -> Ahead!Outstanding \cup Ahead!Terminal \cup {"none"}]
  <2>1. ms = [r \in ListenerRequest |-> ms[r]]
    BY DEF Ahead!Maintained
  <2>2. \A r \in ListenerRequest : ms[r] \in Ahead!Outstanding \cup Ahead!Terminal \cup {"none"}
    <3> HIDE DEF ms, seen
    <3> QED
      BY <1>10 DEF LookaheadTypes, ProgrammeType, Ahead!Outstanding, Ahead!Terminal
  <2> HIDE DEF ms
  <2> QED
    BY <1>1, <2>1, <2>2
<1>12. Waiting'
  <2> SUFFICES ASSUME NEW i \in Ahead!Rids, rows[i].request \in ListenerRequest \ {Ahead!None}, requests'[rows[i].request] \in {"none", "pending"}
               PROVE  requests[rows[i].request] \in {"none", "pending"} \/ Away(i)'
    BY <1>2, <1>6, WaitsOn
  <2>1. seen[i].request = rows[i].request
    BY FillRows
  <2> HIDE DEF seen, ms
  <2>2. CASE ms[rows[i].request] \in {"queued", requests[rows[i].request], "played"}
    BY <1>1, <2>2
  <2>3. CASE seen[i].status = "failed" /\ seen[i].why \in Ahead!Safe
    BY <1>3, <2>3 DEF Away
  <2> QED
    BY <1>10, <2>1, <2>2, <2>3
<1> HIDE DEF ms, seen
<1>13. PushInv' /\ TodoInv'
  BY <1>1, <1>2, <1>6, TodoStays DEF PushInv, InRefresh
<1>14. SelectionsType' /\ Len(rows') = Len(rows)
  BY <1>1, <1>6, TypeRevised DEF Revised
<1>15. ProgrammeType'
  BY <1>1, <1>11, <1>14 DEF LookaheadTypes, ProgrammeType
<1>16. QueueType'
  BY <1>1, <1>2, <1>7 DEF LookaheadTypes, QueueType, EngineMove
<1>17. RefresherType'
  BY <1>1, <1>7 DEF LookaheadTypes, RefresherType, LookaheadPlaces
<1> QED
  BY <1>6, <1>7, <1>12, <1>13, <1>14, <1>15, <1>16, <1>17 DEF LookaheadTypes, AttemptsInv

LEMMA LookaheadKeeps ==
  ASSUME LookaheadBounds, LookaheadTypes, AttemptsInv, [Ahead!Next]_Ahead!lookaheadVars
  PROVE  LookaheadTypes' /\ AttemptsInv'
<1>1. CASE Ahead!Engine
  BY <1>1, TakesKeeps, EndsKeeps DEF Ahead!Engine
<1>2. CASE Ahead!Worker
  BY <1>2, BeginKeeps, MarkKeeps, PrefillKeeps, RemoveFutureKeeps, SettleKeeps, FillKeeps, SelectKeeps,
     CancelledKeeps,
     PushKeeps, RecordKeeps DEF Ahead!Worker
<1>3. CASE Ahead!Faults
  BY <1>3, CrashKeeps, EngineRestartsKeeps, PushFailsKeeps DEF Ahead!Faults
<1>4. CASE Ahead!Web
  BY <1>4, WebKeeps
<1>5. CASE UNCHANGED Ahead!lookaheadVars
  <2>1. UNCHANGED <<rows, life, programming, cursor, requests, fifo, air, unread, back, lookahead_pc, todo, ids, rewound, lookahead_faults>>
    BY <1>5 DEF Ahead!lookaheadVars, Ahead!web, Ahead!database, Ahead!engineVars, Ahead!worker, Ahead!refreshing
  <2>2. EngineMove /\ Ahead!Live' = Ahead!Live
    BY <2>1, EngineStands DEF EngineStays
  <2>3. AttemptsInv'
    BY <2>1, <2>2, Stands DEF Waits
  <2>4. SelectionsType' /\ Ahead!Rids' = Ahead!Rids
    BY <2>1, TypeStands DEF LookaheadTypes, ProgrammeType, QueueType, LookaheadBounds
  <2> QED
    BY <2>1, <2>3, <2>4 DEF LookaheadTypes, ProgrammeType, QueueType, RefresherType
<1> QED
  BY <1>1, <1>2, <1>3, <1>4, <1>5 DEF Ahead!Next

LEMMA RequestsOnce == AwayInv /\ OneAttempt => Ahead!RequestPlaysOnce
BY DEF AwayInv, OneAttempt, Ahead!RequestPlaysOnce, Ahead!Aired, Away

----------------------------------------------------------------------------
(* Lookahead: POSITIONS *)

Kept(i) == rows[i].status # "failed"
(* While nothing crashes, what is not failed is where its row says.        *)
CalmStatus ==
  /\ \A i \in Ahead!Rids : rows[i].status = "selected" => lookahead_pc \in {"push", "record"} /\ i = Ahead!New
  /\ \A i \in Ahead!Rids : rows[i].status = "failed" => Away(i)
  /\ \A i \in Ahead!Rids : rows[i].status = "queued" => i \in Ahead!Live \/ (lookahead_pc = "settle" /\ i \in ids)
  /\ lookahead_pc = "record" => Ahead!New \in Ahead!Live
  /\ lookahead_pc = "prefill" => \A i \in todo : Kept(i)
(* A refresh that removes anything has rewound the cursor before.          *)
CalmWorker ==
  /\ auto = TRUE /\ lost = {}
  /\ InRefresh => ids \subseteq todo /\ \A i \in ids : rows[i].status = "queued" => rows[i].why = "refresh"
  /\ lookahead_pc = "settle" /\ ~rewound => ids = {}
  /\ lookahead_pc = "remove" \/ back = "remove" => rewound
  /\ \A i \in todo : rows[i].sig # programming
  /\ \A i \in Ahead!Rids : rows[i].why = "refresh" => rows[i].sig # programming
(* The positions of the current programming rise, up to the cursor.        *)
CalmCursor == \A i \in Ahead!Rids : Kept(i) /\ rows[i].sig = programming => rows[i].slot < cursor
CalmSlots ==
  /\ \A i, j \in Ahead!Rids : i < j /\ Kept(i) /\ Kept(j) /\ rows[i].sig = programming => rows[i].slot < rows[j].slot
  /\ \A i, j \in Ahead!Rids : i # j /\ Kept(i) /\ Kept(j) /\ rows[i].sig = rows[j].sig /\ rows[i].sig # 0
       => rows[i].slot # rows[j].slot
Calm == CalmStatus /\ CalmWorker /\ CalmCursor /\ CalmSlots

LEMMA CalmBegins == Ahead!Init => Calm
<1> SUFFICES ASSUME Ahead!Init PROVE Calm
  OBVIOUS
<1>1. Ahead!Rids = {}
  BY DEF Ahead!Init, Ahead!Rids
<1> QED
  BY <1>1 DEF Ahead!Init, Calm, CalmStatus, CalmWorker, CalmCursor, CalmSlots, InRefresh

LEMMA PositionsDiffer ==
  ASSUME LookaheadTypes, AttemptsInv, Calm
  PROVE  Ahead!SlotPlaysOnce
<1>1. \A i \in Ahead!Rids : Ahead!Aired(i) \/ i \in Ahead!Live => Kept(i)
  BY DEF AttemptsInv, AwayInv, Calm, CalmStatus, CalmWorker, Ahead!Aired, Kept
<1> QED
  BY <1>1 DEF Calm, CalmSlots, Ahead!SlotPlaysOnce

(* What a step of the selections leaves true, whatever the step.           *)
LEMMA CalmMoved ==
  ASSUME LookaheadTypes, AttemptsInv, Calm, Revised, UNCHANGED <<programming, lookahead_faults>>
  PROVE  /\ Ahead!New' = Ahead!New
         /\ \A i \in Ahead!Rids : rows'[i].status = "selected" => rows[i].status = "selected"
         /\ \A i \in Ahead!Rids : rows'[i].status = "failed" => Away(i)'
         /\ \A i \in Ahead!Rids : rows'[i].status = "queued" => rows[i].status = "queued" \/ i \in Ahead!Live \/ lookahead_pc = "record"
         /\ InRefresh => \A i \in ids : rows'[i].status = "queued" => rows'[i].why = "refresh"
         /\ \A i \in todo : rows'[i].sig # programming'
         /\ \A i \in Ahead!Rids : rows'[i].why = "refresh" => rows'[i].sig # programming'
         /\ CalmSlots' /\ (cursor' = cursor => CalmCursor')
<1>1. programming # 0 /\ programming' = programming /\ lookahead_faults' = lookahead_faults /\ todo \subseteq Ahead!Rids
  BY DEF LookaheadTypes, ProgrammeType, RefresherType
<1>2. \A i \in Ahead!Rids : RowMove(i)
  BY DEF Revised
<1>3. Ahead!New' = Ahead!New /\ Ahead!Rids' = Ahead!Rids
  BY SameRids DEF Revised, Ahead!New, LookaheadTypes
<1>4. \A i \in Ahead!Rids : rows'[i].status = "selected" => rows[i].status = "selected"
  BY <1>2 DEF RowMove
<1>5. ASSUME NEW i \in Ahead!Rids, rows'[i].status = "failed" PROVE Away(i)'
  <2>1. RowMove(i)
    BY <1>2
  <2>2. CASE rows[i].status = "failed"
    BY <1>5, <2>1, <2>2 DEF RowMove, Calm, CalmStatus, Away
  <2>3. CASE rows'[i].why \in Ahead!Safe
    BY <1>5, <2>3 DEF Away
  <2>4. CASE lookahead_pc = "fill" /\ rows[i].status = "queued" /\ (rows[i].engine # life \/ i \notin Ahead!Live)
    BY <2>4 DEF AttemptsInv, IdentityInv, Calm, CalmStatus
  <2> QED
    BY <1>1, <1>5, <2>1, <2>2, <2>3, <2>4 DEF RowMove
<1>6. \A i \in Ahead!Rids : rows'[i].status = "queued" => rows[i].status = "queued" \/ i \in Ahead!Live \/ lookahead_pc = "record"
  BY <1>2 DEF RowMove
<1>7. ASSUME InRefresh, NEW i \in ids, rows'[i].status = "queued" PROVE rows'[i].why = "refresh"
  <2>1. i \in todo /\ i \in Ahead!Rids /\ RowMove(i) /\ rows[i] \in Ahead!Rows
    <3> HIDE DEF Ahead!Rows
    <3> QED
      BY <1>1, <1>2, <1>7, RowFields DEF Calm, CalmWorker, LookaheadTypes
  <2>2. rows[i].status # "selected"
    BY <2>1 DEF Calm, CalmStatus, AttemptsInv, PushInv
  <2>3. rows[i].status # "failed"
    BY <1>7, <2>1 DEF Calm, CalmStatus, RowMove
  <2>4. rows[i].status # "started"
    BY <1>7, <2>1 DEF RowMove
  <2>5. rows[i].status = "queued"
    BY <2>1, <2>2, <2>3, <2>4 DEF Ahead!Rows
  <2> QED
    BY <1>7, <2>1, <2>5 DEF RowMove, Calm, CalmWorker
<1>8. \A i \in todo : rows'[i].sig # programming'
  BY <1>1, <1>2 DEF RowMove, Calm, CalmWorker
<1>9. \A i \in Ahead!Rids : rows'[i].why = "refresh" => rows'[i].sig # programming'
  BY <1>1, <1>2, <1>8 DEF RowMove, Calm, CalmWorker
<1>10. CalmSlots' /\ (cursor' = cursor => CalmCursor')
  <2>1. \A i \in Ahead!Rids : Kept(i)' => Kept(i)
    BY <1>2 DEF RowMove, Kept, Calm, CalmStatus
  <2>2. \A i \in Ahead!Rids : rows'[i].slot = rows[i].slot /\ rows'[i].sig \in {rows[i].sig, 0}
    BY <1>2 DEF RowMove
  <2> QED
    BY <1>1, <1>3, <2>1, <2>2 DEF Calm, CalmSlots, CalmCursor
<1> QED
  BY <1>3, <1>4, <1>5, <1>6, <1>7, <1>8, <1>9, <1>10

LEMMA CalmStands ==
  ASSUME LookaheadTypes, AttemptsInv, Calm, Revised,
         UNCHANGED <<lookahead_pc, back, todo, ids, rewound, programming, lookahead_faults, cursor, auto, lost, rows>>,
         \A i \in Ahead!Live : i \in Ahead!Live' \/ rows[i].status = "started"
  PROVE  Calm'
<1>1. Ahead!Rids' = Ahead!Rids
  BY SameRids DEF LookaheadTypes
<1>2. lookahead_pc = "record" => rows[Ahead!New].status = "selected"
  BY DEF AttemptsInv, PushInv
<1>3. Ahead!New' = Ahead!New /\ \A i : Away(i)' = Away(i) /\ Kept(i)' = Kept(i)
  BY DEF Ahead!New, Away, Kept
<1>4. CalmStatus'
  BY <1>1, <1>2, <1>3 DEF Calm, CalmStatus
<1>5. CalmWorker'
  BY <1>1 DEF Calm, CalmWorker, InRefresh
<1> QED
  BY <1>4, <1>5, CalmMoved DEF Calm

LEMMA TakesCalm == ASSUME LookaheadTypes, AttemptsInv, Calm, Ahead!Takes PROVE Calm'
<1>1. /\ fifo # <<>> /\ air = Ahead!None /\ air' = Head(fifo) /\ fifo' = Tail(fifo)
      /\ UNCHANGED <<lookahead_pc, back, todo, ids, rewound, programming, lookahead_faults, cursor, auto, lost, rows>>
  BY DEF Ahead!Takes, Ahead!web, Ahead!database, Ahead!worker, Ahead!refreshing
<1>2. Head(fifo) \in Ahead!Rids /\ Ahead!Range(fifo) = {Head(fifo)} \cup Ahead!Range(Tail(fifo))
  BY <1>1, RangeHead DEF LookaheadTypes, QueueType
<1>3. Ahead!Live \subseteq Ahead!Live'
  <2>1. Ahead!None \notin Ahead!Rids
    BY RowFields DEF LookaheadTypes
  <2> QED
    BY <1>1, <1>2, <2>1 DEF Ahead!Live
<1> QED
  BY <1>1, <1>3, RowsStand, CalmStands

LEMMA EndsCalm == ASSUME LookaheadTypes, AttemptsInv, Calm, Ahead!Ends PROVE Calm'
<1>1. /\ rows[air].status = "started" /\ air' = Ahead!None /\ UNCHANGED fifo
      /\ UNCHANGED <<lookahead_pc, back, todo, ids, rewound, programming, lookahead_faults, cursor, auto, lost, rows>>
  BY DEF Ahead!Ends, Ahead!web, Ahead!database, Ahead!worker, Ahead!refreshing
<1>2. \A i \in Ahead!Live : i \in Ahead!Live' \/ rows[i].status = "started"
  BY <1>1 DEF Ahead!Live
<1> QED
  BY <1>1, <1>2, RowsStand, CalmStands

LEMMA WebCalm == ASSUME LookaheadBounds, LookaheadTypes, AttemptsInv, Calm, Ahead!Web PROVE Calm'
<1>1. /\ UNCHANGED <<lookahead_pc, back, todo, ids, rewound, lookahead_faults, cursor, auto, lost, rows, fifo, air>>
      /\ programming' \in {programming, programming + 1}
  <2>1. CASE Ahead!Edit
    BY <2>1 DEF Ahead!Edit, Ahead!Quiet, Ahead!engineVars, Ahead!worker, Ahead!refreshing
  <2>2. ASSUME NEW r \in ListenerRequest, Ahead!Submit(r) \/ Ahead!Reject(r) PROVE <1>1!:
    BY <2>2 DEF Ahead!Submit, Ahead!Reject, Ahead!Quiet, Ahead!engineVars, Ahead!worker, Ahead!refreshing, Ahead!web
  <2> QED
    BY <2>1, <2>2 DEF Ahead!Web
<1>2. Ahead!Live' = Ahead!Live
  BY <1>1 DEF Ahead!Live
<1>3. CASE programming' = programming
  BY <1>1, <1>2, <1>3, RowsStand, CalmStands
<1>4. CASE programming' = programming + 1
  <2>1. Ahead!Rids' = Ahead!Rids /\ Ahead!New' = Ahead!New /\ \A i : Away(i)' = Away(i) /\ Kept(i)' = Kept(i)
    BY <1>1 DEF Ahead!Rids, Ahead!New, Away, Kept
  <2>2. \A i \in Ahead!Rids : rows[i].sig # programming'
    <3>1. ASSUME NEW i \in Ahead!Rids PROVE rows[i].sig \in Nat /\ rows[i].sig <= programming
      <4>1. rows[i] \in Ahead!Rows /\ rows[i].sig <= programming
        <5> HIDE DEF Ahead!Rows
        <5> QED
          BY RowFields DEF LookaheadTypes, SelectionsType
      <4>2. rows[i].sig \in 0..MaxProgramEdits + 1
        BY <4>1 DEF Ahead!Rows
      <4> QED
        BY <4>1, <4>2 DEF LookaheadBounds
    <3>2. programming \in Nat
      BY DEF LookaheadTypes, ProgrammeType, LookaheadBounds
    <3> QED
      BY <1>4, <3>1, <3>2
  <2>3. CalmStatus'
    BY <1>1, <1>2, <2>1 DEF Calm, CalmStatus
  <2>4. CalmWorker'
    BY <1>1, <2>1, <2>2 DEF Calm, CalmWorker, InRefresh, LookaheadTypes, RefresherType
  <2>5. CalmCursor' /\ CalmSlots'
    BY <1>1, <2>1, <2>2 DEF Calm, CalmCursor, CalmSlots
  <2> QED
    BY <2>3, <2>4, <2>5 DEF Calm
<1> QED
  BY <1>1, <1>3, <1>4

LEMMA RemoveFutureCalm == ASSUME LookaheadTypes, AttemptsInv, Calm, Ahead!RemoveFuture PROVE Calm'
<1>1. /\ UNCHANGED <<back, todo, ids, rewound, programming, lookahead_faults, cursor, auto, lost, rows, air>>
      /\ lookahead_pc = "remove" /\ lookahead_pc' = "settle" /\ fifo' = Ahead!Without(fifo, ids)
  BY DEF Ahead!RemoveFuture, Ahead!Goes, Ahead!Work, Ahead!web, Ahead!database, Ahead!refreshing
<1>2. Ahead!Range(fifo') = Ahead!Range(fifo) \ ids
  BY <1>1, WithoutKeeps DEF LookaheadTypes, QueueType
<1>3. Ahead!Rids' = Ahead!Rids /\ \A i \in Ahead!Live : i \in Ahead!Live' \/ i \in ids
  BY <1>1, <1>2 DEF Ahead!Live, Ahead!Rids
<1>4. CalmCursor' /\ CalmSlots'
  BY <1>1, RowsStand, CalmMoved
<1>5. \A i : Away(i)' = Away(i) /\ Kept(i)' = Kept(i)
  BY <1>1 DEF Away, Kept
<1>6. CalmStatus'
  BY <1>1, <1>3, <1>5 DEF Calm, CalmStatus
<1>7. CalmWorker'
  BY <1>1, <1>3 DEF Calm, CalmWorker, InRefresh
<1> QED
  BY <1>4, <1>6, <1>7 DEF Calm

LEMMA PushCalm == ASSUME LookaheadTypes, AttemptsInv, Calm, Ahead!Push PROVE Calm'
<1>1. /\ UNCHANGED <<back, todo, ids, rewound, programming, lookahead_faults, cursor, auto, lost, rows, air>>
      /\ lookahead_pc = "push" /\ lookahead_pc' = "record" /\ fifo' = Append(fifo, Ahead!New)
  BY DEF Ahead!Push, Ahead!Goes, Ahead!Work, Ahead!web, Ahead!database, Ahead!engineVars, Ahead!refreshing
<1>2. Ahead!Range(fifo') = Ahead!Range(fifo) \cup {Ahead!New}
  BY <1>1, NewIs, RangeAppend DEF LookaheadTypes, QueueType
<1>3. Ahead!Live' = Ahead!Live \cup {Ahead!New} /\ Ahead!Rids' = Ahead!Rids /\ Ahead!New' = Ahead!New
  <2>1. Ahead!New # Ahead!None
    BY <1>1, NewIs, RowFields DEF LookaheadTypes
  <2> QED
    BY <1>1, <1>2, <2>1 DEF Ahead!Live, Ahead!Rids, Ahead!New
<1>4. CalmCursor' /\ CalmSlots'
  BY <1>1, RowsStand, CalmMoved
<1>5. \A i : Away(i)' = Away(i) /\ Kept(i)' = Kept(i)
  BY <1>1 DEF Away, Kept
<1>6. CalmStatus'
  BY <1>1, <1>3, <1>5 DEF Calm, CalmStatus
<1>7. CalmWorker'
  BY <1>1, <1>3 DEF Calm, CalmWorker, InRefresh
<1> QED
  BY <1>4, <1>6, <1>7 DEF Calm

(* The steps that change the status of selections and leave the cursor.    *)
LEMMA CalmRevised ==
  ASSUME LookaheadTypes, AttemptsInv, Calm, Revised, UNCHANGED <<programming, lookahead_faults, lost>>, Ahead!Live' = Ahead!Live, auto' = TRUE, CalmCursor',
         \A i \in Ahead!Rids : rows'[i].status # "selected",
         \A i \in Ahead!Rids : rows'[i].status = "queued" => i \in Ahead!Live,
         lookahead_pc' \notin {"push", "record"}, lookahead_pc' = "prefill" => \A i \in todo' : Kept(i)',
         \A i \in todo' : rows'[i].sig # programming',
         InRefresh' => ids' \subseteq todo' /\ \A i \in ids' : rows'[i].status = "queued" => rows'[i].why = "refresh",
         lookahead_pc' = "settle" /\ ~rewound' => ids' = {}, lookahead_pc' = "remove" \/ back' = "remove" => rewound'
  PROVE  Calm'
<1>1. Ahead!Rids' = Ahead!Rids
  BY SameRids DEF LookaheadTypes
<1>2. CalmStatus'
  BY <1>1, CalmMoved DEF CalmStatus
<1>3. CalmWorker'
  BY <1>1, CalmMoved DEF CalmWorker, Calm
<1> QED
  BY <1>2, <1>3, CalmMoved DEF Calm

LEMMA NewRevised ==
  ASSUME LookaheadTypes, AttemptsInv, Calm, Revised, UNCHANGED <<programming, lookahead_faults, cursor, lost, auto, back, todo, ids, rewound>>,
         Ahead!Live' = Ahead!Live, lookahead_pc \in {"push", "record"}, lookahead_pc' = "select",
         rows'[Ahead!New].status \in {"queued", "failed"}, rows'[Ahead!New].status = "queued" => Ahead!New \in Ahead!Live,
         \A i \in Ahead!Rids : i # Ahead!New => rows'[i] = rows[i]
  PROVE  Calm'
<1>1. \A i \in Ahead!Rids : rows'[i].status # "selected"
  BY DEF Calm, CalmStatus
<1>2. \A i \in Ahead!Rids : rows'[i].status = "queued" => i \in Ahead!Live
  BY DEF Calm, CalmStatus
<1>3. InRefresh' => InRefresh
  BY DEF InRefresh
<1>4. InRefresh => ids \subseteq todo /\ \A i \in ids : rows'[i].status = "queued" => rows'[i].why = "refresh"
  BY CalmMoved DEF Calm, CalmWorker
<1> QED
  BY <1>1, <1>2, <1>3, <1>4, CalmMoved, CalmRevised DEF Calm, CalmWorker

LEMMA CancelledCalm == ASSUME LookaheadBounds, LookaheadTypes, AttemptsInv, Calm, Revised, Ahead!Cancelled PROVE Calm'
<1>1. /\ UNCHANGED <<programming, cursor, fifo, air, back, auto, todo, ids, rewound, lookahead_faults, lost>>
      /\ lookahead_pc = "push" /\ lookahead_pc' = "select"
      /\ rows' = [rows EXCEPT ![Ahead!New] = [rows[Ahead!New] EXCEPT !.status = "failed", !.why = "cancelled"]]
  BY DEF Ahead!Cancelled, Ahead!Failed, Ahead!Goes, Ahead!Work, Ahead!web, Ahead!engineVars, Ahead!refreshing
<1>2. Ahead!Live' = Ahead!Live
  BY <1>1 DEF Ahead!Live
<1>3. rows'[Ahead!New].status = "failed" /\ \A i \in Ahead!Rids : i # Ahead!New => rows'[i] = rows[i]
  <2>1. DOMAIN rows = Ahead!Rids /\ Ahead!New \in Ahead!Rids /\ "status" \in DOMAIN rows[Ahead!New]
    BY <1>1, NewIs DEF Ahead!Rids, Ahead!Rows
  <2> QED
    BY <1>1, <2>1
<1> QED
  BY <1>1, <1>2, <1>3, NewRevised

LEMMA RecordCalm == ASSUME LookaheadBounds, LookaheadTypes, AttemptsInv, Calm, Revised, Ahead!Record PROVE Calm'
<1>1. /\ UNCHANGED <<programming, cursor, fifo, air, back, auto, todo, ids, rewound, lookahead_faults, lost>>
      /\ lookahead_pc = "record" /\ lookahead_pc' = "select"
      /\ rows' = [rows EXCEPT ![Ahead!New] = [rows[Ahead!New] EXCEPT !.status = "queued", !.engine = life]]
  BY DEF Ahead!Record, Ahead!Goes, Ahead!Work, Ahead!web, Ahead!engineVars, Ahead!refreshing
<1>2. Ahead!Live' = Ahead!Live /\ Ahead!New \in Ahead!Live
  BY <1>1 DEF Ahead!Live, Calm, CalmStatus
<1>3. rows'[Ahead!New].status = "queued" /\ \A i \in Ahead!Rids : i # Ahead!New => rows'[i] = rows[i]
  <2>1. DOMAIN rows = Ahead!Rids /\ Ahead!New \in Ahead!Rids /\ "status" \in DOMAIN rows[Ahead!New]
    BY <1>1, NewIs DEF Ahead!Rids, Ahead!Rows
  <2> QED
    BY <1>1, <2>1
<1> QED
  BY <1>1, <1>2, <1>3, NewRevised

LEMMA FillCalm == ASSUME LookaheadBounds, LookaheadTypes, AttemptsInv, Calm, Revised, Ahead!Fill PROVE Calm'
<1>1. /\ lookahead_pc = "fill" /\ lookahead_pc' = "select" /\ back' = back /\ auto' = TRUE
      /\ UNCHANGED <<cursor, fifo, air, lost, programming, todo, ids, rewound, lookahead_faults>>
  BY DEF Ahead!Fill, Ahead!Looks, Ahead!Work, Ahead!web, Calm, CalmWorker
<1>2. Ahead!Live' = Ahead!Live /\ (InRefresh' => InRefresh)
  BY <1>1 DEF Ahead!Live, InRefresh
<1>3. \A i \in Ahead!Rids : rows[i].status # "selected" /\ (rows[i].status = "queued" => i \in Ahead!Live)
  BY <1>1 DEF Calm, CalmStatus
<1>4. \A i \in Ahead!Rids : rows'[i].status # "selected" /\ (rows'[i].status = "queued" => i \in Ahead!Live)
  BY <1>1, <1>3, CalmMoved
<1> QED
  BY <1>1, <1>2, <1>4, CalmMoved, CalmRevised DEF Calm, CalmWorker

LEMMA SelectCalm == ASSUME LookaheadBounds, LookaheadTypes, AttemptsInv, Calm, Ahead!Select PROVE Calm'
<1>1. /\ UNCHANGED <<life, programming, fifo, air, auto, todo, ids, rewound, lookahead_faults, lost>> /\ lookahead_pc = "select"
  BY DEF Ahead!Select, Ahead!Work, Ahead!web, Ahead!engineVars, Ahead!refreshing
<1>2. Ahead!Live' = Ahead!Live
  BY <1>1 DEF Ahead!Live
<1>3. CASE Ahead!Finish /\ UNCHANGED Ahead!database
  <2>1. UNCHANGED <<rows, cursor>> /\ lookahead_pc' = back /\ back' = "idle" /\ back \in {"idle", "remove"}
    BY <1>3 DEF Ahead!Finish, Ahead!database, LookaheadTypes, RefresherType
  <2>2. Revised
    BY <2>1, RowsStand
  <2>3. \A i \in Ahead!Rids : rows[i].status # "selected" /\ (rows[i].status = "queued" => i \in Ahead!Live)
    BY <1>1 DEF Calm, CalmStatus
  <2>4. InRefresh' => InRefresh
    BY <2>1 DEF InRefresh
  <2> QED
    BY <1>1, <1>2, <2>1, <2>2, <2>3, <2>4, CalmMoved, CalmRevised DEF Calm, CalmWorker
<1>4. ASSUME NEW r \in {Ahead!None} \cup ListenerRequest,
             rows' = Append(rows, [status |-> "selected", why |-> "", sig |-> programming,
                                   slot |-> cursor, engine |-> 0, request |-> r]),
             cursor' = cursor + 1, lookahead_pc' = "push", UNCHANGED back
      PROVE  Calm'
  <2>0. PICK n : n = Len(rows) + 1
    OBVIOUS
  <2> DEFINE row == [status |-> "selected", why |-> "", sig |-> programming,
                     slot |-> cursor, engine |-> 0, request |-> r]
  <2>1. /\ row \in Ahead!Rows /\ row.status = "selected" /\ row.sig = programming /\ row.slot = cursor /\ row.why = ""
    <3>1. programming \in 0..MaxProgramEdits + 1 /\ cursor \in Nat /\ 0 \in 0..MaxOutages + 1
      BY DEF LookaheadBounds, LookaheadTypes, ProgrammeType
    <3> QED
      BY <3>1 DEF Ahead!Rows
  <2>2. rows \in Seq(Ahead!Rows) /\ Len(rows) \in Nat /\ Ahead!Rids = 1..Len(rows)
    BY RowFields DEF LookaheadTypes, SelectionsType
  <2>3. rows' = Append(rows, row)
    BY <1>4
  <2> HIDE DEF row, Ahead!Rows
  <2>4. /\ rows' \in Seq(Ahead!Rows) /\ Len(rows') = n /\ rows'[n] = row
        /\ \A i \in 1..Len(rows) : rows'[i] = rows[i]
    <3>1. /\ Append(rows, row) \in Seq(Ahead!Rows) /\ Len(Append(rows, row)) = Len(rows) + 1
          /\ Append(rows, row)[Len(rows) + 1] = row
          /\ \A i \in 1..Len(rows) : Append(rows, row)[i] = rows[i]
      <4>1. row \in Ahead!Rows /\ rows \in Seq(Ahead!Rows)
        BY <2>1, <2>2
      <4> QED
        BY <4>1, RangeAppend
    <3> QED
      BY <2>0, <2>3, <3>1
  <2>5. Ahead!Rids' = Ahead!Rids \cup {n} /\ Ahead!New' = n /\ n \notin Ahead!Rids /\ n \in Nat
    <3>1. Ahead!Rids' = 1..n
      BY <2>4 DEF Ahead!Rids
    <3>2. n \in Nat /\ n \notin Ahead!Rids /\ 1..n = Ahead!Rids \cup {n}
      BY <2>0, <2>2
    <3>3. Ahead!New' = n
      BY <2>4 DEF Ahead!New
    <3> QED
      BY <3>1, <3>2, <3>3
  <2>6. \A i \in Ahead!Rids : rows'[i] = rows[i]
    BY <2>2, <2>4
  <2>7. /\ rows'[n].status = "selected" /\ rows'[n].sig = programming /\ rows'[n].slot = cursor /\ rows'[n].why = ""
    BY <2>1, <2>4
  <2>8. todo \subseteq Ahead!Rids /\ programming' = programming
    BY <1>1 DEF LookaheadTypes, RefresherType
  <2>9. CalmStatus'
    <3>1. \A i \in Ahead!Rids : rows[i].status # "selected" /\ (rows[i].status = "queued" => i \in Ahead!Live)
                          /\ (rows[i].status = "failed" => Away(i))
      BY <1>1 DEF Calm, CalmStatus
    <3>2. \A i \in Ahead!Rids : Away(i) => Away(i)'
      BY <2>6 DEF Away
    <3> QED
      BY <1>2, <1>4, <2>5, <2>6, <2>7, <3>1, <3>2 DEF CalmStatus
  <2>10. CalmWorker'
    <3>1. InRefresh' => InRefresh
      BY <1>4 DEF InRefresh
    <3> QED
      BY <1>1, <1>4, <2>5, <2>6, <2>7, <2>8, <3>1 DEF Calm, CalmWorker
  <2>11. CalmCursor' /\ CalmSlots'
    <3>1. \A i \in Ahead!Rids : rows[i].slot \in Nat
      <4>1. \A i \in Ahead!Rids : rows[i] \in Ahead!Rows
        BY RowFields DEF LookaheadTypes
      <4> QED
        BY <4>1 DEF Ahead!Rows
    <3>2. cursor \in Nat /\ cursor' = cursor + 1
      <4>1. cursor \in Nat
        BY DEF LookaheadBounds, LookaheadTypes, ProgrammeType
      <4> QED
        BY <1>4, <4>1, Zenon
    <3>3. \A i \in Ahead!Rids : Kept(i)' => Kept(i)
      BY <2>6 DEF Kept
    <3>4. ASSUME NEW i \in Ahead!Rids', Kept(i)', rows'[i].sig = programming' PROVE rows'[i].slot < cursor'
      <4>1. CASE i = n
        <5>1. rows'[i].slot = cursor
          BY <2>7, <4>1
        <5> QED
          BY <3>2, <5>1
      <4>2. CASE i \in Ahead!Rids
        <5>1. rows[i].slot < cursor
          BY <2>6, <2>8, <3>3, <3>4, <4>2 DEF Calm, CalmCursor, CalmSlots
        <5>2. rows'[i].slot = rows[i].slot /\ rows[i].slot \in Nat
          BY <2>6, <3>1, <4>2
        <5> QED
          BY <3>2, <5>1, <5>2
      <4> QED
        BY <2>5, <4>1, <4>2
    <3>5. ASSUME NEW i \in Ahead!Rids', NEW j \in Ahead!Rids', i < j, Kept(i)', Kept(j)', rows'[i].sig = programming'
          PROVE  rows'[i].slot < rows'[j].slot
      <4>1. CASE j = n
        <5>1. i \in Ahead!Rids
          BY <2>5, <3>5, <4>1
        <5>2. rows[i].slot < cursor
          BY <2>6, <2>8, <3>3, <3>5, <5>1 DEF Calm, CalmCursor, CalmSlots
        <5> QED
          BY <2>6, <2>7, <4>1, <5>1, <5>2
      <4>2. CASE j \in Ahead!Rids
        <5>1. i \in Ahead!Rids
          BY <2>0, <2>2, <2>5, <3>5, <4>2
        <5> QED
          BY <2>6, <2>8, <3>3, <3>5, <4>2, <5>1 DEF Calm, CalmCursor, CalmSlots
      <4> QED
        BY <2>5, <4>1, <4>2
    <3>6. ASSUME NEW i \in Ahead!Rids', NEW j \in Ahead!Rids', i # j, Kept(i)', Kept(j)', rows'[i].sig = rows'[j].sig, rows'[i].sig # 0
          PROVE  rows'[i].slot # rows'[j].slot
      <4>1. CASE i \in Ahead!Rids /\ j \in Ahead!Rids
        BY <2>6, <3>3, <3>6, <4>1 DEF Calm, CalmCursor, CalmSlots
      <4>2. CASE i \in Ahead!Rids /\ j = n
        <5>1. rows[i].slot < cursor
          BY <2>6, <2>7, <3>3, <3>6, <4>2 DEF Calm, CalmCursor, CalmSlots
        <5>2. rows'[i].slot = rows[i].slot /\ rows[i].slot \in Nat /\ rows'[j].slot = cursor
          BY <2>6, <2>7, <3>1, <4>2
        <5> QED
          BY <3>2, <5>1, <5>2
      <4>3. CASE j \in Ahead!Rids /\ i = n
        <5>1. rows[j].slot < cursor
          BY <2>6, <2>7, <3>3, <3>6, <4>3 DEF Calm, CalmCursor, CalmSlots
        <5>2. rows'[j].slot = rows[j].slot /\ rows[j].slot \in Nat /\ rows'[i].slot = cursor
          BY <2>6, <2>7, <3>1, <4>3
        <5> QED
          BY <3>2, <5>1, <5>2
      <4> QED
        BY <2>5, <3>6, <4>1, <4>2, <4>3
    <3> QED
      BY <3>4, <3>5, <3>6 DEF CalmCursor, CalmSlots
  <2> QED
    BY <2>9, <2>10, <2>11 DEF Calm
<1> QED
  BY <1>3, <1>4 DEF Ahead!Select

LEMMA BeginCalm ==
  ASSUME LookaheadBounds, Refilled = {TRUE}, LookaheadTypes, AttemptsInv, Calm, Revised, Ahead!Begin
  PROVE  Calm'
<1>1. /\ lookahead_pc = "idle" /\ back' = "idle" /\ auto' = TRUE /\ lookahead_pc' \in {"fill", "mark"}
      /\ UNCHANGED <<cursor, fifo, air, lost, programming, ids, rewound, lookahead_faults>> /\ todo' = Ahead!Obsolete(rows')
  BY DEF Ahead!Begin, Ahead!Work, Ahead!web, LookaheadTypes, RefresherType
<1>2. Ahead!Live' = Ahead!Live /\ ~InRefresh'
  BY <1>1 DEF Ahead!Live, InRefresh
<1>3. \A i \in Ahead!Rids : rows[i].status # "selected" /\ (rows[i].status = "queued" => i \in Ahead!Live)
  BY <1>1 DEF Calm, CalmStatus
<1>4. \A i \in Ahead!Rids : rows'[i].status # "selected" /\ (rows'[i].status = "queued" => i \in Ahead!Live)
  BY <1>1, <1>3, CalmMoved
<1>5. \A i \in todo' : rows'[i].sig # programming'
  <2>1. \A i \in todo' : i \in Ahead!Rids /\ (rows'[i].sig # programming' \/ rows'[i].why = "refresh")
    BY <1>1, SameRids DEF Ahead!Obsolete, Ahead!Rids, LookaheadTypes
  <2> QED
    BY <1>1, <2>1, CalmMoved
<1>6. CalmCursor'
  BY <1>1, CalmMoved
<1> QED
  BY <1>1, <1>2, <1>4, <1>5, <1>6, CalmRevised

LEMMA MarkCalm == ASSUME LookaheadBounds, LookaheadTypes, AttemptsInv, Calm, Revised, Ahead!Mark PROVE Calm'
<1> DEFINE found == {i \in todo : rows[i].status = "selected" /\ rows[i].engine = 0 /\ i \in Ahead!Live}
           sure(i) == i \in found \/ rows[i].engine = life
           chosen == {i \in todo : rows[i].why = "refresh" \/ (sure(i) /\ i \in Ahead!Range(fifo))}
           seen(i) == IF i \in found THEN [rows[i] EXCEPT !.status = "queued", !.engine = life] ELSE rows[i]
           row(i) == IF i \in chosen THEN [seen(i) EXCEPT !.why = "refresh"] ELSE seen(i)
<1>1. /\ lookahead_pc = "mark" /\ UNCHANGED <<cursor, fifo, air, programming, lookahead_faults, lost, back>> /\ auto' = TRUE
      /\ rows' = [i \in Ahead!Rids |-> row(i)] /\ ids' \subseteq chosen /\ back = "idle"
      /\ lookahead_pc' \in {"settle", "prefill"} /\ (lookahead_pc' = "settle" => ids' = {})
      /\ chosen \subseteq todo' /\ todo' \subseteq todo
  BY DEF Ahead!Mark, Ahead!Work, Ahead!web, Ahead!engineVars, LookaheadTypes, RefresherType, Calm, CalmWorker
<1>2. Ahead!Live' = Ahead!Live /\ todo \subseteq Ahead!Rids
  BY <1>1 DEF Ahead!Live, LookaheadTypes, RefresherType
<1>3. ASSUME NEW i \in todo
      PROVE  rows'[i].status \in {"queued", rows[i].status} /\ (i \in chosen => rows'[i].why = "refresh")
  <2>1. rows[i] \in Ahead!Rows /\ rows'[i] = row(i)
    <3> HIDE DEF row, Ahead!Rows
    <3> QED
      BY <1>1, <1>2, RowFields DEF LookaheadTypes
  <2> HIDE DEF found, chosen
  <2>3. seen(i).status \in {"queued", rows[i].status} /\ "why" \in DOMAIN seen(i)
    BY <2>1 DEF Ahead!Rows
  <2> HIDE DEF seen
  <2>4. row(i).status = seen(i).status /\ (i \in chosen => row(i).why = "refresh")
    BY <2>3
  <2> QED
    BY <2>1, <2>3, <2>4
<1> HIDE DEF row, chosen
<1>4. \A i \in Ahead!Rids : rows[i].status # "selected" /\ (rows[i].status = "queued" => i \in Ahead!Live)
  BY <1>1 DEF Calm, CalmStatus
<1>5. \A i \in Ahead!Rids : rows'[i].status # "selected" /\ (rows'[i].status = "queued" => i \in Ahead!Live)
  BY <1>1, <1>4, CalmMoved
<1>6. \A i \in todo : rows[i].status # "failed"
  <2>1. \A i \in todo : rows[i].status = "failed" => rows[i].why = "refresh"
    BY <1>1 DEF AttemptsInv, TodoInv
  <2> QED
    BY <1>2, <2>1 DEF Calm, CalmStatus, Away, Ahead!Safe
<1>7. \A i \in todo' : Kept(i)'
  BY <1>1, <1>3, <1>6 DEF Kept
<1>8. \A i \in todo' : rows'[i].sig # programming'
  BY <1>1, CalmMoved
<1>9. CalmCursor'
  BY <1>1, CalmMoved
<1> QED
  BY <1>1, <1>2, <1>3, <1>5, <1>7, <1>8, <1>9, CalmRevised

LEMMA PrefillCalm == ASSUME LookaheadBounds, LookaheadTypes, AttemptsInv, Calm, Revised, Ahead!Prefill PROVE Calm'
<1> DEFINE rs == Ahead!StartedRows
           waiting == {i \in todo : rs[i].status # "started"}
           first == Ahead!First(IF waiting = {} THEN todo ELSE waiting)
           possible == {i \in Ahead!Rids : i > first /\ rs[i].sig = programming /\ i \in Ahead!Live}
<1>1. /\ lookahead_pc = "prefill" /\ UNCHANGED <<fifo, air, programming, todo, ids, lookahead_faults, lost, auto>> /\ rewound' = TRUE
      /\ lookahead_pc' \in {"remove", "fill"}
  BY DEF Ahead!Prefill, Ahead!Work, Ahead!web
<1>2. Ahead!Live' = Ahead!Live /\ InRefresh /\ todo \subseteq Ahead!Rids /\ todo # {}
  BY <1>1 DEF Ahead!Live, InRefresh, LookaheadTypes, RefresherType
<1>3. \A i \in Ahead!Rids : rows[i].status # "selected" /\ (rows[i].status = "queued" => i \in Ahead!Live)
  BY <1>1 DEF Calm, CalmStatus
<1>4. \A i \in Ahead!Rids : rows'[i].status # "selected" /\ (rows'[i].status = "queued" => i \in Ahead!Live)
  BY <1>1, <1>3, CalmMoved
<1>5. ids' \subseteq todo' /\ \A i \in ids' : rows'[i].status = "queued" => rows'[i].why = "refresh"
  BY <1>1, <1>2, CalmMoved DEF Calm, CalmWorker
<1>6. CASE CalmCursor'
  BY <1>1, <1>2, <1>4, <1>5, <1>6, CalmMoved, CalmRevised DEF Calm, CalmWorker
<1>7. CASE /\ possible = {} /\ rows' = rs /\ cursor' = rs[first].slot /\ rs[first].status # "started"
           /\ ~\E j \in DOMAIN rs : j > first /\ rs[j].status = "started"
  <2>1. first \in todo /\ first \in Ahead!Rids
    <3> DEFINE C == IF waiting = {} THEN todo ELSE waiting
    <3>1. C \subseteq Nat /\ C # {} /\ C \subseteq todo
      BY <1>2, RowFields DEF LookaheadTypes
    <3> HIDE DEF C
    <3>2. Ahead!First(C) \in C
      BY <3>1, FirstIs
    <3> QED
      BY <1>2, <3>1, <3>2 DEF C
  <2> PICK f : f = first
    OBVIOUS
  <2>0. /\ f \in todo /\ f \in Ahead!Rids /\ cursor' = rs[f].slot /\ rs[f].status # "started"
        /\ \A i \in Ahead!Rids : i > f /\ rs[i].sig = programming => i \notin Ahead!Live
        /\ \A j \in DOMAIN rs : j > f => rs[j].status # "started"
    BY <1>7, <2>1
  <2> HIDE DEF first, possible
  <2>2. Kept(f)'
    <3>1. rs[f] = rows[f]
      BY <1>7, <2>0, StartedAre
    <3> QED
      BY <1>1, <1>7, <2>0, <3>1 DEF Calm, CalmStatus, Kept
  <2>3. DOMAIN rs = Ahead!Rids /\ Ahead!Rids' = Ahead!Rids /\ Ahead!Rids \subseteq Nat /\ programming' = programming
    BY <1>1, SameRids, RowFields DEF Ahead!StartedRows, LookaheadTypes
  <2>4. ASSUME NEW i \in Ahead!Rids, Kept(i)', rows'[i].sig = programming PROVE rows'[i].slot < cursor'
    <3>1. i # f
      BY <1>1, <2>0, <2>4, CalmMoved
    <3>2. CASE i < f
      <4>1. CalmSlots'
        BY <1>1, CalmMoved
      <4>2. rows'[i].slot < rows'[f].slot
        BY <2>0, <2>2, <2>3, <2>4, <3>2, <4>1 DEF CalmSlots
      <4> QED
        BY <1>7, <2>0, <4>2
    <3>3. CASE i > f
      <4>1. rows'[i].status # "started"
        BY <1>7, <2>0, <2>3, <3>3
      <4>2. rows'[i].status # "queued"
        BY <1>4, <1>7, <2>0, <2>4, <3>3
      <4>3. rows'[i] \in Ahead!Rows
        <5> HIDE DEF rs, Ahead!Rows
        <5> QED
          BY <1>7, StartedAre DEF rs
      <4>4. rows'[i].status \in {"selected", "queued", "started", "failed"}
        BY <4>3 DEF Ahead!Rows
      <4> QED
        BY <1>4, <2>4, <4>1, <4>2, <4>4 DEF Kept
    <3>4. i \in Nat /\ f \in Nat
      BY <2>0, <2>3
    <3> QED
      BY <3>1, <3>2, <3>3, <3>4
  <2>5. CalmCursor'
    BY <2>3, <2>4 DEF CalmCursor
  <2> QED
    BY <1>6, <2>5
<1>8. cursor' = cursor => CalmCursor'
  BY <1>1, CalmMoved
<1>9. \/ cursor' = cursor
      \/ /\ possible = {} /\ rows' = rs /\ rs[first].status # "started" /\ Ahead!RestoreBefore(rs, first)
  BY DEF Ahead!Prefill
<1>10. Ahead!RestoreBefore(rs, first) => \/ cursor' = cursor
                                         \/ /\ cursor' = rs[first].slot
                                            /\ ~\E j \in DOMAIN rs : j > first /\ rs[j].status = "started"
  <2> HIDE DEF rs, first
  <2> QED
    BY DEF Ahead!RestoreBefore
<1> HIDE DEF rs, first, possible
<1> QED
  BY <1>6, <1>7, <1>8, <1>9, <1>10

LEMMA SettleCalm == ASSUME LookaheadBounds, LookaheadTypes, AttemptsInv, Calm, Revised, Ahead!Settle PROVE Calm'
<1> DEFINE rs == Ahead!StartedRows
           gone == {i \in todo : \/ rs[i].why = "refresh" /\ rs[i].status # "started" /\ (rs[i].engine # life \/ i \notin Ahead!Live)
                                 \/ rs[i].status = "selected" /\ rs[i].engine = 0}
<1>1. /\ lookahead_pc = "settle" /\ lookahead_pc' = "fill" /\ UNCHANGED <<fifo, air, programming, back, lookahead_faults, lost, auto>>
      /\ rewound' = FALSE /\ todo' = {} /\ ids' = {} /\ back = "idle"
      /\ rows' = [i \in Ahead!Rids |-> IF i \in gone THEN [rs[i] EXCEPT !.status = "failed", !.why = "changed"] ELSE rs[i]]
      /\ gone = {} \/ rewound => cursor' = cursor
  BY DEF Ahead!Settle, Ahead!Work, Ahead!web, LookaheadTypes, RefresherType
<1>2. Ahead!Live' = Ahead!Live /\ InRefresh /\ ~InRefresh' /\ todo \subseteq Ahead!Rids
  BY <1>1 DEF Ahead!Live, InRefresh, LookaheadTypes, RefresherType
<1>3. \A i \in Ahead!Rids : rows[i].status # "selected" /\ (rows[i].status = "queued" => i \in Ahead!Live \/ i \in ids)
  BY <1>1 DEF Calm, CalmStatus
<1>4. \A i \in gone : i \in todo /\ i \in Ahead!Rids /\ rows[i].status = "queued" /\ i \in ids
  <2> TAKE i \in gone
  <2>1. i \in todo /\ i \in Ahead!Rids /\ rs[i] = rows[i] /\ rows[i] \in Ahead!Rows
    <3> HIDE DEF Ahead!Rows
    <3> QED
      BY <1>2, StartedAre, RowFields DEF LookaheadTypes
  <2>2. rows[i].why = "refresh" /\ rows[i].status # "started" /\ (rows[i].engine # life \/ i \notin Ahead!Live)
    BY <1>3, <2>1
  <2>3. rows[i].status # "failed"
    BY <2>1, <2>2 DEF Calm, CalmStatus, Away, Ahead!Safe
  <2>4. rows[i].status = "queued"
    BY <1>3, <2>1, <2>2, <2>3 DEF Ahead!Rows
  <2>5. rows[i].engine # 0 /\ (i \in Ahead!Live => rows[i].engine \in {0, life})
    BY <2>1, <2>4 DEF AttemptsInv, IdentityInv
  <2> QED
    BY <1>3, <2>1, <2>2, <2>4, <2>5
<1>5. cursor' = cursor
  BY <1>1, <1>4 DEF Calm, CalmWorker
<1>6. ASSUME NEW i \in Ahead!Rids, rows'[i].status = "queued" PROVE i \in Ahead!Live
  <2>1. i \notin gone
    <3>1. i \in gone => rows'[i].status = "failed"
      <4>1. rs[i] \in Ahead!Rows
        <5> HIDE DEF Ahead!Rows
        <5> QED
          BY StartedAre
      <4> HIDE DEF rs, gone
      <4> QED
        BY <1>1, <4>1 DEF Ahead!Rows
    <3> QED
      BY <1>6, <3>1
  <2>2. rows'[i] = rs[i]
    <3> HIDE DEF rs, gone
    <3> QED
      BY <1>1, <2>1
  <2>3. rs[i] = rows[i] /\ rows[i].status = "queued"
    BY <1>6, <2>2, StartedAre
  <2>4. i \in ids => i \in todo /\ rows[i].why = "refresh"
    BY <1>2, <2>3 DEF Calm, CalmWorker
  <2> QED
    BY <1>3, <2>1, <2>3, <2>4
<1>7. \A i \in Ahead!Rids : rows'[i].status # "selected"
  BY <1>1, <1>3, CalmMoved
<1>8. CalmCursor'
  BY <1>1, <1>5, CalmMoved
<1> HIDE DEF gone, rs
<1> QED
  BY <1>1, <1>2, <1>6, <1>7, <1>8, CalmRevised DEF Calm, CalmWorker

LEMMA LookaheadStaysCalm ==
  ASSUME LookaheadBounds, LookaheadTypes, AttemptsInv, Ahead!Undisturbed => Calm, [Ahead!Next]_Ahead!lookaheadVars
  PROVE  (Ahead!Undisturbed => Calm)'
<1> SUFFICES ASSUME Ahead!Undisturbed' PROVE Calm'
  OBVIOUS
<1>1. lookahead_faults \in [crash: Nat, outage: 0..MaxOutages] /\ lookahead_faults'.crash = 0 /\ lookahead_faults'.outage = 0 /\ Refilled = {TRUE}
  BY DEF LookaheadTypes, QueueType, Ahead!Undisturbed
<1>2. CASE Ahead!Engine
  <2>1. Calm
    BY <1>1, <1>2 DEF Ahead!Engine, Ahead!Takes, Ahead!Ends, Ahead!Undisturbed
  <2> QED
    BY <1>2, <2>1, TakesCalm, EndsCalm DEF Ahead!Engine
<1>3. CASE Ahead!Worker
  <2>1. lookahead_faults' = lookahead_faults
    BY <1>3 DEF Ahead!Worker, Ahead!Begin, Ahead!Mark, Ahead!Prefill, Ahead!RemoveFuture, Ahead!Settle, Ahead!Fill, Ahead!Looks,
           Ahead!Select, Ahead!Cancelled, Ahead!Push, Ahead!Record, Ahead!Work
  <2>2. Calm
    BY <1>1, <2>1 DEF Ahead!Undisturbed
  <2> QED
    BY <1>1, <1>3, <2>2, BeginKeeps, BeginCalm, MarkKeeps, MarkCalm, PrefillKeeps, PrefillCalm, RemoveFutureCalm,
       SettleKeeps,
       SettleCalm, FillKeeps, FillCalm, SelectCalm, CancelledKeeps, CancelledCalm, PushCalm, RecordKeeps, RecordCalm DEF Ahead!Worker
<1>4. CASE Ahead!Faults
  <2>1. CASE Ahead!Crash
    <3>1. lookahead_faults'.crash = lookahead_faults.crash + 1
      BY <1>1, <2>1 DEF Ahead!Crash
    <3> QED
      BY <1>1, <3>1
  <2>2. ASSUME Ahead!EngineRestarts \/ \E accepted \in BOOLEAN : Ahead!PushFails(accepted) PROVE FALSE
    <3>1. lookahead_faults'.outage = lookahead_faults.outage + 1
      BY <1>1, <2>2 DEF Ahead!EngineRestarts, Ahead!PushFails, Ahead!Outage
    <3> QED
      BY <1>1, <3>1 DEF LookaheadBounds
  <2> QED
    BY <1>4, <2>1, <2>2 DEF Ahead!Faults
<1>5. CASE Ahead!Web
  <2>1. Calm
    BY <1>1, <1>5 DEF Ahead!Web, Ahead!Edit, Ahead!Submit, Ahead!Reject, Ahead!Quiet, Ahead!Undisturbed
  <2> QED
    BY <1>5, <2>1, WebCalm
<1>6. CASE UNCHANGED Ahead!lookaheadVars
  <2>1. /\ UNCHANGED <<lookahead_pc, back, todo, ids, rewound, programming, lookahead_faults, cursor, auto, lost, rows, fifo, air>>
    BY <1>6 DEF Ahead!lookaheadVars, Ahead!web, Ahead!database, Ahead!engineVars, Ahead!worker, Ahead!refreshing
  <2>2. Calm /\ Ahead!Live' = Ahead!Live
    BY <1>1, <2>1 DEF Ahead!Undisturbed, Ahead!Live
  <2> QED
    BY <2>1, <2>2, RowsStand, CalmStands
<1> QED
  BY <1>2, <1>3, <1>4, <1>5, <1>6 DEF Ahead!Next

LookaheadInv == LookaheadTypes /\ AttemptsInv /\ (Ahead!Undisturbed => Calm)

LEMMA LookaheadActs == ASSUME [Next]_vars PROVE part' = part /\ ((part = "lookahead" /\ Ahead!Next) \/ UNCHANGED lookahead)
BY DEF vars, Next, StationsNext, UpgradesNext, MediaNext, ProductionNext, BulletinNext, CentralNext, ReportNext,
       SwitchNext, LookaheadNext

LEMMA LookaheadInvKept == ASSUME LookaheadBounds, LookaheadInv, [Ahead!Next]_Ahead!lookaheadVars PROVE LookaheadInv'
BY LookaheadKeeps, LookaheadStaysCalm DEF LookaheadInv

(* Nothing of the programme is played twice, in the run: no request of a    *)
(* listener, whatever crashes and is lost, and no position of the           *)
(* programming while worker and engine live (programming_refresh, requests, *)
(* the refill of automation_worker).                                        *)
THEOREM PlayedOnceAlways ==
  ASSUME MaxRows \in Nat, MaxProgramEdits \in Nat, MaxOutages \in Nat PROVE Spec => []PlayedOnce
<1> DEFINE I == part = "lookahead" => LookaheadInv
<1>b. LookaheadBounds
  BY DEF LookaheadBounds
<1>1. Init => I
  BY <1>b, LookaheadBegins, CalmBegins DEF Init, LookaheadInv
<1>2. I /\ [Next]_vars => I'
  <2> SUFFICES ASSUME I, [Next]_vars, part = "lookahead" PROVE LookaheadInv'
    BY LookaheadActs
  <2>1. UNCHANGED lookahead => UNCHANGED Ahead!lookaheadVars
    BY DEF lookahead, Ahead!lookaheadVars, Ahead!web, Ahead!database, Ahead!engineVars, Ahead!worker,
           Ahead!refreshing
  <2> QED
    BY <1>b, <2>1, LookaheadActs, LookaheadInvKept
<1>3. I => PlayedOnce
  BY RequestsOnce, PositionsDiffer DEF PlayedOnce, LookaheadInv, Ahead!LookaheadPlaysOnce, AttemptsInv
<1> QED
  BY <1>1, <1>2, <1>3, PTL DEF Spec

----------------------------------------------------------------------------
(* TYPES *)

(* A bulletin: what is fetched and handed over is of a revision there was,  *)
(* and a row knows no later life of the engine than the engine.             *)
EngineEra == bulletin_engine.era \in 1..(stops + 1) /\ stops \in 0..MaxStops
BusType   == bus \in [of : Occ \cup {"none", "other"}, playing : BOOLEAN]
TimesType == bulletin_time \in [Occ -> {"early", "due", "late"}]
Bounded ==
  \A o \in Occ : /\ bulletin_job[o].rev <= MaxEdits + 1 /\ bulletin_file[o] <= MaxEdits + 1
                 /\ bulletin_row[o].era <= bulletin_engine.era
BulletinBounds == EngineEra /\ BusType /\ TimesType /\ Bounded

LEMMA BoundsBegin == ASSUME MaxEdits \in Nat, MaxStops \in Nat, Bulletin!Init PROVE BulletinBounds
<1> USE DEF Bulletin!Init, Bulletin!Fresh, Bulletin!Unused, Bulletin!Free
<1>1. EngineEra
  BY DEF EngineEra
<1>2. BusType
  BY DEF BusType
<1>3. TimesType
  BY DEF TimesType
<1>4. Bounded
  BY DEF Bounded
<1> QED
  BY <1>1, <1>2, <1>3, <1>4 DEF BulletinBounds

(* The reservation of the bus is moved by the engine and by what stands     *)
(* beside it.                                                               *)
LEMMA BusKept == ASSUME BulletinTypes, BusType, Bulletin!Next PROVE BusType'
<1> USE DEF Bulletin!Finished, Bulletin!Finish, Bulletin!Free, Bulletin!NoCommand, Bulletin!engineVars
<1>0. bulletin_engine.id \in Occ \cup {"none"}
  BY DEF BulletinTypes, EngineType
<1>1. CASE bus' = bus \/ bus' = [of |-> "none", playing |-> FALSE] \/ bus' = [of |-> "other", playing |-> FALSE]
  <2>1. CASE bus' = bus
    BY <2>1 DEF BusType
  <2>2. CASE bus' = [of |-> "none", playing |-> FALSE]
    BY <2>2 DEF BusType
  <2>3. CASE bus' = [of |-> "other", playing |-> FALSE]
    BY <2>3 DEF BusType
  <2> QED
    BY <1>1, <2>1, <2>2, <2>3
<1>2. CASE \E o \in Occ : \/ Bulletin!Passes(o) \/ Bulletin!Edit(o) \/ Bulletin!Cancel(o) \/ Bulletin!Expire(o)
                          \/ Bulletin!Fetched(o) \/ Bulletin!FetchFails(o)
  BY <1>1, <1>2, Zenon DEF Bulletin!Passes, Bulletin!Edit, Bulletin!Cancel, Bulletin!Expire, Bulletin!Fetched, Bulletin!FetchFails
<1>3. CASE Bulletin!Sounds \/ Bulletin!FeedLost \/ Bulletin!TimeIsUp \/ Bulletin!Taken \/ Bulletin!EngineRestarts \/ Bulletin!OtherEvent
  BY <1>1, <1>3 DEF Bulletin!Sounds, Bulletin!FeedLost, Bulletin!TimeIsUp, Bulletin!Taken, Bulletin!EngineRestarts, Bulletin!OtherEvent
<1>4. CASE Bulletin!Clock
  BY <1>1, <1>4 DEF Bulletin!Clock, Bulletin!Begins, Bulletin!IntroEnds, Bulletin!BodyTick, Bulletin!OutroEnds, Bulletin!Body, Bulletin!BodyEnds
<1>5. CASE Bulletin!Boundary
  BY <1>5 DEF Bulletin!Boundary, BusType
<1>6. CASE Bulletin!Worker
  <2>1. CASE Bulletin!Look
    BY <1>1, <2>1 DEF Bulletin!Look
  <2>2. CASE Bulletin!Prepare \/ Bulletin!Observe \/ Bulletin!Commit
    BY <1>1, <2>2, Zenon DEF Bulletin!Prepare, Bulletin!Observe, Bulletin!Commit
  <2>3. CASE Bulletin!Hand
    BY <1>1, <2>3 DEF Bulletin!Hand, Bulletin!Takes
  <2>4. CASE Bulletin!Judge
    <3>1. ASSUME bus' = [of |-> worker.on, playing |-> FALSE] PROVE BusType'
      BY <3>1 DEF BusType, BulletinTypes, WorkerType
    <3>2. CASE \/ Bulletin!Over(worker.on) \/ Bulletin!IsPlaying(worker.on) \/ Bulletin!GivesUp(worker.on)
               \/ Bulletin!NotYet(worker.on)
      BY <1>1, <3>2 DEF Bulletin!Over, Bulletin!IsPlaying, Bulletin!GivesUp, Bulletin!NotYet, Bulletin!CancelIn
    <3>3. CASE Bulletin!Arms(worker.on)
      BY <1>1, <3>1, <3>3 DEF Bulletin!Arms, Bulletin!CancelIn
    <3> QED
      BY <2>4, <3>2, <3>3 DEF Bulletin!Judge
  <2> QED
    BY <1>6, <2>1, <2>2, <2>3, <2>4 DEF Bulletin!Worker
<1>7. CASE Bulletin!WorkerDies
  BY <1>1, <1>7 DEF Bulletin!WorkerDies
<1> QED
  BY <1>2, <1>3, <1>4, <1>5, <1>6, <1>7 DEF Bulletin!Next

LEMMA TimesKept == ASSUME TimesType, Bulletin!Next PROVE TimesType'
<1> USE DEF Bulletin!OffEngine, Bulletin!db
<1>1. ASSUME NEW o \in Occ, Bulletin!Passes(o) PROVE TimesType'
  BY <1>1 DEF Bulletin!Passes, TimesType
<1>2. CASE UNCHANGED bulletin_time
  BY <1>2 DEF TimesType
<1>3. CASE Bulletin!Worker
  BY <1>2, <1>3, Zenon DEF Bulletin!Worker, Bulletin!Look, Bulletin!Prepare, Bulletin!Hand, Bulletin!Observe, Bulletin!Judge, Bulletin!Commit
<1>4. CASE ~Bulletin!Worker /\ ~ \E o \in Occ : Bulletin!Passes(o)
  BY <1>2, <1>4 DEF Bulletin!Next, Bulletin!Edit, Bulletin!Cancel, Bulletin!Expire, Bulletin!Fetched, Bulletin!FetchFails,
     Bulletin!Sounds, Bulletin!FeedLost, Bulletin!TimeIsUp, Bulletin!Taken, Bulletin!EngineRestarts, Bulletin!OtherEvent,
     Bulletin!Boundary, Bulletin!WorkerDies,
     Bulletin!Clock, Bulletin!Begins, Bulletin!IntroEnds, Bulletin!BodyTick, Bulletin!OutroEnds
<1> QED
  BY <1>1, <1>3, <1>4

LEMMA EraKept ==
  ASSUME MaxStops \in Nat, BulletinTypes, EngineEra, Bulletin!Next
  PROVE  EngineEra' /\ (bulletin_engine'.era = bulletin_engine.era \/ bulletin_engine'.era = bulletin_engine.era + 1)
<1> USE DEF Bulletin!Finished, Bulletin!Finish, Bulletin!NoCommand, Bulletin!engineVars, Bulletin!Stops, Bulletin!Steady
<1> DEFINE Goal == EngineEra' /\ (bulletin_engine'.era = bulletin_engine.era \/ bulletin_engine'.era = bulletin_engine.era + 1)
<1>0. bulletin_engine = [id |-> bulletin_engine.id, phase |-> bulletin_engine.phase, heard |-> bulletin_engine.heard,
                         began |-> bulletin_engine.began, rev |-> bulletin_engine.rev, era |-> bulletin_engine.era]
  BY DEF BulletinTypes, EngineType
<1>1. CASE bulletin_engine'.era = bulletin_engine.era /\ UNCHANGED stops
  BY <1>1 DEF EngineEra
<1>2. CASE bulletin_engine'.era = bulletin_engine.era /\ stops < MaxStops /\ stops' = stops + 1
  BY <1>2 DEF EngineEra
<1>3. CASE bulletin_engine'.era = bulletin_engine.era + 1 /\ stops < MaxStops /\ stops' = stops + 1
  BY <1>3 DEF EngineEra
<1>4. CASE \E o \in Occ : \/ Bulletin!Passes(o) \/ Bulletin!Edit(o) \/ Bulletin!Cancel(o) \/ Bulletin!Expire(o)
                          \/ Bulletin!Fetched(o) \/ Bulletin!FetchFails(o)
  <2>1. UNCHANGED <<bulletin_engine, stops>>
    BY <1>4, Zenon DEF Bulletin!Passes, Bulletin!Edit, Bulletin!Cancel, Bulletin!Expire, Bulletin!Fetched, Bulletin!FetchFails
  <2> QED
    BY <1>1, <2>1
<1>5. CASE Bulletin!Sounds \/ Bulletin!TimeIsUp \/ Bulletin!Taken \/ Bulletin!OtherEvent \/ Bulletin!Boundary
  <2>1. bulletin_engine'.era = bulletin_engine.era
    BY <1>0, <1>5 DEF Bulletin!Sounds, Bulletin!TimeIsUp, Bulletin!Taken, Bulletin!OtherEvent, Bulletin!Boundary
  <2>2. UNCHANGED stops
    BY <1>5 DEF Bulletin!Sounds, Bulletin!TimeIsUp, Bulletin!Taken, Bulletin!OtherEvent, Bulletin!Boundary
  <2> QED
    BY <1>1, <2>1, <2>2
<1>6. CASE Bulletin!FeedLost
  BY <1>0, <1>2, <1>6 DEF Bulletin!FeedLost
<1>7. CASE Bulletin!EngineRestarts
  BY <1>3, <1>7 DEF Bulletin!EngineRestarts, Bulletin!Unused
<1>8. CASE Bulletin!Clock
  <2>1. bulletin_engine'.era = bulletin_engine.era
    BY <1>0, <1>8 DEF Bulletin!Clock, Bulletin!Begins, Bulletin!IntroEnds, Bulletin!BodyTick, Bulletin!OutroEnds, Bulletin!Body, Bulletin!BodyEnds
  <2>2. UNCHANGED stops
    BY <1>8 DEF Bulletin!Clock, Bulletin!Begins, Bulletin!IntroEnds, Bulletin!BodyTick, Bulletin!OutroEnds
  <2> QED
    BY <1>1, <2>1, <2>2
<1>9. CASE Bulletin!Worker
  <2>1. UNCHANGED stops
    BY <1>9, Zenon DEF Bulletin!Worker, Bulletin!Look, Bulletin!Prepare, Bulletin!Hand, Bulletin!Observe, Bulletin!Judge, Bulletin!Commit
  <2>2. ASSUME bulletin_engine' = bulletin_engine \/ bulletin_engine' = [bulletin_engine EXCEPT !.phase = "FAILED", !.heard = FALSE]
        PROVE  bulletin_engine'.era = bulletin_engine.era
    BY <1>0, <2>2
  <2>3. ASSUME Bulletin!Look PROVE bulletin_engine'.era = bulletin_engine.era
    <3>1. bulletin_engine' = bulletin_engine \/ bulletin_engine' = [bulletin_engine EXCEPT !.phase = "FAILED", !.heard = FALSE]
      BY <2>3 DEF Bulletin!Look
    <3> QED
      BY <2>2, <3>1
  <2>4. ASSUME Bulletin!Prepare \/ Bulletin!Observe \/ Bulletin!Commit PROVE bulletin_engine'.era = bulletin_engine.era
    BY <2>4 DEF Bulletin!Prepare, Bulletin!Observe, Bulletin!Commit
  <2>5. ASSUME Bulletin!Hand PROVE bulletin_engine'.era = bulletin_engine.era
    <3>1. CASE bulletin_engine' = bulletin_engine
      BY <3>1
    <3>2. CASE bulletin_engine' = [id |-> worker.on, phase |-> "PREPARING", heard |-> FALSE, began |-> FALSE,
                                   rev |-> worker.rev, era |-> bulletin_engine.era]
      BY <3>2
    <3> QED
      BY <2>5, <3>1, <3>2 DEF Bulletin!Hand, Bulletin!Takes
  <2>6. ASSUME Bulletin!Judge PROVE bulletin_engine'.era = bulletin_engine.era
    <3>1. bulletin_engine' = bulletin_engine \/ bulletin_engine' = [bulletin_engine EXCEPT !.phase = "FAILED", !.heard = FALSE]
      BY <2>6 DEF Bulletin!Judge, Bulletin!Over, Bulletin!IsPlaying, Bulletin!GivesUp, Bulletin!NotYet, Bulletin!CancelIn, Bulletin!Arms
    <3> QED
      BY <2>2, <3>1
  <2> QED
    BY <1>1, <1>9, <2>1, <2>3, <2>4, <2>5, <2>6 DEF Bulletin!Worker
<1>10. CASE Bulletin!WorkerDies
  BY <1>2, <1>10 DEF Bulletin!WorkerDies
<1> QED
  BY <1>4, <1>5, <1>6, <1>7, <1>8, <1>9, <1>10 DEF Bulletin!Next

(* A download, a file and what a row says of the engine come from what the  *)
(* row and the engine were.                                                 *)
LEMMA BoundedKept ==
  ASSUME MaxEdits \in Nat, HandsInv, Bounded, Bulletin!Next,
         bulletin_engine.era \in Nat, bulletin_engine'.era \in Nat, bulletin_engine.era <= bulletin_engine'.era
  PROVE  Bounded'
<1> USE DEF Bulletin!engineVars, Bulletin!db
<1>0. /\ \A o \in Occ : /\ bulletin_row[o].rev \in 1..(MaxEdits + 1) /\ bulletin_row[o].bulletin \in 0..(MaxEdits + 1)
                         /\ bulletin_row[o].era \in Nat /\ bulletin_file[o] \in Nat /\ bulletin_job[o].rev \in Nat
                         /\ bulletin_row[o] \in OccRow
      /\ bulletin_row \in [Occ -> OccRow] /\ bulletin_file \in [Occ -> Nat]
      /\ bulletin_job \in [Occ -> [status : {"none", "running", "done", "failed"}, rev : Nat]]
  BY DEF HandsInv, BulletinTypes, RowsType, JobsType, FilesKnown, Downloads, OccRow, Revision
<1> DEFINE Jobs  == \A o \in Occ : bulletin_job'[o].rev \in {bulletin_job[o].rev, 0}
           Files == \A o \in Occ : bulletin_file'[o] \in {bulletin_file[o], 0}
           Eras  == \A o \in Occ : bulletin_row'[o].era \in {bulletin_row[o].era, 0, bulletin_engine.era}
<1>1. ASSUME Jobs, Files, Eras PROVE Bounded'
  BY <1>0, <1>1 DEF Bounded
<1>2. CASE \E o \in Occ : \/ Bulletin!Passes(o) \/ Bulletin!Edit(o) \/ Bulletin!Cancel(o) \/ Bulletin!Expire(o)
  <2>1. Jobs /\ Files
    BY <1>0, <1>2, Zenon DEF Bulletin!Passes, Bulletin!Edit, Bulletin!Cancel, Bulletin!Expire
  <2>2. Eras
    <3>1. ASSUME NEW o \in Occ, Bulletin!Passes(o) PROVE Eras
      BY <3>1, <1>0, Zenon DEF Bulletin!Passes
    <3>2. ASSUME NEW o \in Occ, Bulletin!Edit(o) PROVE Eras
      BY <3>2, <1>0 DEF Bulletin!Edit, Bulletin!Fresh, OccRow
    <3>3. ASSUME NEW o \in Occ, Bulletin!Cancel(o) PROVE Eras
      BY <3>3, <1>0 DEF Bulletin!Cancel, OccRow
    <3>4. ASSUME NEW o \in Occ, Bulletin!Expire(o) PROVE Eras
      BY <3>4, <1>0 DEF Bulletin!Expire, OccRow
    <3> QED
      BY <1>2, <3>1, <3>2, <3>3, <3>4
  <2> QED
    BY <1>1, <2>1, <2>2
<1>3. ASSUME NEW o \in Occ, Bulletin!Fetched(o) PROVE Bounded'
  BY <1>0, <1>3 DEF Bulletin!Fetched, Bounded
<1>4. ASSUME NEW o \in Occ, Bulletin!FetchFails(o) PROVE Bounded'
  BY <1>0, <1>4 DEF Bulletin!FetchFails, Bounded
<1>5. CASE \/ Bulletin!Sounds \/ Bulletin!FeedLost \/ Bulletin!TimeIsUp \/ Bulletin!Taken \/ Bulletin!Clock \/ Bulletin!Boundary
           \/ Bulletin!OtherEvent \/ Bulletin!EngineRestarts
  <2>1. UNCHANGED <<bulletin_row, bulletin_job, bulletin_file>>
    BY <1>5 DEF Bulletin!Sounds, Bulletin!FeedLost, Bulletin!TimeIsUp, Bulletin!Taken, Bulletin!Clock, Bulletin!Boundary,
      Bulletin!OtherEvent, Bulletin!EngineRestarts, Bulletin!Begins, Bulletin!IntroEnds, Bulletin!BodyTick, Bulletin!OutroEnds,
      Bulletin!OffEngine
  <2> QED
    BY <1>1, <2>1
<1>6. CASE Bulletin!WorkerDies
  <2>1. Jobs
    BY <1>6 DEF Bulletin!WorkerDies
  <2>2. UNCHANGED <<bulletin_row, bulletin_file>>
    BY <1>6 DEF Bulletin!WorkerDies
  <2> QED
    BY <1>1, <2>1, <2>2
<1>7. CASE Bulletin!Look
  <2>1. UNCHANGED bulletin_row
    BY <1>7 DEF Bulletin!Look
  <2>2. Jobs
    BY <1>7 DEF Bulletin!Look
  <2>3. Files
    BY <1>7 DEF Bulletin!Look
  <2> QED
    BY <1>1, <2>1, <2>2, <2>3
<1>8. ASSUME NEW o \in Occ, \/ Bulletin!StartsFetch(o) \/ Bulletin!FetchInterrupted(o) \/ Bulletin!StillFetching(o) \/ Bulletin!FetchFailed(o)
                           \/ Bulletin!FetchStale(o) \/ Bulletin!FetchDone(o) \/ Bulletin!FeedChosen(o) \/ Bulletin!Unavailable(o)
      PROVE  Bounded'
  <2> USE DEF Bulletin!Drop, Bulletin!Fails, Bulletin!MarksReady
  <2>1. CASE Bulletin!StartsFetch(o)
    <3>1. bulletin_job'[o].rev = bulletin_row'[o].bulletin /\ \A p \in Occ \ {o} : bulletin_job'[p] = bulletin_job[p]
      BY <1>0, <2>1 DEF Bulletin!StartsFetch
    <3>2. bulletin_row'[o].bulletin \in {bulletin_row[o].rev, bulletin_row[o].bulletin}
      BY <1>0, <2>1 DEF Bulletin!StartsFetch, OccRow
    <3>3. Eras
      BY <1>0, <2>1 DEF Bulletin!StartsFetch, OccRow
    <3>4. UNCHANGED bulletin_file
      BY <2>1 DEF Bulletin!StartsFetch
    <3> QED
      BY <1>0, <3>1, <3>2, <3>3, <3>4 DEF Bounded
  <2>2. Jobs \/ Bulletin!StartsFetch(o)
    BY <1>0, <1>8 DEF Bulletin!FetchInterrupted, Bulletin!StillFetching, Bulletin!FetchFailed, Bulletin!FetchStale,
         Bulletin!FetchDone, Bulletin!FeedChosen, Bulletin!Unavailable
  <2>3. Files \/ Bulletin!StartsFetch(o)
    BY <1>0, <1>8 DEF Bulletin!FetchInterrupted, Bulletin!StillFetching, Bulletin!FetchFailed, Bulletin!FetchStale,
         Bulletin!FetchDone, Bulletin!FeedChosen, Bulletin!Unavailable
  <2>4. Eras \/ Bulletin!StartsFetch(o)
    <3>1. CASE Bulletin!FetchInterrupted(o) \/ Bulletin!FetchFailed(o) \/ Bulletin!Unavailable(o)
      <4>1. bulletin_row' = [bulletin_row EXCEPT ![o].state = "FAILED"]
        BY <3>1 DEF Bulletin!FetchInterrupted, Bulletin!FetchFailed, Bulletin!Unavailable
      <4> QED
        BY <1>0, <4>1 DEF OccRow
    <3>2. CASE Bulletin!StillFetching(o)
      BY <1>0, <3>2 DEF Bulletin!StillFetching, OccRow
    <3>3. CASE Bulletin!FetchStale(o)
      BY <1>0, <3>3 DEF Bulletin!FetchStale, OccRow
    <3>4. CASE Bulletin!FetchDone(o) \/ Bulletin!FeedChosen(o)
      <4>1. /\ bulletin_row'[o].era = bulletin_engine.era
            /\ \A p \in Occ \ {o} : bulletin_row'[p] = bulletin_row[p]
        <5>1. \E b : bulletin_row' = [bulletin_row EXCEPT ![o].state = "READY", ![o].ready = TRUE,
                                                        ![o].era = bulletin_engine.era, ![o].bulletin = b]
          BY <3>4 DEF Bulletin!FetchDone, Bulletin!FeedChosen
        <5> QED
          BY <1>0, <5>1 DEF OccRow
      <4> QED
        BY <1>0, <4>1
    <3> QED
      BY <1>8, <3>1, <3>2, <3>3, <3>4
  <2> QED
    BY <1>1, <2>1, <2>2, <2>3, <2>4
<1>9. CASE Bulletin!Hand \/ Bulletin!Observe \/ Bulletin!Judge \/ Bulletin!Commit
  <2> USE DEF Bulletin!Fails
  <2>0. worker.on \in Occ
    BY <1>9 DEF HandsInv, InPass, Bulletin!Hand, Bulletin!Observe, Bulletin!Judge, Bulletin!Commit
  <2>1. Jobs
    BY <1>9 DEF Bulletin!Hand, Bulletin!Observe, Bulletin!Judge, Bulletin!Commit
  <2>2. Files
    <3>1. bulletin_file' = bulletin_file \/ bulletin_file' = [bulletin_file EXCEPT ![worker.on] = 0]
      BY <1>9 DEF Bulletin!Hand, Bulletin!Takes, Bulletin!Observe, Bulletin!Judge, Bulletin!Commit, Bulletin!Over, Bulletin!IsPlaying,
        Bulletin!GivesUp, Bulletin!NotYet, Bulletin!Arms
    <3> QED
      BY <1>0, <3>1
  <2>3. Eras
    <3>1. \/ bulletin_row' = bulletin_row
          \/ \E s \in {"FAILED", "QUEUED"} : bulletin_row' = [bulletin_row EXCEPT ![worker.on].state = s]
          \/ \E s \in {"STARTED", worker.seen} : Bulletin!Becomes(worker.on, s)
      BY <1>9 DEF Bulletin!Hand, Bulletin!Takes, Bulletin!Observe, Bulletin!Judge, Bulletin!Commit, Bulletin!Over, Bulletin!IsPlaying,
        Bulletin!GivesUp, Bulletin!NotYet, Bulletin!Arms
    <3>2. CASE bulletin_row' = bulletin_row
      BY <3>2
    <3>3. CASE \E s \in {"FAILED", "QUEUED"} : bulletin_row' = [bulletin_row EXCEPT ![worker.on].state = s]
      BY <1>0, <3>3 DEF OccRow
    <3>4. CASE \E s \in {"STARTED", worker.seen} : Bulletin!Becomes(worker.on, s)
      BY <1>0, <3>4 DEF OccRow, Bulletin!Becomes
    <3> QED
      BY <3>1, <3>2, <3>3, <3>4
  <2> QED
    BY <1>1, <2>1, <2>2, <2>3
<1> QED
  BY <1>2, <1>3, <1>4, <1>5, <1>6, <1>7, <1>8, <1>9 DEF Bulletin!Next, Bulletin!Worker, Bulletin!Prepare

LEMMA BulletinBoundsKept ==
  ASSUME MaxEdits \in Nat, MaxStops \in Nat, HandsInv, BulletinBounds, Bulletin!Next
  PROVE  BulletinBounds'
<1>1. BusType' /\ TimesType'
  BY BusKept, TimesKept DEF HandsInv, BulletinBounds
<1>2. EngineEra' /\ (bulletin_engine'.era = bulletin_engine.era \/ bulletin_engine'.era = bulletin_engine.era + 1)
  BY EraKept DEF HandsInv, BulletinBounds
<1>3. Bounded'
  <2>1. bulletin_engine.era \in Nat /\ bulletin_engine'.era \in Nat /\ bulletin_engine.era <= bulletin_engine'.era
    BY <1>2 DEF BulletinBounds, EngineEra
  <2> QED
    BY <2>1, BoundedKept DEF BulletinBounds
<1> QED
  BY <1>1, <1>2, <1>3 DEF BulletinBounds

LEMMA BulletinTyped == ASSUME MaxEdits \in Nat, MaxStops \in Nat, HandsInv, BulletinBounds PROVE Bulletin!TypeOK
<1> DEFINE Rev == 1..(MaxEdits + 1)
           Rev0 == 0..(MaxEdits + 1)
           Era == 0..(MaxStops + 1)
           States == {"PENDING", "READY", "QUEUED", "STARTED", "COMPLETED", "FAILED", "MISSED", "CANCELLED"}
<1>1. bulletin_row \in [Occ -> [state : States, rev : Rev, bulletin : Rev0, fetch : Rev0, ready : BOOLEAN, era : Era, started : BOOLEAN]]
  <2> SUFFICES ASSUME NEW o \in Occ
               PROVE  bulletin_row[o] \in [state : States, rev : Rev, bulletin : Rev0, fetch : Rev0, ready : BOOLEAN, era : Era, started : BOOLEAN]
    BY DEF HandsInv, BulletinTypes, RowsType
  <2>1. bulletin_row[o] \in [state : States, rev : Rev, bulletin : Nat, fetch : Nat, ready : BOOLEAN, era : Nat, started : BOOLEAN]
    BY DEF HandsInv, BulletinTypes, RowsType, OccRow, Revision
  <2>2. bulletin_row[o].rev \in Rev
    BY <2>1
  <2>3. bulletin_row[o].bulletin \in Rev0 /\ bulletin_row[o].fetch \in Rev0
    BY <2>2 DEF HandsInv, Downloads
  <2>4. bulletin_row[o].era \in Era
    BY <2>1 DEF BulletinBounds, Bounded, EngineEra
  <2> HIDE DEF Rev, Rev0, Era, States
  <2> QED
    BY <2>1, <2>3, <2>4
<1>2. bulletin_job \in [Occ -> [status : {"none", "running", "done", "failed"}, rev : Rev0]]
  <2>1. \A o \in Occ : bulletin_job[o].rev \in Rev0
    BY DEF HandsInv, BulletinTypes, JobsType, BulletinBounds, Bounded
  <2> HIDE DEF Rev0
  <2> QED
    BY <2>1 DEF HandsInv, BulletinTypes, JobsType
<1>3. bulletin_file \in [Occ -> Rev0]
  BY DEF HandsInv, BulletinTypes, FilesKnown, BulletinBounds, Bounded
<1>4. /\ worker.pc \in {"idle", "prepare", "hand", "observe", "judge", "commit"} /\ worker.on \in Occ \cup {"none"}
      /\ bulletin_engine.id \in Occ \cup {"none"}
      /\ bulletin_engine.phase \in Bulletin!Holding \cup {"IDLE", "FAILED", "COMPLETED"}
  BY DEF HandsInv, BulletinTypes, WorkerType, EngineType
<1>5. bulletin_edits \in 0..MaxEdits /\ stops \in 0..MaxStops
  BY DEF HandsInv, BulletinTypes, CountsType, BulletinBounds, EngineEra
<1>6. bus.of \in Occ \cup {"none", "other"} /\ bus.playing \in BOOLEAN
  BY DEF BulletinBounds, BusType
<1>7. bulletin_time \in [Occ -> {"early", "due", "late"}]
  BY DEF BulletinBounds, TimesType
<1> QED
  BY <1>1, <1>2, <1>3, <1>4, <1>5, <1>6, <1>7 DEF Bulletin!TypeOK

LEMMA EachActs ==
  ASSUME [Next]_vars
  PROVE  /\ (part = "upgrades" /\ Upgrades!Next) \/ UNCHANGED upgrades
         /\ (part = "report" /\ Report!Next) \/ UNCHANGED report
         /\ (part = "switch" /\ Switch!Next) \/ UNCHANGED switch
BY DEF vars, Next, StationsNext, UpgradesNext, MediaNext, ProductionNext, BulletinNext, CentralNext, ReportNext,
       SwitchNext, LookaheadNext

(* A part that stands still keeps its type.                                 *)
LEMMA ReportShapesRest == ASSUME ReportShape, RequestShape, UNCHANGED report PROVE ReportShape' /\ RequestShape'
BY DEF report, ReportShape, RequestShape
LEMMA CentralShapeRests == ASSUME CentralShape, UNCHANGED central PROVE CentralShape'
BY DEF central, CentralShape, CentralRow, CentralServer, CentralReporter, CentralCounts
LEMMA MediaShapesRest == ASSUME MediaPlaces, MediaMarks, UNCHANGED media PROVE MediaPlaces' /\ MediaMarks'
BY DEF media, MediaPlaces, MediaMarks
LEMMA ProductionShapeRests == ASSUME ProductionShape, UNCHANGED production PROVE ProductionShape'
BY DEF production, ProductionShape
LEMMA StationShapeRests == ASSUME StationShape, UNCHANGED stations PROVE StationShape'
BY DEF stations, StationShape, RowShape, ListingShape, StreamShape, FilesShape, UnitShape, LockShape
LEMMA BulletinBoundsRest == ASSUME BulletinBounds, UNCHANGED bulletin PROVE BulletinBounds'
BY DEF bulletin, BulletinBounds, EngineEra, BusType, TimesType, Bounded
LEMMA UpgradesRest ==
  ASSUME Upgrades!TypeOK, Upgrades!Sourced, UNCHANGED upgrades PROVE Upgrades!TypeOK' /\ Upgrades!Sourced'
<1>1. UNCHANGED Upgrades!maintVars
  BY DEF upgrades, Upgrades!maintVars, Upgrades!units, Upgrades!installed, Upgrades!backups, Upgrades!process, Upgrades!bounds
<1> QED
  BY <1>1, Upgrades!TypeRests

LEMMA StationsTyped == ASSUME ~Overlap PROVE Spec => [](part = "stations" => Stations!TypeOK)
<1> DEFINE I == part = "stations" => StationInv /\ StationShape
<1>1. Init => I
  BY StationBegins, StationShapes DEF Init
<1>2. I /\ [Next]_vars => I'
  BY WhoActs, StationKept, StationShapeKept, StationRests, StationShapeRests
<1>3. I => (part = "stations" => Stations!TypeOK)
  BY StationTypesOK
<1> QED
  BY <1>1, <1>2, <1>3, PTL DEF Spec

LEMMA UpgradesTyped == Spec => [](part = "upgrades" => Upgrades!TypeOK)
<1> DEFINE I == part = "upgrades" => Upgrades!TypeOK /\ Upgrades!Sourced
<1>1. Init => I
  BY Upgrades!InitTyped DEF Init
<1>2. I /\ [Next]_vars => I'
  <2> SUFFICES ASSUME I, [Next]_vars, part = "upgrades" PROVE Upgrades!TypeOK' /\ Upgrades!Sourced'
    BY WhoActs
  <2>1. CASE Upgrades!Next
    BY <2>1, Upgrades!TypeKept
  <2> QED
    BY <2>1, EachActs, UpgradesRest
<1> QED
  BY <1>1, <1>2, PTL DEF Spec

LEMMA MediaAndProductionTyped ==
  Spec => []((part = "media" => Media!TypeOK) /\ (part = "production" => Production!TypeOK))
<1> DEFINE M == part = "media" => MediaInv /\ MediaPlaces /\ MediaMarks
           P == part = "production" => ProductionInv /\ ProductionShape
<1>1. Init => M /\ P
  BY MediaBegins, MediaShapes, ProductionBegins, ProductionShapes DEF Init
<1>2. M /\ [Next]_vars => M'
  BY WhoActs, MediaKept, MediaPlacesKept, MediaMarksKept, MediaRests, MediaShapesRest
<1>3. P /\ [Next]_vars => P'
  BY WhoActs, ProductionKept, ProductionShapeKept, ProductionRests, ProductionShapeRests
<1>4. M /\ P => (part = "media" => Media!TypeOK) /\ (part = "production" => Production!TypeOK)
  BY MediaTyped, ProductionTyped
<1> QED
  BY <1>1, <1>2, <1>3, <1>4, PTL DEF Spec

LEMMA BulletinsTyped == ASSUME MaxEdits \in Nat, MaxStops \in Nat PROVE Spec => [](part = "bulletin" => Bulletin!TypeOK)
<1> DEFINE I == part = "bulletin" => BulletinInv /\ BulletinBounds
<1>1. Init => I
  BY HandsBegin, BoundsBegin DEF Init, BulletinInv
<1>2. I /\ [Next]_vars => I'
  <2> SUFFICES ASSUME I, [Next]_vars, part = "bulletin" PROVE BulletinInv' /\ BulletinBounds'
    BY WhoActs
  <2>1. HandsInv
    BY DEF BulletinInv
  <2> QED
    BY <2>1, WhoActs, BulletinKept, BulletinBoundsKept, BulletinRests, BulletinBoundsRest
<1>3. I => (part = "bulletin" => Bulletin!TypeOK)
  BY BulletinTyped DEF BulletinInv
<1> QED
  BY <1>1, <1>2, <1>3, PTL DEF Spec

LEMMA CentralAndReportTyped ==
  ASSUME CentralBounds, ReportBounds
  PROVE  Spec => []((part = "central" => Central!TypeOK) /\ (part = "report" => Report!TypeOK))
<1> DEFINE C == part = "central" => CentralInv /\ CentralShape
           R == part = "report" => ReportInv /\ ReportShape /\ RequestShape
<1>1. Init => C /\ R
  BY CentralBegins, CentralShapes, ReportBegins, ReportShapes DEF Init
<1>2. C /\ [Next]_vars => C'
  <2> SUFFICES ASSUME C, [Next]_vars, part = "central" PROVE CentralInv' /\ CentralShape'
    BY WhoActs
  <2>1. CASE Central!Next
    <3>1. CentralInv'
      BY <2>1, CentralKept
    <3> QED
      BY <2>1, <3>1, CentralShapeKept
  <2> QED
    BY <2>1, WhoActs, CentralRests, CentralShapeRests
<1>3. R /\ [Next]_vars => R'
  <2> SUFFICES ASSUME R, [Next]_vars, part = "report" PROVE ReportInv' /\ ReportShape' /\ RequestShape'
    BY WhoActs
  <2>1. CASE Report!Next
    BY <2>1, ReportKept, ReportShapesKept
  <2>2. CASE UNCHANGED report
    <3>1. UNCHANGED Report!vars
      BY <2>2 DEF report, Report!vars
    <3> QED
      BY <2>2, <3>1, ReportKept, ReportShapesRest
  <2> QED
    BY <2>1, <2>2, EachActs
<1>4. C /\ R => (part = "central" => Central!TypeOK) /\ (part = "report" => Report!TypeOK)
  BY CentralTyped, ReportTypes
<1> QED
  BY <1>1, <1>2, <1>3, <1>4, PTL DEF Spec

LEMMA SwitchAndLookaheadTyped ==
  ASSUME Switch!SwitchAssumption, LookaheadBounds
  PROVE  Spec => []((part = "switch" => Switch!TypeOK) /\ (part = "lookahead" => Ahead!TypeOK))
<1> DEFINE S == part = "switch" => SwitchInv
           L == part = "lookahead" => LookaheadInv
<1>1. Init => S /\ L
  BY SwitchBegins, LookaheadBegins, CalmBegins DEF Init, LookaheadInv
<1>2. S /\ [Next]_vars => S'
  <2> SUFFICES ASSUME S, [Next]_vars, part = "switch" PROVE SwitchInv'
    BY WhoActs
  <2>1. UNCHANGED switch => UNCHANGED Switch!switchVars
    BY DEF switch, Switch!switchVars
  <2> QED
    BY <2>1, EachActs, SwitchKept
<1>3. L /\ [Next]_vars => L'
  <2> SUFFICES ASSUME L, [Next]_vars, part = "lookahead" PROVE LookaheadInv'
    BY LookaheadActs
  <2>1. UNCHANGED lookahead => UNCHANGED Ahead!lookaheadVars
    BY DEF lookahead, Ahead!lookaheadVars, Ahead!web, Ahead!database, Ahead!engineVars, Ahead!worker,
           Ahead!refreshing
  <2> QED
    BY <2>1, LookaheadActs, LookaheadInvKept
<1>4. S /\ L => (part = "switch" => Switch!TypeOK) /\ (part = "lookahead" => Ahead!TypeOK)
  BY TypeParts DEF SwitchInv, LookaheadInv
<1> QED
  BY <1>1, <1>2, <1>3, <1>4, PTL DEF Spec

(* Every state of the run has its type: what is stored, on the wire, in the *)
(* engine and remembered by a process between two commits, however often    *)
(* each component is asked, edited and fails within its bounds.  For the    *)
(* stations an operator's command and the timer's job take turns (~Overlap),*)
(* which the code leaves to the operator.                                   *)
THEOREM TypesAlways ==
  ASSUME Parts \subseteq {"stations", "upgrades", "media", "production", "bulletin", "central", "report", "switch", "lookahead"},
         ~Overlap, MaxEdits \in Nat, MaxStops \in Nat, CentralBounds, ReportBounds, Switch!SwitchAssumption, LookaheadBounds
  PROVE  Spec => []TypeOK
<1> DEFINE Named == part \in {"stations", "upgrades", "media", "production", "bulletin", "central", "report", "switch", "lookahead"}
<1>1. Init => Named
  BY DEF Init
<1>2. Named /\ [Next]_vars => Named'
  BY WhoActs
<1>3. /\ Named
      /\ (part = "stations" => Stations!TypeOK) /\ (part = "upgrades" => Upgrades!TypeOK)
      /\ ((part = "media" => Media!TypeOK) /\ (part = "production" => Production!TypeOK))
      /\ (part = "bulletin" => Bulletin!TypeOK)
      /\ ((part = "central" => Central!TypeOK) /\ (part = "report" => Report!TypeOK))
      /\ ((part = "switch" => Switch!TypeOK) /\ (part = "lookahead" => Ahead!TypeOK))
      => TypeOK
  BY Zenon DEF TypeOK
<1> QED
  BY <1>1, <1>2, <1>3, StationsTyped, UpgradesTyped, MediaAndProductionTyped, BulletinsTyped, CentralAndReportTyped,
     SwitchAndLookaheadTyped, PTL DEF Spec
=============================================================================

------------------------------ MODULE Production ------------------------------
(***************************************************************************)
(* Drafts of station audio: paid generation, rendering and saving through   *)
(* the one production worker, the ingest worker that turns a saved draft     *)
(* into a song, and the browsers that order, revoke, decommission and delete *)
(* meanwhile.  The finished takes of all drafts are the same bytes, so there *)
(* is at most one song.  What the worker does between two commits is one     *)
(* step, except that a provider call and a cleanup take their time.          *)
(***************************************************************************)
EXTENDS Naturals

CONSTANTS
  Draft,        \* drafts of one station
  MaxOrders,    \* bound: what the producer and the administrators ask for
  MaxDeaths     \* bound: deaths of a worker, and operations that fail

VARIABLES
  draft,     \* what a draft row holds
  attempt,   \* the last attempt of a draft: only one is ever in work
  aged,      \* drafts that nobody touched for seven days
  job,       \* the ingest job of a draft
  song,      \* the song made of the take, and who owns it
  granted,   \* the producer may use the production of this station
  key,       \* revision of the provider's credential
  work,      \* the production worker
  ingest,    \* the ingest worker: the draft whose job it holds, and how far it is
  orders, deaths

rows           == <<draft, attempt, aged, job>>
productionVars == <<rows, song, granted, key, work, ingest, orders, deaths>>

Action == {"voice", "render", "save"}
Active == {"pending", "running"}
NoTry  == [status |-> "none", action |-> "none", key |-> 0, calls |-> 0]
NoSong == [there |-> FALSE, on |-> FALSE, retired |-> FALSE, deleted |-> FALSE, state |-> "pending"]
Unoccupied == [of |-> "none", in |-> FALSE]
Resting == [pc |-> "reconcile", of |-> "none", old |-> {}]

Init ==
  /\ draft = [d \in Draft |-> [state |-> "draft", has |-> {}, track |-> FALSE]]
  /\ attempt = [d \in Draft |-> NoTry] /\ aged = {} /\ job = [d \in Draft |-> "none"]
  /\ song = NoSong /\ granted = TRUE /\ key = 1 /\ work = Resting /\ ingest = Unoccupied
  /\ orders = 0 /\ deaths = 0

Orders == orders < MaxOrders /\ orders' = orders + 1 /\ UNCHANGED <<work, ingest, deaths>>
Breaks == deaths < MaxDeaths /\ deaths' = deaths + 1 /\ UNCHANGED orders
Sound  == UNCHANGED <<orders, deaths>>

----------------------------------------------------------------------------
(* BROWSERS *)

Busy(d) == attempt[d].status \in Active
Possible(d, action) ==
  CASE action = "voice" -> TRUE
    [] action = "render" -> "voice" \in draft[d].has
    [] action = "save" -> "render" \in draft[d].has
(* The row of the draft is locked; what an older page sends is refused.     *)
Enqueue(d, action) ==
  /\ granted /\ draft[d].state = "draft" /\ ~Busy(d) /\ Possible(d, action) /\ Orders
  /\ attempt' = [attempt EXCEPT ![d] = [status |-> "pending", action |-> action, key |-> key, calls |-> 0]]
  /\ aged' = aged \ {d} /\ UNCHANGED <<draft, job, song, granted, key>>
(* Without an order of the administrator, whom nobody can revoke.           *)
Delete(d) ==
  /\ granted /\ draft[d].state \notin {"ingesting", "deleted"} /\ ~Busy(d) /\ Orders
  /\ draft[d].track => (draft[d].state = "saved" /\ song.there /\ ~song.deleted)
  /\ draft' = [draft EXCEPT ![d].state = "deleted"]
  /\ song' = IF draft[d].track THEN [song EXCEPT !.deleted = TRUE, !.on = FALSE, !.retired = TRUE] ELSE song
  /\ aged' = aged \ {d} /\ UNCHANGED <<attempt, job, granted, key>>
Grant(may) == granted # may /\ granted' = may /\ Orders /\ UNCHANGED <<rows, song, key>>
SaveCredential == key' = key + 1 /\ Orders /\ UNCHANGED <<rows, song, granted>>
Library(changed) == song.there /\ ~song.deleted /\ Orders /\ song' = changed /\ UNCHANGED <<rows, granted, key>>
Decommission == ~song.retired /\ Library([song EXCEPT !.retired = TRUE, !.on = FALSE])
DeleteSong   == Library([song EXCEPT !.deleted = TRUE, !.on = FALSE, !.retired = TRUE])

----------------------------------------------------------------------------
(* THE PRODUCTION WORKER *)

Doing(pc, d) == work.pc = pc /\ work.of = d
Goes(pc, d)  == work' = [work EXCEPT !.pc = pc, !.of = d]
Outside      == UNCHANGED <<granted, key, ingest>>

Ended(d)   == job[d] \in {"error", "rejected"}
Brought(d) == job[d] \in {"accepted", "duplicate"}
Owned(d)   == song.there /\ draft[d].track /\ ~song.deleted
Enables(d) == draft[d].state = "ingesting" /\ Brought(d) /\ Owned(d) /\ granted /\ song.state = "complete"
Reconciled(d) ==
  IF draft[d].state # "ingesting" THEN draft[d].state
  ELSE IF Ended(d) \/ (Brought(d) /\ ~Owned(d)) THEN "draft"
  ELSE IF Brought(d) /\ (~granted \/ song.state \in {"complete", "failed"}) THEN "saved"
  ELSE "ingesting"
(* One transaction for all drafts.  A decommissioned song cannot be enabled, *)
(* and that is no error of permission: then the whole pass ends here.        *)
Reconcile ==
  /\ work.pc = "reconcile" /\ Goes("look", "none")
  /\ ~(song.retired /\ \E d \in Draft : Enables(d))
  /\ draft' = [d \in Draft |-> [draft[d] EXCEPT !.state = Reconciled(d)]]
  /\ aged' = {d \in aged : draft[d].state # "ingesting"}
  /\ song' = IF \E d \in Draft : Enables(d) THEN [song EXCEPT !.on = TRUE] ELSE song
  /\ UNCHANGED <<attempt, job>> /\ Outside /\ Sound

Gone(d) == draft[d].state = "saved" /\ (~song.there \/ ~draft[d].track \/ song.deleted)
CleanUpReads ==
  /\ work.pc = "look" /\ (aged # {} \/ \E d \in Draft : Gone(d))
  /\ work' = [pc |-> "clean", of |-> "none", old |-> {d \in aged : draft[d].state = "draft" /\ ~Busy(d)}]
  /\ UNCHANGED <<rows, song>> /\ Outside /\ Sound
CleanUpCommits ==
  /\ work.pc = "clean" /\ work' = [Resting EXCEPT !.pc = "claim"]
  /\ draft' = [d \in Draft |->
       IF d \in work.old THEN [draft[d] EXCEPT !.state = "expired", !.has = {}]
       ELSE IF Gone(d) THEN [draft[d] EXCEPT !.state = "deleted", !.has = {}] ELSE draft[d]]
  /\ UNCHANGED <<attempt, aged, job, song>> /\ Outside /\ Sound

Claim(d) ==
  /\ work.pc \in {"look", "claim"} /\ attempt[d].status = "pending" /\ Goes("check", d)
  /\ attempt' = [attempt EXCEPT ![d].status = "running"] /\ UNCHANGED <<draft, aged, job, song>> /\ Outside /\ Sound
NoClaim ==
  /\ work.pc \in {"look", "claim"} /\ (\A d \in Draft : attempt[d].status # "pending") /\ work' = Resting
  /\ UNCHANGED <<rows, song>> /\ Outside /\ Sound
Current(d) == granted /\ (attempt[d].action = "voice" => attempt[d].key = key)
Begins(d) ==
  /\ Doing("check", d) /\ Current(d) /\ Goes("result", d)
  /\ attempt' = [attempt EXCEPT ![d].calls = IF attempt[d].action = "voice" THEN @ + 1 ELSE @]
  /\ UNCHANGED <<draft, aged, job, song>> /\ Outside /\ Sound
(* What is paid for comes late: whoever ordered it is looked up again.      *)
Taken(d) == song.there /\ (~draft[d].track \/ song.deleted)
Result(d) ==
  LET row == draft[d] IN
  CASE attempt[d].action = "voice"  -> [row EXCEPT !.has = {"voice"}]
    [] attempt[d].action = "render" -> [row EXCEPT !.has = @ \cup {"render"}]
    [] attempt[d].action = "save"   -> [row EXCEPT !.state = "ingesting"]
Complete(d) ==
  /\ Doing("result", d) /\ work' = Resting
  /\ draft' = [draft EXCEPT ![d] = Result(d)] /\ attempt' = [attempt EXCEPT ![d].status = "complete"]
  /\ job' = IF attempt[d].action = "save" THEN [job EXCEPT ![d] = "pending"] ELSE job
  /\ aged' = aged \ {d} /\ UNCHANGED song /\ Outside /\ Sound
(* Mutant: only what was true before the provider was called counts.        *)
PublishEarly(d) == (attempt[d].action = "save" => ~Taken(d)) /\ Complete(d)
Publish(d) == Current(d) /\ (attempt[d].action = "save" => ~Taken(d)) /\ Complete(d)
AttemptFails(d) ==
  /\ (Doing("check", d) \/ Doing("result", d)) /\ work' = Resting
  /\ attempt' = [attempt EXCEPT ![d].status = "failed"] /\ aged' = aged \ {d} /\ UNCHANGED <<draft, job, song>> /\ Outside
  /\ IF Current(d) /\ (attempt[d].action = "save" => ~Taken(d)) THEN Breaks ELSE Sound

(* Mutant: what was in work is tried again, as the ingest queue does.       *)
TakenUp(d) == IF attempt[d].status = "running" THEN [attempt[d] EXCEPT !.status = "pending"] ELSE attempt[d]
(* Mutant: a worker that starts looks at what is pending only.              *)
LeftRunning(d) == attempt[d]
Interrupted(d) == IF attempt[d].status = "running" THEN [attempt[d] EXCEPT !.status = "failed"] ELSE attempt[d]
WorkerDies ==
  /\ work # Resting /\ Breaks /\ work' = Resting /\ attempt' = [d \in Draft |-> Interrupted(d)]
  /\ UNCHANGED <<draft, aged, job, song>> /\ Outside

----------------------------------------------------------------------------
(* THE INGEST WORKER, AND TIME *)

Ingesting == UNCHANGED <<attempt, aged, granted, key, work>>
IngestClaims(d) ==
  /\ ingest = Unoccupied /\ job[d] = "pending" /\ ingest' = [of |-> d, in |-> FALSE]
  /\ job' = [job EXCEPT ![d] = "processing"] /\ UNCHANGED <<draft, song>> /\ Ingesting /\ Sound
Holds(d, in) == ingest = [of |-> d, in |-> in]
Finishes(d, outcome) == ingest' = Unoccupied /\ job' = [job EXCEPT ![d] = outcome] /\ Ingesting
MayIngest(d) == draft[d].state = "ingesting" /\ granted
(* The row of the song and the draft's claim to it are one commit.          *)
IngestCommits(d) ==
  /\ Holds(d, FALSE) /\ MayIngest(d) /\ ~song.there /\ ingest' = [of |-> d, in |-> TRUE]
  /\ song' = [NoSong EXCEPT !.there = TRUE] /\ draft' = [draft EXCEPT ![d].track = TRUE]
  /\ UNCHANGED job /\ Ingesting /\ Sound
(* Mutant: what the catalog has already is the draft's as well.             *)
IngestAdopts(d) ==
  /\ Holds(d, FALSE) /\ MayIngest(d) /\ song.there /\ Finishes(d, "duplicate")
  /\ draft' = [draft EXCEPT ![d].track = TRUE] /\ UNCHANGED song /\ Sound
IngestReuses(d) ==
  /\ Holds(d, FALSE) /\ MayIngest(d) /\ song.there /\ draft[d].track /\ Finishes(d, "duplicate")
  /\ UNCHANGED <<draft, song>> /\ Sound
IngestSettles(d) == Holds(d, TRUE) /\ Finishes(d, "accepted") /\ UNCHANGED <<draft, song>> /\ Sound
IngestFails(d, outcome) ==
  /\ ingest.of = d /\ Finishes(d, outcome) /\ UNCHANGED <<draft, song>>
  /\ IF ingest.in \/ (MayIngest(d) /\ (song.there => draft[d].track)) THEN Breaks ELSE Sound
IngestDies ==
  /\ ingest # Unoccupied /\ Breaks /\ ingest' = Unoccupied /\ job' = [job EXCEPT ![ingest.of] = "pending"]
  /\ UNCHANGED <<draft, song>> /\ Ingesting
Analyses(outcome) ==
  /\ song.there /\ ~song.deleted /\ ~song.retired /\ song.state = "pending" /\ song' = [song EXCEPT !.state = outcome]
  /\ UNCHANGED <<draft, job, ingest>> /\ Ingesting /\ Sound
Erases ==
  /\ song.there /\ song.deleted /\ ingest = Unoccupied /\ song' = NoSong
  /\ draft' = [d \in Draft |-> [draft[d] EXCEPT !.track = FALSE]] /\ UNCHANGED <<job, ingest>> /\ Ingesting /\ Sound
WeekPasses(d) ==
  /\ d \notin aged /\ draft[d].state = "draft" /\ ~Busy(d) /\ aged' = aged \cup {d} /\ Orders
  /\ UNCHANGED <<draft, attempt, job, song, granted, key>>

Worker ==
  \/ Reconcile \/ CleanUpReads \/ CleanUpCommits \/ NoClaim
  \/ \E d \in Draft : Claim(d) \/ Begins(d) \/ Publish(d) \/ AttemptFails(d)
Ingest ==
  \/ Erases \/ \E outcome \in {"complete", "failed"} : Analyses(outcome)
  \/ \E d \in Draft :
       \/ IngestClaims(d) \/ IngestCommits(d) \/ IngestReuses(d) \/ IngestSettles(d)
       \/ \E outcome \in {"rejected", "error"} : IngestFails(d, outcome)
Browser ==
  \/ SaveCredential \/ Decommission \/ DeleteSong \/ (\E may \in BOOLEAN : Grant(may))
  \/ \E d \in Draft : Delete(d) \/ WeekPasses(d) \/ \E action \in Action : Enqueue(d, action)
Next == Worker \/ Ingest \/ Browser \/ WorkerDies \/ IngestDies
Spec == Init /\ [][Next]_productionVars
FairSpec == Spec /\ WF_productionVars(Worker) /\ WF_productionVars(Ingest)

----------------------------------------------------------------------------
(* PROPERTIES *)

TypeOK ==
  /\ \A d \in Draft : /\ draft[d].state \in {"draft", "ingesting", "saved", "deleted", "expired"}
                      /\ draft[d].has \subseteq {"voice", "render"} /\ attempt[d].key \in 0..key
  /\ aged \subseteq Draft /\ work.of \in Draft \cup {"none"} /\ ingest.of \in Draft \cup {"none"}

(* An attempt pays the provider at most once, whatever dies in between.     *)
PaidOnce == \A d \in Draft : attempt[d].calls <= 1

(* A take belongs to the draft that brought it in, and to no other.         *)
OneOwner == \A d, e \in Draft : draft[d].track /\ draft[e].track => d = e

(* Neither a result nor the song is published for a producer whose access   *)
(* was withdrawn, or with a credential that was replaced, in the meantime.  *)
PublishedWhilePermitted ==
  [][/\ \A d \in Draft : (attempt[d].status = "running" /\ attempt'[d].status = "complete") => Current(d)
     /\ (~song.on /\ song'.on) => granted]_productionVars

(* Whatever is ordered ends, and so does the saving of a draft: unless its  *)
(* song was decommissioned before it could be enabled.                      *)
Unended ==
  IF song.retired THEN {}
  ELSE {<<"order", d>> : d \in {e \in Draft : attempt[e].status \in Active}}
         \cup {<<"ingest", d>> : d \in {e \in Draft : draft[e].state = "ingesting"}}
ProductionEnds == \A k \in {"order", "ingest"} \X Draft : (k \in Unended) ~> (k \notin Unended)

(* Without that proviso: the queue is durable and isolated from the ingest. *)
QueueGoesOn == \A d \in Draft : (attempt[d].status \in Active) ~> (attempt[d].status \notin Active)
=============================================================================

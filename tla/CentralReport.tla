--------------------------- MODULE CentralReport ---------------------------
(***************************************************************************)
(* What the reporter tells the Central API of one channel: its metadata     *)
(* (sync_metadata), the hours it has observed (sample, report) and the song *)
(* that plays (now_playing.fast_tick).  The reporter is one process; the    *)
(* web changes the channel's row at any moment, every request or answer     *)
(* may be lost, the process may die and the clock may be set back.          *)
(***************************************************************************)
EXTENDS Naturals, FiniteSets

CONSTANTS
  Extended,   \* the contract of the server, as detect_contract found it
  Life,       \* channel_lifecycle: what the page may make of the channel
  Hour, Gap,  \* an hour, and the longest usable interval, in ticks of the clock
  MaxTime, MaxEdits, MaxReportFaults   \* bounds

VARIABLES
  time,        \* the clock; what the pass of the reporter read of it
  channel,          \* Station: directory_opt_in, lifecycle_state
  synced,           \* CentralStationState.synced_digest
  last, hours,      \* last_sample; CentralHourlyMetric by hour
  api,              \* what the server holds: metadata, metrics by hour, a live song
  pc, then, wire,   \* the reporter; what follows its sync; the request under way
  reconcile,        \* a day has passed since the last full reconciliation
  unsure,           \* history: the server took metadata and its answer was lost
  witnessed,        \* history: the ticks between two samples that saw the stream
  edits, failed     \* bounds

vars == <<time, channel, synced, last, hours, api, pc, then, wire, reconcile, unsure,
          witnessed, edits, failed>>

Ticks  == 0..MaxTime
Period == 0..(MaxTime \div Hour)
HourOf(t) == (t - 1) \div Hour    \* of the interval from t - 1 to t
NoMeta == [opt |-> FALSE, life |-> "unknown"]
NoRow  == [there |-> FALSE, observed |-> 0, until |-> 0, peak |-> FALSE, sent |-> FALSE]
Nothing == [kind |-> "none"]
Metric == [period: Period, observed: 0..Hour, peak: BOOLEAN]
Meta   == [opt: BOOLEAN, life: Life \cup {"unknown", "unsaid"}]

(* metadata: a channel on its way out is never listed.                      *)
Payload == [opt |-> channel.opt /\ channel.life = "active",
            life |-> IF Extended THEN channel.life ELSE "unsaid"]

Init ==
  /\ time = 1 /\ channel = [opt |-> TRUE, life |-> "active"] /\ synced = NoMeta
  /\ last = [at |-> 0, known |-> FALSE] /\ hours = [h \in Period |-> NoRow]
  /\ api = [meta |-> NoMeta, held |-> {}, song |-> FALSE] /\ pc = "idle" /\ then = "none"
  /\ wire = Nothing /\ reconcile = FALSE /\ unsure = FALSE /\ witnessed = {} /\ edits = 0 /\ failed = 0

bounds == <<edits, failed>>
memory == <<synced, last, hours, reconcile>>

----------------------------------------------------------------------------
(* THE WORLD.  A pass of the reporter reads the clock, and whether a full    *)
(* reconciliation is due, once: they move between passes.                   *)

Clock == pc = "idle" /\ time < MaxTime /\ time' = time + 1
         /\ UNCHANGED <<channel, memory, api, pc, then, wire, unsure, witnessed, bounds>>
SetBack == pc = "idle" /\ time > 1 /\ failed < MaxReportFaults /\ time' = time - 1 /\ failed' = failed + 1
           /\ UNCHANGED <<channel, memory, api, pc, then, wire, unsure, witnessed, edits>>
DayPasses == pc = "idle" /\ ~reconcile /\ Extended /\ reconcile' = TRUE
             /\ UNCHANGED <<time, channel, synced, last, hours, api, pc, then, wire, unsure,
                            witnessed, bounds>>

(* The settings of the channel, and its deletion.                           *)
Edit(opt, life) ==
  /\ edits < MaxEdits /\ edits' = edits + 1 /\ [opt |-> opt, life |-> life] # channel
  /\ channel.life = "deleted" => life = "deleted"
  /\ channel' = [opt |-> opt, life |-> life]
  /\ UNCHANGED <<time, memory, api, pc, then, wire, unsure, witnessed, failed>>
Edits == \E opt \in BOOLEAN, life \in Life : Edit(opt, life)

----------------------------------------------------------------------------
(* SAMPLES *)

(* The interval since the last sample, if both ends saw the stream and it   *)
(* is short enough: nothing is extrapolated.                                *)
Interval(known) ==
  IF known /\ last.known /\ time > last.at /\ time - last.at <= Gap THEN last.at + 1..time ELSE {}

(* One hour of the sample: frozen once sent, and no second counted twice.   *)
Counted(h, known) ==
  LET row   == hours[h]
      ticks == {t \in Interval(known) : HourOf(t) = h /\ t > row.until}
      here  == h = time \div Hour
  IN  IF row.sent \/ (ticks = {} /\ ~here) THEN row
      ELSE [row EXCEPT !.there = TRUE, !.observed = @ + Cardinality(ticks),
                       !.until = IF ticks = {} THEN @ ELSE CHOOSE t \in ticks : \A u \in ticks : u <= t,
                       !.peak = @ \/ ticks # {} \/ (here /\ known)]

Later(a, b) == IF a > b THEN a ELSE b
Sample(known) ==
  IF channel.life # "active"
  THEN last' = [at |-> Later(time, last.at), known |-> FALSE] /\ UNCHANGED <<hours, witnessed>>
  ELSE IF time <= last.at
  THEN last' = (IF known THEN last ELSE [last EXCEPT !.known = FALSE]) /\ UNCHANGED <<hours, witnessed>>
  ELSE /\ last' = [at |-> time, known |-> known]
       /\ hours' = [h \in Period |-> Counted(h, known)]
       /\ witnessed' = IF known /\ last.known /\ time - last.at <= Gap
                       THEN witnessed \cup (last.at + 1..time) ELSE witnessed

(* Reporter.tick samples first; the report follows when it is due.          *)
Tick(known, due) ==
  /\ pc = "idle" /\ Sample(known)
  /\ pc' = (IF due THEN "sync" ELSE "idle") /\ then' = (IF due THEN "report" ELSE "none")
  /\ UNCHANGED <<time, channel, synced, api, wire, reconcile, unsure, bounds>>
FastTick ==
  /\ pc = "idle" /\ pc' = "sync" /\ then' = "play"
  /\ UNCHANGED <<time, channel, memory, api, wire, unsure, witnessed, bounds>>

----------------------------------------------------------------------------
(* METADATA *)

Goto(next, request) == pc' = next /\ wire' = request
Told   == [kind |-> "sync", meta |-> Payload]
Known  == IF reconcile THEN NoMeta ELSE synced
Dirty  == (Extended \/ channel.life = "active") /\ Known # Payload
SendSync ==
  /\ pc = "sync" /\ Dirty /\ Goto("sent", Told) /\ synced' = Known /\ reconcile' = FALSE
  /\ UNCHANGED <<time, channel, last, hours, api, then, unsure, witnessed, bounds>>
NoSync ==
  /\ pc = "sync" /\ ~Dirty /\ Goto(then, Nothing) /\ synced' = Known /\ reconcile' = FALSE
  /\ UNCHANGED <<time, channel, last, hours, api, then, unsure, witnessed, bounds>>

----------------------------------------------------------------------------
(* THE HOURS *)

(* Complete hours that were not acknowledged; the old contract has no word  *)
(* for an hour in which nothing was observed.                               *)
Complete(h) == h < time \div Hour
Due(h) == hours[h].there /\ ~hours[h].sent /\ Complete(h) /\ (Extended \/ hours[h].observed > 0)
Wired(h) == [period |-> h, observed |-> hours[h].observed, peak |-> hours[h].peak]
SendReport ==
  /\ pc = "report" /\ synced # NoMeta
  /\ Goto("sent", [kind |-> "report", metrics |-> {Wired(h) : h \in {p \in Period : Due(p)}}])
  /\ UNCHANGED <<time, channel, memory, api, then, unsure, witnessed, bounds>>
ReportAlone ==   \* an installation-only heartbeat
  /\ pc = "report" /\ synced = NoMeta /\ Goto("idle", Nothing)
  /\ UNCHANGED <<time, channel, memory, api, then, unsure, witnessed, bounds>>

----------------------------------------------------------------------------
(* THE SONG *)

Listed == channel.opt /\ channel.life = "active" /\ synced = Payload
Choose ==
  /\ pc = "play" /\ Goto(IF Listed THEN "resample" ELSE "idle", Nothing)
  /\ UNCHANGED <<time, channel, memory, api, then, unsure, witnessed, bounds>>
(* Earlier batches may have waited on the network: the row is read again.   *)
Resample ==
  /\ pc = "resample"
  /\ IF Listed THEN Goto("sent", [kind |-> "song", listed |-> Payload.opt])
     ELSE Goto("idle", Nothing)
  /\ UNCHANGED <<time, channel, memory, api, then, unsure, witnessed, bounds>>

----------------------------------------------------------------------------
(* THE SERVER.  Metrics replace what it holds of an hour; a song is taken   *)
(* only of a channel it knows as listed.                                    *)

Reply(next) == pc' = next /\ UNCHANGED <<time, channel, memory, then, wire, witnessed, bounds>>
TakesSync ==
  /\ pc = "sent" /\ wire.kind = "sync" /\ Reply("answered") /\ unsure' = TRUE
  /\ api' = [api EXCEPT !.meta = wire.meta, !.song = @ /\ wire.meta.opt]
TakesReport ==
  /\ pc = "sent" /\ wire.kind = "report" /\ UNCHANGED unsure
  /\ IF api.meta = NoMeta THEN Reply("refused") /\ UNCHANGED api
     ELSE /\ Reply("answered")
          /\ api' = [api EXCEPT !.held = {m \in @ : \A n \in wire.metrics : n.period # m.period}
                                          \cup wire.metrics]
TakesSong ==
  /\ pc = "sent" /\ wire.kind = "song" /\ UNCHANGED unsure
  /\ IF api.meta.opt THEN Reply("answered") /\ api' = [api EXCEPT !.song = TRUE]
     ELSE Reply("refused") /\ UNCHANGED api

(* The acknowledgement is of what was sent, whatever the row says by now.   *)
AcknowledgedNow == Payload
Acknowledged == wire.meta
SyncAccepted ==
  /\ pc = "answered" /\ wire.kind = "sync" /\ synced' = Acknowledged /\ unsure' = FALSE
  /\ Goto(then, Nothing)
  /\ UNCHANGED <<time, channel, last, hours, api, then, reconcile, witnessed, bounds>>
ReportAccepted ==
  /\ pc = "answered" /\ wire.kind = "report" /\ Goto("idle", Nothing)
  /\ hours' = [h \in Period |-> IF \E m \in wire.metrics : m.period = h
                               THEN [hours[h] EXCEPT !.sent = TRUE] ELSE hours[h]]
  /\ UNCHANGED <<time, channel, synced, last, api, then, reconcile, unsure, witnessed, bounds>>
SongAccepted ==
  /\ pc = "answered" /\ wire.kind = "song" /\ Goto("idle", Nothing)
  /\ UNCHANGED <<time, channel, memory, api, then, unsure, witnessed, bounds>>
(* station_not_synced, directory_not_enabled: sync before the next retry.   *)
Refused ==
  /\ pc = "refused" /\ synced' = NoMeta /\ Goto("idle", Nothing)
  /\ UNCHANGED <<time, channel, last, hours, api, then, reconcile, unsure, witnessed, bounds>>

(* A request or an answer is lost: nothing is recorded, all is retried.     *)
Fails ==
  /\ pc \in {"sent", "answered"} /\ failed < MaxReportFaults /\ failed' = failed + 1 /\ Goto("idle", Nothing)
  /\ UNCHANGED <<time, channel, memory, api, then, unsure, witnessed, edits>>
(* The reporter dies before it records anything of the request under way.   *)
Dies ==
  /\ pc # "idle" /\ failed < MaxReportFaults /\ failed' = failed + 1 /\ Goto("idle", Nothing)
  /\ then' = "none"
  /\ UNCHANGED <<time, channel, memory, api, unsure, witnessed, edits>>

Reports == SendSync \/ NoSync \/ SendReport \/ ReportAlone \/ Choose \/ Resample
           \/ SyncAccepted \/ ReportAccepted \/ SongAccepted \/ Refused
Takes   == TakesSync \/ TakesReport \/ TakesSong
Ticking == \E known, due \in BOOLEAN : Tick(known, due)
Next == Clock \/ SetBack \/ DayPasses \/ Edits \/ Ticking \/ FastTick \/ Reports \/ Takes \/ Fails \/ Dies

Spec == Init /\ [][Next]_vars
(* The process restarts and loops, requests are answered or time out, and   *)
(* a day passes.                                                            *)
Rounds == FastTick \/ \E known \in BOOLEAN : Tick(known, TRUE)
Fairness == WF_vars(Reports \/ Rounds) /\ WF_vars(Takes) /\ WF_vars(DayPasses)
FairSpec == Spec /\ Fairness

----------------------------------------------------------------------------
(* Properties. *)

(* The type invariant. *)
TypeOK ==
  /\ time \in 1..MaxTime /\ channel \in [opt: BOOLEAN, life: Life]
  /\ synced \in Meta /\ last \in [at: Ticks, known: BOOLEAN]
  /\ hours \in [Period -> [there: BOOLEAN, observed: 0..Hour, until: Ticks, peak: BOOLEAN, sent: BOOLEAN]]
  /\ api.meta \in Meta /\ api.held \subseteq Metric /\ api.song \in BOOLEAN
  /\ pc \in {"idle", "sync", "report", "play", "resample", "sent", "answered", "refused"}
  /\ then \in {"none", "report", "play"} /\ {reconcile, unsure} \subseteq BOOLEAN
  /\ wire.kind \in {"none", "sync", "report", "song"} /\ witnessed \subseteq Ticks
  /\ edits \in 0..MaxEdits /\ failed \in 0..MaxReportFaults

(* "Server upserts replace each station/hour, so an uncertain acknowledge-  *)
(* ment is safe to retry": an hour that is closed here is held there with   *)
(* the same numbers, and stays so.                                          *)
HourIsHeld == \A h \in Period : hours[h].sent => Wired(h) \in api.held

(* "No interval is extrapolated through a failed observation or a long gap":*)
(* no hour claims more than was seen of it, with a clock that is set back.  *)
OnlyWitnessed == \A h \in Period :
  hours[h].observed <= Cardinality({t \in witnessed : HourOf(t) = h})

(* What counts as synchronised is what the server holds, unless an answer   *)
(* was lost, whoever edits the channel while its metadata are under way.    *)
SyncedIsHeld == synced # NoMeta /\ ~unsure => api.meta = synced

(* "a withdrawal is retried if the API is unavailable": a channel that is   *)
(* not to be listed does not stay listed.                                   *)
Withdrawn == ~Payload.opt /\ api.meta.opt
WithdrawalArrives == Withdrawn ~> ~Withdrawn

=============================================================================

--------------------------- MODULE ServicesProofs ---------------------------
(***************************************************************************)
(* The theorems of the components that MCServices checks side by side, as   *)
(* theorems of MCServices: a step of the component that runs preserves what *)
(* its own proof preserves, and the others stand still.                     *)
(***************************************************************************)
EXTENDS MCServices, FiniteSetTheorems, WellFoundedInduction, TLAPS

(* Steps of the components proved here, of one that runs or of none.        *)
Others == StationsNext \/ MediaNext \/ ProductionNext \/ BulletinNext \/ CentralNext \/ LookaheadNext

LEMMA Stuttering ==
  ASSUME UNCHANGED vars
  PROVE  UNCHANGED <<part, Report!vars, Switch!switchVars, Upgrades!maintVars, central, media, production, stations>>
<1>1. UNCHANGED <<part, report, switch, upgrades, central, media, production, stations>>
  BY DEF vars
<1>2. UNCHANGED Report!vars
  BY <1>1 DEF report, Report!vars
<1>3. UNCHANGED Switch!switchVars
  BY <1>1 DEF switch, Switch!switchVars
<1>4. UNCHANGED Upgrades!maintVars
  BY <1>1 DEF upgrades, Upgrades!maintVars, Upgrades!installed, Upgrades!backups, Upgrades!process, Upgrades!units,
              Upgrades!bounds
<1> QED
  BY <1>1, <1>2, <1>3, <1>4

LEMMA OnePartMoves ==
  ASSUME Others
  PROVE  part' = part /\ part \notin {"report", "switch", "upgrades"}
BY DEF Others, StationsNext, MediaNext, ProductionNext, BulletinNext, CentralNext, LookaheadNext

----------------------------------------------------------------------------
(* THE REPORT TO THE CENTRAL SERVER, for either contract, any hour and gap, *)
(* any number of edits of the channel, lost requests and clocks set back.   *)

(* Report: the last tick of a finite set of ticks.                          *)

Below == {p \in Nat \X Nat : p[1] < p[2]}

LEMMA BelowWellFounded == IsWellFoundedOn(Below, Nat)
BY NatLessThanWellFounded DEF OpToRel, Below

LEMMA SameSize == ASSUME NEW S PROVE Report!Cardinality(S) = Cardinality(S)
BY DEF Report!Cardinality, Cardinality

LEMMA LastTick ==
  ASSUME NEW S \in SUBSET Nat, S # {}, NEW n \in Nat, \A s \in S : s <= n
  PROVE  \E m \in S : \A s \in S : s <= m
<1> DEFINE T == {n - s : s \in S}
<1>1. T \in SUBSET Nat
  OBVIOUS
<1>2. T # {}
  <2>1. PICK s \in S : TRUE
    OBVIOUS
  <2>2. n - s \in T
    BY <2>1
  <2> QED
    BY <2>2
<1>3. PICK x \in T : \A y \in T : ~(<<y, x>> \in Below)
  <2> HIDE DEF T
  <2> QED
    BY <1>1, <1>2, BelowWellFounded, WFMin, Zenon
<1>4. PICK m \in S : x = n - m
  BY <1>3
<1>5. ASSUME NEW s \in S PROVE s <= m
  <2>1. n - s \in T /\ x \in Nat /\ n - s \in Nat
    BY <1>1, <1>3
  <2>2. ~(n - s < x)
    BY <2>1, <1>3 DEF Below
  <2> QED
    BY <2>1, <2>2, <1>4
<1> QED
  BY <1>5

----------------------------------------------------------------------------
(* Report: THE INVARIANT *)

(* The types that the numbers rest on. *)
HourRow == [there: BOOLEAN, observed: Nat, until: Nat, peak: BOOLEAN, sent: BOOLEAN]
ReportTyped ==
  /\ report_time \in Nat /\ witnessed \in SUBSET Nat /\ IsFiniteSet(witnessed)
  /\ last \in [at: Nat, known: BOOLEAN]
  /\ hours \in [Report!Period -> HourRow]
  /\ DOMAIN api = {"meta", "held", "song"}

(* While a request is under way nothing is sampled: what it says of an hour *)
(* is what the table says, and once it is answered the server has it.       *)
WireIsTrue == report_pc \in {"sent", "answered"} /\ wire.kind = "report" =>
  \A m \in wire.metrics : m.period \in Report!Period /\ m = Report!Wired(m.period)
AnsweredIsHeld == report_pc = "answered" =>
  /\ wire.kind = "report" => wire.metrics \subseteq api.held
  /\ wire.kind = "sync"   => unsure /\ api.meta = wire.meta

(* The ticks an hour has counted lie before "until", so that a tick that is *)
(* still to be counted is another one.                                      *)
SeenOf(h) == {t \in witnessed : Report!HourOf(t) = h /\ t <= hours[h].until}
CountsInv == \A h \in Report!Period : hours[h].observed <= Cardinality(SeenOf(h))

ReportInv == ReportTyped /\ WireIsTrue /\ AnsweredIsHeld /\ Report!HourIsHeld /\ Report!SyncedIsHeld /\ CountsInv

LEMMA ReportBegins == Report!Init => ReportInv
<1> SUFFICES ASSUME Report!Init PROVE ReportInv
  OBVIOUS
<1> USE DEF Report!Init, Report!NoRow, Report!NoMeta, Report!Nothing
<1>1. ReportTyped
  BY FS_EmptySet DEF ReportTyped, HourRow
<1>2. WireIsTrue /\ AnsweredIsHeld /\ Report!HourIsHeld /\ Report!SyncedIsHeld
  BY DEF WireIsTrue, AnsweredIsHeld, Report!HourIsHeld, Report!SyncedIsHeld
<1>3. CountsInv
  <2> SUFFICES ASSUME NEW h \in Report!Period PROVE hours[h].observed <= Cardinality(SeenOf(h))
    BY DEF CountsInv
  <2>1. SeenOf(h) = {} /\ hours[h].observed = 0
    BY DEF SeenOf
  <2> QED
    BY <2>1, FS_EmptySet
<1> QED
  BY <1>1, <1>2, <1>3 DEF ReportInv

----------------------------------------------------------------------------
(* Report: SAMPLES *)

(* What a sample adds to an hour was witnessed, and was not counted before. *)
LEMMA CountedOnce ==
  ASSUME ReportTyped, NEW sighted \in BOOLEAN, NEW h \in Report!Period, NEW W \in SUBSET Nat, IsFiniteSet(W),
         Report!Interval(sighted) \subseteq W, witnessed \subseteq W,
         hours[h].observed <= Cardinality(SeenOf(h)), Report!Counted(h, sighted) # hours[h],
         NEW line, line = Report!Counted(h, sighted)
  PROVE  line.observed <= Cardinality({t \in W : Report!HourOf(t) = h /\ t <= line.until})
<1> DEFINE ticks == {t \in Report!Interval(sighted) : Report!HourOf(t) = h /\ t > hours[h].until}
           new   == {t \in W : Report!HourOf(t) = h /\ t <= line.until}
<1>1. ticks \in SUBSET Nat /\ (\A t \in ticks : t <= report_time) /\ IsFiniteSet(ticks)
  <2>1. ticks \subseteq W /\ ticks \in SUBSET Nat
    OBVIOUS
  <2>2. \A t \in ticks : t <= report_time
    BY DEF Report!Interval, ReportTyped
  <2> QED
    BY <2>1, <2>2, FS_Subset
<1>2. SeenOf(h) \in SUBSET W /\ IsFiniteSet(SeenOf(h)) /\ IsFiniteSet(new)
  BY FS_Subset DEF SeenOf
<1>3. Cardinality(SeenOf(h)) \in Nat /\ Cardinality(ticks) \in Nat /\ Cardinality(new) \in Nat
  BY <1>1, <1>2, FS_CardinalityType
<1>4. line.observed = hours[h].observed + Cardinality(ticks)
      /\ line.until = IF ticks = {} THEN hours[h].until ELSE CHOOSE t \in ticks : \A u \in ticks : u <= t
  <2> DEFINE upto == IF ticks = {} THEN hours[h].until ELSE CHOOSE t \in ticks : \A u \in ticks : u <= t
             high == hours[h].peak \/ ticks # {} \/ (h = report_time \div Hour /\ sighted)
  <2>1. line = [hours[h] EXCEPT !.there = TRUE, !.observed = @ + Report!Cardinality(ticks),
                               !.until = upto, !.peak = high]
    BY Zenon DEF Report!Counted
  <2>2. hours[h] \in HourRow
    BY DEF ReportTyped, HourRow
  <2> HIDE DEF ticks, upto, high
  <2>3. line.observed = hours[h].observed + Cardinality(ticks) /\ line.until = upto
    BY <2>1, <2>2, SameSize DEF HourRow
  <2> QED
    BY <2>3 DEF upto
<1>5. CASE ticks = {}
  <2>1. SeenOf(h) \in SUBSET new
    BY <1>4, <1>5 DEF SeenOf
  <2>2. Cardinality(SeenOf(h)) <= Cardinality(new)
    BY <2>1, <1>2, FS_Subset
  <2>3. Cardinality(ticks) = 0
    BY <1>5, FS_EmptySet
  <2>4. hours[h].observed \in Nat
    BY DEF ReportTyped, HourRow
  <2> HIDE DEF ticks, new
  <2>5. line.observed <= Cardinality(new)
    BY <2>2, <2>3, <2>4, <1>3, <1>4
  <2> QED
    BY <2>5 DEF new
<1>6. CASE ticks # {}
  <2>1. \E t \in ticks : \A u \in ticks : u <= t
    <3> HIDE DEF ticks
    <3>1. report_time \in Nat
      BY DEF ReportTyped, HourRow
    <3> QED
      BY <3>1, <1>1, <1>6, LastTick
  <2>2. line.until \in ticks /\ \A u \in ticks : u <= line.until
    <3> HIDE DEF ticks
    <3> QED
      BY <2>1, <1>4, <1>6
  <2>3. line.until \in Nat /\ hours[h].until \in Nat /\ line.until > hours[h].until
    BY <2>2, <1>1 DEF ReportTyped, HourRow
  <2>4. SeenOf(h) \cup ticks \subseteq new
    <3>1. SeenOf(h) \subseteq new
      <4> SUFFICES ASSUME NEW t \in SeenOf(h) PROVE t \in new
        OBVIOUS
      <4>1. t \in W /\ t \in Nat /\ Report!HourOf(t) = h /\ t <= hours[h].until
        BY DEF SeenOf
      <4>2. t <= line.until
        BY <4>1, <2>3
      <4> QED
        BY <4>1, <4>2
    <3>2. ticks \subseteq new
      BY <2>2
    <3> QED
      BY <3>1, <3>2
  <2>5. SeenOf(h) \cap ticks = {}
    <3> SUFFICES ASSUME NEW t \in SeenOf(h), t \in ticks PROVE FALSE
      OBVIOUS
    <3> QED
      BY <2>3, <1>1 DEF SeenOf
  <2> HIDE DEF ticks, new
  <2>6. Cardinality(SeenOf(h) \cup ticks) = Cardinality(SeenOf(h)) + Cardinality(ticks)
    <3>1. Cardinality(SeenOf(h) \cap ticks) = 0
      BY <2>5, FS_EmptySet
    <3>2. Cardinality(SeenOf(h) \cup ticks)
            = Cardinality(SeenOf(h)) + Cardinality(ticks) - Cardinality(SeenOf(h) \cap ticks)
      BY <1>1, <1>2, FS_Union
    <3> QED
      BY <3>1, <3>2, <1>3
  <2>7. Cardinality(SeenOf(h) \cup ticks) <= Cardinality(new)
    BY <2>4, <1>2, FS_Subset
  <2>8. hours[h].observed \in Nat
    BY DEF ReportTyped, HourRow
  <2>9. line.observed <= Cardinality(new)
    BY <2>6, <2>7, <2>8, <1>3, <1>4
  <2> QED
    BY <2>9 DEF new
<1> QED
  BY <1>5, <1>6

LEMMA CountedType ==
  ASSUME ReportTyped, NEW sighted \in BOOLEAN, NEW h \in Report!Period
  PROVE  /\ Report!Counted(h, sighted) \in HourRow
         /\ Report!Counted(h, sighted).sent = hours[h].sent
         /\ hours[h].sent => Report!Counted(h, sighted) = hours[h]
<1> DEFINE ticks == {t \in Report!Interval(sighted) : Report!HourOf(t) = h /\ t > hours[h].until}
           upto == IF ticks = {} THEN hours[h].until ELSE CHOOSE t \in ticks : \A u \in ticks : u <= t
           high == hours[h].peak \/ ticks # {} \/ (h = report_time \div Hour /\ sighted)
           line == [hours[h] EXCEPT !.there = TRUE, !.observed = @ + Report!Cardinality(ticks),
                                   !.until = upto, !.peak = high]
<1>1. Report!Counted(h, sighted) \in {line, hours[h]} /\ (hours[h].sent => Report!Counted(h, sighted) = hours[h])
  BY Zenon DEF Report!Counted
<1>2. ticks \in SUBSET Nat /\ (\A t \in ticks : t <= report_time) /\ report_time \in Nat
  BY DEF Report!Interval, ReportTyped
<1>3. IsFiniteSet(ticks) /\ Cardinality(ticks) \in Nat
  <2> HIDE DEF ticks
  <2> QED
    BY <1>2, FS_BoundedSetOfNaturals, FS_CardinalityType
<1>4. hours[h] \in HourRow
  BY DEF ReportTyped
<1>5. upto \in Nat
  <2>1. CASE ticks = {}
    BY <2>1, <1>4 DEF HourRow
  <2>2. CASE ticks # {}
    <3> HIDE DEF ticks
    <3>1. \E t \in ticks : \A u \in ticks : u <= t
      BY <2>2, <1>2, LastTick
    <3> QED
      BY <3>1, <2>2, <1>2
  <2> QED
    BY <2>1, <2>2
<1>6. high \in BOOLEAN
  BY <1>4 DEF HourRow
<1>7. line \in HourRow /\ line.sent = hours[h].sent
  <2> HIDE DEF ticks, upto, high
  <2>1. hours[h].observed + Report!Cardinality(ticks) \in Nat
    BY <1>3, <1>4, SameSize DEF HourRow
  <2>2. line.sent = hours[h].sent
    BY <1>4 DEF HourRow
  <2>3. line \in HourRow
    BY <1>4, <1>5, <1>6, <2>1 DEF HourRow
  <2> QED
    BY <2>2, <2>3
<1> HIDE DEF line
<1> QED
  BY <1>1, <1>4, <1>7

(* A sample is taken between requests.                                      *)
LEMMA SampleKeeps ==
  ASSUME ReportInv, NEW sighted \in BOOLEAN, NEW due \in BOOLEAN, Report!Tick(sighted, due)
  PROVE  ReportInv'
<1> DEFINE W == witnessed'
<1>1. report_time' = report_time /\ report_time \in Nat /\ api' = api /\ synced' = synced /\ unsure' = unsure /\ wire' = wire
      /\ report_pc = "idle" /\ report_pc' \in {"idle", "sync"} /\ Report!Sample(sighted)
  BY DEF Report!Tick, ReportInv, ReportTyped
<1>2. last' \in [at: Nat, known: BOOLEAN]
  <2>1. last \in [at: Nat, known: BOOLEAN]
    BY DEF ReportInv, ReportTyped
  <2>2. Report!Later(report_time, last.at) \in Nat
    BY <1>1, <2>1 DEF Report!Later
  <2>3. [last EXCEPT !.known = FALSE] \in [at: Nat, known: BOOLEAN]
    BY <2>1
  <2>4. [at |-> Report!Later(report_time, last.at), known |-> FALSE] \in [at: Nat, known: BOOLEAN]
        /\ [at |-> report_time, known |-> sighted] \in [at: Nat, known: BOOLEAN]
    BY <1>1, <2>2
  <2> QED
    BY <1>1, <2>1, <2>3, <2>4, Zenon DEF Report!Sample
<1>3. W \in SUBSET Nat /\ IsFiniteSet(W) /\ witnessed \subseteq W
  <2>1. witnessed \in SUBSET Nat /\ IsFiniteSet(witnessed) /\ last.at \in Nat
    BY DEF ReportInv, ReportTyped
  <2>2. last.at + 1..report_time \subseteq Nat /\ IsFiniteSet(last.at + 1..report_time)
    <3>1. last.at + 1 \in Nat /\ last.at + 1 \in Int /\ report_time \in Int
      BY <1>1, <2>1
    <3>2. IsFiniteSet(last.at + 1..report_time)
      BY <3>1, FS_Interval
    <3>3. last.at + 1..report_time \subseteq Nat
      BY <3>1
    <3> QED
      BY <3>2, <3>3
  <2>3. W \in {witnessed, witnessed \cup (last.at + 1..report_time)}
    BY <1>1 DEF Report!Sample
  <2> QED
    BY <2>1, <2>2, <2>3, FS_Union
<1>4. \/ hours' = hours
      \/ hours' = [h \in Report!Period |-> Report!Counted(h, sighted)] /\ Report!Interval(sighted) \subseteq W
  BY <1>1 DEF Report!Sample, Report!Interval
<1>5. ReportTyped'
  <2>1. hours' \in [Report!Period -> HourRow]
    BY <1>4, CountedType DEF ReportInv, ReportTyped
  <2> QED
    BY <1>1, <1>2, <1>3, <2>1 DEF ReportInv, ReportTyped
<1>6. Report!HourIsHeld'
  <2> SUFFICES ASSUME NEW h \in Report!Period, hours'[h].sent PROVE Report!Wired(h)' \in api'.held
    BY DEF Report!HourIsHeld
  <2>1. hours'[h] = hours[h]
    BY <1>4, CountedType DEF ReportInv
  <2> QED
    BY <1>1, <2>1 DEF ReportInv, Report!HourIsHeld, Report!Wired
<1>7. CountsInv'
  <2> SUFFICES ASSUME NEW h \in Report!Period PROVE hours'[h].observed <= Cardinality(SeenOf(h)')
    BY DEF CountsInv
  <2>1. hours[h].observed <= Cardinality(SeenOf(h))
    BY DEF ReportInv, CountsInv
  <2>2. SeenOf(h)' = {t \in W : Report!HourOf(t) = h /\ t <= hours'[h].until}
    BY DEF SeenOf, Report!HourOf
  <2>3. CASE hours'[h] = hours[h]
    <3>1. SeenOf(h) \subseteq SeenOf(h)' /\ SeenOf(h)' \subseteq W
      BY <2>2, <2>3, <1>3 DEF SeenOf
    <3>2. IsFiniteSet(SeenOf(h)') /\ IsFiniteSet(SeenOf(h)) /\ Cardinality(SeenOf(h)) <= Cardinality(SeenOf(h)')
      BY <3>1, <1>3, FS_Subset
    <3>3. Cardinality(SeenOf(h)) \in Nat /\ Cardinality(SeenOf(h)') \in Nat /\ hours[h].observed \in Nat
      BY <3>2, FS_CardinalityType DEF ReportInv, ReportTyped, HourRow
    <3> QED
      BY <2>1, <2>3, <3>2, <3>3
  <2>4. CASE hours'[h] # hours[h]
    <3>1. hours'[h] = Report!Counted(h, sighted) /\ Report!Interval(sighted) \subseteq W
      BY <1>4, <2>4
    <3> QED
      BY <1>3, <2>1, <2>2, <2>4, <3>1, CountedOnce DEF ReportInv
  <2> QED
    BY <2>3, <2>4
<1>8. WireIsTrue' /\ AnsweredIsHeld' /\ Report!SyncedIsHeld'
  BY <1>1 DEF ReportInv, WireIsTrue, AnsweredIsHeld, Report!SyncedIsHeld
<1> QED
  BY <1>5, <1>6, <1>7, <1>8 DEF ReportInv

----------------------------------------------------------------------------
(* Report: THE OTHER STEPS *)

(* What a step that neither samples nor closes an hour leaves alone.        *)
LEMMA CountsStay ==
  ASSUME CountsInv, ReportTyped, hours' \in [Report!Period -> HourRow], UNCHANGED witnessed,
         \A h \in Report!Period : hours'[h].observed = hours[h].observed /\ hours'[h].until = hours[h].until
  PROVE  CountsInv'
<1> SUFFICES ASSUME NEW h \in Report!Period PROVE hours'[h].observed <= Cardinality(SeenOf(h)')
  BY DEF CountsInv
<1>1. SeenOf(h)' = SeenOf(h)
  BY DEF SeenOf, Report!HourOf
<1> QED
  BY <1>1 DEF CountsInv

LEMMA ReportKept == ReportInv /\ [Report!Next]_(Report!vars) => ReportInv'
<1> SUFFICES ASSUME ReportInv, [Report!Next]_(Report!vars) PROVE ReportInv'
  OBVIOUS
<1> USE DEF ReportInv, Report!memory, Report!bounds
<1>1. CASE Report!Clock \/ Report!SetBack \/ Report!DayPasses \/ Report!Edits \/ Report!FastTick \/ Report!SendSync \/ Report!NoSync \/ Report!ReportAlone \/ Report!Choose
           \/ Report!Resample \/ Report!SongAccepted \/ Report!Refused \/ Report!SyncAccepted \/ Report!Fails \/ Report!Dies \/ UNCHANGED Report!vars
  <2>1. UNCHANGED <<hours, api, witnessed, last>> /\ report_time' \in Nat
    BY <1>1 DEF ReportTyped, Report!Clock, Report!SetBack, Report!DayPasses, Report!Edits, Report!Edit, Report!FastTick, Report!SendSync, Report!NoSync, Report!ReportAlone, Report!Choose,
         Report!Resample, Report!SongAccepted, Report!Refused, Report!SyncAccepted, Report!Fails, Report!Dies, Report!vars
  <2>2. ReportTyped' /\ CountsInv' /\ Report!HourIsHeld'
    <3>1. ReportTyped' /\ hours' \in [Report!Period -> HourRow]
      BY <2>1 DEF ReportTyped
    <3> QED
      BY <2>1, <3>1, CountsStay DEF Report!HourIsHeld, Report!Wired
  <2>3. WireIsTrue' /\ AnsweredIsHeld'
    BY <1>1, <2>1 DEF WireIsTrue, AnsweredIsHeld, Report!Wired, Report!Clock, Report!SetBack, Report!DayPasses, Report!Edits, Report!Edit, Report!FastTick, Report!SendSync,
         Report!NoSync, Report!ReportAlone, Report!Choose, Report!Resample, Report!SongAccepted, Report!Refused, Report!SyncAccepted, Report!Fails, Report!Dies, Report!vars, Report!Goto,
         Report!Told, Report!Nothing
  <2>4. Report!SyncedIsHeld'
    BY <1>1, <2>1 DEF Report!SyncedIsHeld, AnsweredIsHeld, Report!NoMeta, Report!Known, Report!Acknowledged, Report!Clock, Report!SetBack, Report!DayPasses, Report!Edits,
         Report!Edit, Report!FastTick, Report!SendSync, Report!NoSync, Report!ReportAlone, Report!Choose, Report!Resample, Report!SongAccepted, Report!Refused, Report!SyncAccepted,
         Report!Fails, Report!Dies, Report!vars
  <2> QED
    BY <2>1, <2>2, <2>3, <2>4
<1>2. CASE Report!Ticking
  BY <1>2, SampleKeeps DEF Report!Ticking
<1>3. CASE Report!SendReport
  <2>1. UNCHANGED <<report_time, hours, api, witnessed, last, synced, unsure>> /\ ReportTyped' /\ report_pc' = "sent"
        /\ wire' = [kind |-> "report", metrics |-> {Report!Wired(h) : h \in {p \in Report!Period : Report!Due(p)}}]
    BY <1>3 DEF Report!SendReport, Report!Goto, ReportTyped
  <2>2. WireIsTrue'
    <3> SUFFICES ASSUME NEW m \in wire'.metrics PROVE m.period \in Report!Period /\ m = Report!Wired(m.period)'
      BY DEF WireIsTrue
    <3>1. PICK h \in Report!Period : m = Report!Wired(h)
      BY <2>1
    <3> QED
      BY <3>1, <2>1 DEF Report!Wired
  <2>3. CountsInv'
    BY <2>1, CountsStay DEF ReportTyped
  <2> QED
    BY <2>1, <2>2, <2>3 DEF AnsweredIsHeld, Report!HourIsHeld, Report!Wired, Report!SyncedIsHeld
<1>4. CASE Report!ReportAccepted
  <2>1. UNCHANGED <<report_time, api, witnessed, last, synced, unsure>> /\ report_pc = "answered" /\ wire.kind = "report" /\ report_pc' = "idle"
        /\ hours' = [h \in Report!Period |-> IF \E m \in wire.metrics : m.period = h
                                      THEN [hours[h] EXCEPT !.sent = TRUE] ELSE hours[h]]
    BY <1>4 DEF Report!ReportAccepted, Report!Goto
  <2>2. \A h \in Report!Period : hours[h] \in HourRow
    BY DEF ReportTyped
  <2>3. \A h \in Report!Period : /\ [hours[h] EXCEPT !.sent = TRUE] \in HourRow
                          /\ [hours[h] EXCEPT !.sent = TRUE].observed = hours[h].observed
                          /\ [hours[h] EXCEPT !.sent = TRUE].until = hours[h].until
                          /\ [hours[h] EXCEPT !.sent = TRUE].peak = hours[h].peak
    BY <2>2 DEF HourRow
  <2>4. hours' \in [Report!Period -> HourRow] /\ \A h \in Report!Period : /\ hours'[h].observed = hours[h].observed
                                                        /\ hours'[h].until = hours[h].until /\ hours'[h].peak = hours[h].peak
    BY <2>1, <2>2, <2>3
  <2>5. Report!HourIsHeld'
    <3> SUFFICES ASSUME NEW h \in Report!Period, hours'[h].sent PROVE Report!Wired(h)' \in api'.held
      BY DEF Report!HourIsHeld
    <3>1. Report!Wired(h)' = Report!Wired(h)
      BY <2>4 DEF Report!Wired
    <3>2. CASE \E m \in wire.metrics : m.period = h
      BY <3>1, <3>2, <2>1 DEF WireIsTrue, AnsweredIsHeld
    <3>3. CASE ~\E m \in wire.metrics : m.period = h
      BY <3>1, <3>3, <2>1 DEF Report!HourIsHeld
    <3> QED
      BY <3>2, <3>3
  <2>6. ReportTyped' /\ CountsInv'
    BY <2>1, <2>4, CountsStay DEF ReportTyped
  <2> QED
    BY <2>1, <2>5, <2>6 DEF WireIsTrue, AnsweredIsHeld, Report!SyncedIsHeld
<1>5. CASE Report!TakesSync
  <2>1. UNCHANGED <<report_time, hours, witnessed, last, synced, wire>> /\ unsure' = TRUE /\ report_pc' = "answered"
        /\ wire.kind = "sync" /\ api' = [api EXCEPT !.meta = wire.meta, !.song = @ /\ wire.meta.opt]
    BY <1>5 DEF Report!TakesSync, Report!Reply
  <2>2. DOMAIN api' = {"meta", "held", "song"} /\ api'.held = api.held /\ api'.meta = wire.meta
    BY <2>1 DEF ReportTyped
  <2>3. ReportTyped' /\ CountsInv'
    BY <2>1, <2>2, CountsStay DEF ReportTyped
  <2> QED
    BY <2>1, <2>2, <2>3 DEF WireIsTrue, AnsweredIsHeld, Report!SyncedIsHeld, Report!HourIsHeld, Report!Wired
<1>6. CASE Report!TakesReport
  <2>1. UNCHANGED <<report_time, hours, witnessed, last, synced, wire, unsure>> /\ report_pc = "sent" /\ wire.kind = "report"
        /\ \/ report_pc' = "refused" /\ api' = api
           \/ /\ report_pc' = "answered"
              /\ api' = [api EXCEPT !.held = {m \in @ : \A n \in wire.metrics : n.period # m.period}
                                              \cup wire.metrics]
    BY <1>6 DEF Report!TakesReport, Report!Reply
  <2>2. CASE api' = api /\ report_pc' = "refused"
    <3>1. ReportTyped' /\ CountsInv'
      BY <2>1, <2>2, CountsStay DEF ReportTyped
    <3> QED
      BY <2>1, <2>2, <3>1 DEF WireIsTrue, AnsweredIsHeld, Report!SyncedIsHeld, Report!HourIsHeld, Report!Wired
  <2>3. CASE report_pc' = "answered" /\ api' = [api EXCEPT !.held = {m \in @ : \A n \in wire.metrics : n.period # m.period}
                                                             \cup wire.metrics]
    <3>1. DOMAIN api' = {"meta", "held", "song"} /\ api'.meta = api.meta
          /\ api'.held = {m \in api.held : \A n \in wire.metrics : n.period # m.period} \cup wire.metrics
      BY <2>3 DEF ReportTyped
    <3>2. ReportTyped' /\ CountsInv'
      BY <2>1, <3>1, CountsStay DEF ReportTyped
    <3>3. Report!HourIsHeld'
      <4> SUFFICES ASSUME NEW h \in Report!Period, hours[h].sent PROVE Report!Wired(h) \in api'.held
        BY <2>1 DEF Report!HourIsHeld, Report!Wired
      <4>1. Report!Wired(h) \in api.held /\ Report!Wired(h).period = h
        BY DEF Report!HourIsHeld, Report!Wired
      <4>2. \A n \in wire.metrics : n.period = h => n = Report!Wired(h)
        BY <2>1 DEF WireIsTrue
      <4> QED
        BY <4>1, <4>2, <3>1
    <3> QED
      BY <2>1, <2>3, <3>1, <3>2, <3>3 DEF WireIsTrue, AnsweredIsHeld, Report!SyncedIsHeld, Report!Wired
  <2> QED
    BY <2>1, <2>2, <2>3
<1>7. CASE Report!TakesSong
  <2>1. UNCHANGED <<report_time, hours, witnessed, last, synced, wire, unsure>> /\ wire.kind = "song"
        /\ (api' = api \/ api' = [api EXCEPT !.song = TRUE])
    BY <1>7 DEF Report!TakesSong, Report!Reply
  <2>2. DOMAIN api' = {"meta", "held", "song"} /\ api'.held = api.held /\ api'.meta = api.meta
    BY <2>1 DEF ReportTyped
  <2>3. ReportTyped' /\ CountsInv'
    BY <2>1, <2>2, CountsStay DEF ReportTyped
  <2> QED
    BY <2>1, <2>2, <2>3 DEF WireIsTrue, AnsweredIsHeld, Report!SyncedIsHeld, Report!HourIsHeld, Report!Wired
<1> QED
  BY <1>1, <1>2, <1>3, <1>4, <1>5, <1>6, <1>7 DEF Report!Next, Report!Reports, Report!Takes

----------------------------------------------------------------------------
(* What the hours claim follows from what they counted. *)
LEMMA ReportInvAgrees == ReportInv => Report!HourIsHeld /\ Report!SyncedIsHeld /\ Report!OnlyWitnessed
<1> SUFFICES ASSUME ReportInv, NEW h \in Report!Period
             PROVE  hours[h].observed <= Cardinality({t \in witnessed : Report!HourOf(t) = h})
  BY SameSize DEF ReportInv, Report!OnlyWitnessed
<1> DEFINE all == {t \in witnessed : Report!HourOf(t) = h}
<1>1. SeenOf(h) \subseteq all /\ all \subseteq witnessed
  BY DEF SeenOf
<1>2. IsFiniteSet(all) /\ IsFiniteSet(SeenOf(h)) /\ Cardinality(SeenOf(h)) <= Cardinality(all)
  <2> HIDE DEF all
  <2> QED
    BY <1>1, FS_Subset DEF ReportInv, ReportTyped
<1>3. Cardinality(SeenOf(h)) \in Nat /\ Cardinality(all) \in Nat /\ hours[h].observed \in Nat
  BY <1>2, FS_CardinalityType DEF ReportInv, ReportTyped, HourRow
<1>4. hours[h].observed <= Cardinality(SeenOf(h))
  BY DEF ReportInv, CountsInv
<1> HIDE DEF all
<1>5. hours[h].observed <= Cardinality(all)
  BY <1>2, <1>3, <1>4
<1> QED
  BY <1>5 DEF all

(* "Server upserts replace each station/hour, so an uncertain acknowledge-  *)
(* ment is safe to retry"; "no interval is extrapolated through a failed    *)
(* observation or a long gap"; and what counts as synchronised is what the  *)
(* server holds.                                                            *)
THEOREM ReportAgrees == Report!Spec => [](Report!HourIsHeld /\ Report!SyncedIsHeld /\ Report!OnlyWitnessed)
<1>1. Report!Spec => []ReportInv
  BY ReportBegins, ReportKept, PTL DEF Report!Spec
<1> QED
  BY <1>1, ReportInvAgrees, PTL

(* What the reporter closed or counts as synchronised is what the server    *)
(* holds, and no hour claims more than was seen of it.                      *)
THEOREM ServerAgreesAlways == Spec => []ServerAgrees
<1> DEFINE I == part = "report" => ReportInv
<1>1. Init => I
  BY ReportBegins DEF Init
<1>2. I /\ [Next]_vars => I'
  <2> SUFFICES ASSUME I, [Next]_vars, part' = "report" PROVE ReportInv'
    OBVIOUS
  <2>1. CASE ReportNext
    BY <2>1, ReportKept DEF ReportNext
  <2>2. CASE UNCHANGED vars
    BY <2>2, Stuttering, ReportKept
  <2>3. CASE Others \/ UpgradesNext \/ SwitchNext
    BY <2>3, OnePartMoves DEF UpgradesNext, SwitchNext
  <2> QED
    BY <2>1, <2>2, <2>3 DEF Next, Others
<1>3. I => ServerAgrees
  BY ReportInvAgrees DEF ServerAgrees
<1> QED
  BY <1>1, <1>2, <1>3, PTL DEF Spec

----------------------------------------------------------------------------
(* THE SWITCH OF THE MODE, for any number of commands, modes, edits,        *)
(* restarts of the engine and deaths of the worker.                         *)

(* One command is in flight at a time, and the engine's token names one     *)
(* that was handed over.                                                    *)
OneInFlight    == \A c, d \in Switch!InFlight : c = d
AskedInv  == switch_engine.token # 0 => command[switch_engine.token].st \in {"FADING", "APPLIED", "FAILED"}
(* What was prepared has a target; what is to fade has it in a known life   *)
(* of the engine, which is never a later one.                               *)
SentInv   == \A c \in SwitchCommand :
  /\ command[c].st \in {"PREPARING", "FADING", "APPLIED"} => target[c].st # "none"
  /\ command[c].st = "FADING" => target[c].tracked
  /\ target[c].life <= switch_engine.life
(* The engine's phase tells how often it has cut for its token; a command   *)
(* that is to fade under another token of the same life has not been cut.   *)
CutsInv    == \A c \in SwitchCommand :
  /\ switch_engine.token = c => switch_engine.phase # "IDLE" /\ cuts[c] = (IF switch_engine.phase = "FADING" THEN 0 ELSE 1)
  /\ command[c].st \in {"none", "PENDING", "PREPARING"} => cuts[c] = 0
  /\ command[c].st = "FADING" /\ switch_engine.token # c /\ target[c].life = switch_engine.life => cuts[c] = 0
Phased == switch_engine.phase = "FADING" => switch_engine.token # 0

SwitchInv == Switch!TypeOK /\ OneInFlight /\ AskedInv /\ SentInv /\ CutsInv /\ Phased /\ Switch!SwitchedOnce /\ Switch!HeldWhenUncertain

LEMMA SwitchBegins == ASSUME Switch!SwitchAssumption PROVE Switch!Init => SwitchInv
<1> SUFFICES ASSUME Switch!Init PROVE SwitchInv
  OBVIOUS
<1> USE DEF Switch!Init, Switch!NoCommand, Switch!NoTarget
<1>1. (CHOOSE m \in Mode : TRUE) \in Mode
  BY DEF Switch!SwitchAssumption
<1>2. Switch!TypeOK
  <2>1. switch_channel \in [mode: Mode, revision: Nat, activation: SwitchCommand \cup {0}, held: BOOLEAN,
                           operator: {"AUTO", "DJ_BOOTH"}, relay: BOOLEAN]
    <3>1. PICK r \in BOOLEAN : switch_channel = [mode |-> Switch!NoCommand.mode, revision |-> 0, activation |-> 0,
                                                held |-> FALSE, operator |-> "AUTO", relay |-> r]
      OBVIOUS
    <3> QED
      BY <1>1, <3>1
  <2>2. switch_engine \in [token: SwitchCommand \cup {0}, phase: {"IDLE", "FADING", "APPLIED"},
                          queue: SUBSET SwitchCommand, air: SwitchCommand \cup {0}, prepared: BOOLEAN, life: Nat]
    OBVIOUS
  <2>3. command \in [SwitchCommand -> [st: Switch!Busy \cup {"none", "APPLIED", "FAILED"}, mode: Mode, revision: Nat]]
    BY <1>1
  <2>4. target \in [SwitchCommand -> [st: {"none", "selected", "queued", "started", "failed"},
                                     tracked: BOOLEAN, life: Nat]]
    OBVIOUS
  <2>5. cuts \in [SwitchCommand -> Nat] /\ starts \subseteq SwitchCommand /\ known \subseteq SwitchCommand
    OBVIOUS
  <2> QED
    BY <2>1, <2>2, <2>3, <2>4, <2>5 DEF Switch!TypeOK
<1>3. OneInFlight /\ AskedInv /\ SentInv /\ Phased /\ Switch!SwitchedOnce /\ Switch!HeldWhenUncertain
  BY DEF OneInFlight, Switch!InFlight, Switch!Busy, AskedInv, SentInv, Phased, Switch!SwitchedOnce, Switch!HeldWhenUncertain
<1>4. CutsInv
  BY DEF CutsInv, Switch!SwitchAssumption
<1> QED
  BY <1>2, <1>3, <1>4 DEF SwitchInv

(* The command in flight. *)
LEMMA CurIs ==
  ASSUME Switch!SwitchAssumption, OneInFlight, Switch!InFlight # {}
  PROVE  Switch!Cur \in Switch!InFlight /\ Switch!Cur \in SwitchCommand /\ command[Switch!Cur].st \in Switch!Busy
         /\ \A c \in SwitchCommand : command[c].st \in Switch!Busy => c = Switch!Cur
<1>1. PICK c \in Switch!InFlight : TRUE
  OBVIOUS
<1>2. c <= c /\ \A d \in Switch!InFlight : d = c
  BY <1>1 DEF OneInFlight, Switch!InFlight, Switch!SwitchAssumption
<1>3. Switch!Cur \in Switch!InFlight
  BY <1>1, <1>2 DEF Switch!Cur
<1> QED
  BY <1>2, <1>3 DEF Switch!InFlight

(* Reading the START lines makes a target that exists a started one.        *)
LEMMA ReadKeeps ==
  ASSUME Switch!TypeOK, NEW s
  PROVE  /\ Switch!Read(target, s) \in [SwitchCommand -> [st: {"none", "selected", "queued", "started", "failed"},
                                            tracked: BOOLEAN, life: Nat]]
         /\ \A c \in SwitchCommand :
              /\ Switch!Read(target, s)[c].life = target[c].life /\ Switch!Read(target, s)[c].tracked = target[c].tracked
              /\ target[c].st = "started" => Switch!Read(target, s)[c].st = "started"
              /\ target[c].st # "none" => Switch!Read(target, s)[c].st # "none"
              /\ c \in s /\ target[c].st # "none" => Switch!Read(target, s)[c].st = "started"
<1> DEFINE t(c) == Switch!Read(target, s)[c]
<1>1. ASSUME NEW c \in SwitchCommand
      PROVE  /\ t(c) \in [st: {"none", "selected", "queued", "started", "failed"}, tracked: BOOLEAN, life: Nat]
             /\ t(c).life = target[c].life /\ t(c).tracked = target[c].tracked
             /\ target[c].st = "started" => t(c).st = "started"
             /\ target[c].st # "none" => t(c).st # "none"
             /\ c \in s /\ target[c].st # "none" => t(c).st = "started"
  <2>1. target[c] \in [st: {"none", "selected", "queued", "started", "failed"}, tracked: BOOLEAN, life: Nat]
    BY <1>1 DEF Switch!TypeOK
  <2>2. CASE c \in s /\ target[c].st \in {"selected", "queued", "failed"}
    BY <1>1, <2>1, <2>2 DEF Switch!Read
  <2>3. CASE ~(c \in s /\ target[c].st \in {"selected", "queued", "failed"})
    BY <1>1, <2>1, <2>3 DEF Switch!Read
  <2> QED
    BY <2>2, <2>3
<1>2. Switch!Read(target, s) = [c \in SwitchCommand |-> t(c)]
  BY DEF Switch!Read
<1> QED
  BY <1>1, <1>2

----------------------------------------------------------------------------
(* TYPES *)

LEMMA ExpireType ==
  ASSUME Switch!SwitchAssumption, SwitchInv, Switch!Expire, Switch!InFlight # {}
  PROVE  Switch!TypeOK'
<1> USE DEF Switch!Expire, Switch!Becomes, Switch!Leave, Switch!Frame
<1>1. Switch!Cur \in SwitchCommand
  BY CurIs DEF SwitchInv
<1>2. command' \in [SwitchCommand -> [st: Switch!Busy \cup {"none", "APPLIED", "FAILED"}, mode: Mode, revision: Nat]]
  BY <1>1 DEF SwitchInv, Switch!TypeOK
<1>3. [switch_channel EXCEPT !.held = TRUE] \in [mode: Mode, revision: Nat, activation: SwitchCommand \cup {0}, held: BOOLEAN,
                                        operator: {"AUTO", "DJ_BOOTH"}, relay: BOOLEAN]
  BY DEF SwitchInv, Switch!TypeOK
<1>4. [switch_engine EXCEPT !.queue = @ \ {Switch!Cur}] \in
         [token: SwitchCommand \cup {0}, phase: {"IDLE", "FADING", "APPLIED"}, queue: SUBSET SwitchCommand,
          air: SwitchCommand \cup {0}, prepared: BOOLEAN, life: Nat]
  BY DEF SwitchInv, Switch!TypeOK
<1>5. late' \in BOOLEAN
  BY DEF SwitchInv, Switch!TypeOK
<1> QED
  BY <1>2, <1>3, <1>4, <1>5 DEF SwitchInv, Switch!TypeOK

LEMMA SwitchTyped == ASSUME Switch!SwitchAssumption, SwitchInv, Switch!Next PROVE Switch!TypeOK'
<1> USE DEF SwitchInv, Switch!TypeOK
<1> DEFINE E == [token: SwitchCommand \cup {0}, phase: {"IDLE", "FADING", "APPLIED"}, queue: SUBSET SwitchCommand,
                 air: SwitchCommand \cup {0}, prepared: BOOLEAN, life: Nat]
           C == [mode: Mode, revision: Nat, activation: SwitchCommand \cup {0}, held: BOOLEAN,
                 operator: {"AUTO", "DJ_BOOTH"}, relay: BOOLEAN]
<1>0. Switch!InFlight # {} => Switch!Cur \in SwitchCommand
  BY CurIs
<1>1. CASE Switch!Enter
  BY <1>1, ReadKeeps DEF Switch!Enter, Switch!Expired
<1>2. CASE Switch!ExpireUnsent \/ Switch!PushRefused \/ Switch!EngineWentAway \/ Switch!LateStatus \/ Switch!LateStart
  BY <1>2, ExpireType DEF Switch!ExpireUnsent, Switch!PushRefused, Switch!EngineWentAway, Switch!LateStatus, Switch!LateStart, Switch!Here2, Switch!Here, Switch!SameEngine,
     Switch!IsApplied
<1>3. CASE Switch!Refuse
  BY <1>0, <1>3 DEF Switch!Refuse, Switch!Here, Switch!Becomes, Switch!Leave, Switch!Quiet, Switch!Frame
<1>4. CASE Switch!Prepare
  BY <1>0, <1>4 DEF Switch!Prepare, Switch!Here, Switch!Becomes, Switch!Quiet, Switch!Frame, Switch!Busy
<1>5. CASE Switch!Push
  BY <1>0, <1>5 DEF Switch!Push, Switch!Here2, Switch!Here, Switch!Quiet, Switch!Frame
<1>6. CASE Switch!Track
  BY <1>0, <1>6 DEF Switch!Track, Switch!Here2, Switch!Here, Switch!Quiet, Switch!Frame
<1>7. CASE Switch!Intend
  BY <1>0, <1>7 DEF Switch!Intend, Switch!Here2, Switch!Here, Switch!Becomes, Switch!Quiet, Switch!Frame, Switch!Busy
<1>8. CASE Switch!Ask
  <2>1. Switch!Cur \in SwitchCommand /\ switch_engine' = Switch!Switched(Switch!Cur)
    BY <1>0, <1>8 DEF Switch!Ask, Switch!SameEngine, Switch!Here
  <2>2. (Switch!Cur \in switch_engine.queue) \in BOOLEAN
    OBVIOUS
  <2>3. switch_engine' \in E
    BY <2>1, <2>2 DEF Switch!Switched
  <2> QED
    BY <1>8, <2>3 DEF Switch!Ask, Switch!Leave, Switch!Quiet, Switch!Frame
<1>8a. CASE Switch!AskUnderRelay
  <2>1. Switch!Cur \in SwitchCommand
    BY <1>0, <1>8a DEF Switch!AskUnderRelay, Switch!SameEngine, Switch!Here
  <2>2. switch_engine' \in E
    BY <1>8a, <2>1 DEF Switch!AskUnderRelay, Switch!SwitchedAtOnce
  <2>3. cuts' \in [SwitchCommand -> Nat]
    <3>1. cuts' = [cuts EXCEPT ![Switch!Cur] = @ + 1] /\ cuts[Switch!Cur] \in Nat
      BY <1>8a, <2>1 DEF Switch!AskUnderRelay
    <3>2. cuts[Switch!Cur] + 1 \in Nat
      BY <3>1
    <3> QED
      BY <3>1, <3>2
  <2> QED
    BY <1>8a, <2>2, <2>3 DEF Switch!AskUnderRelay, Switch!Quiet, Switch!Frame
<1>9. CASE Switch!AwaitStart
  BY <1>9 DEF Switch!AwaitStart, Switch!Leave, Switch!Quiet, Switch!Frame
<1>10. CASE Switch!Apply
  <2>1. Switch!Cur \in SwitchCommand
    BY <1>0, <1>10 DEF Switch!Apply, Switch!IsApplied, Switch!SameEngine, Switch!Here
  <2>2. command' \in [SwitchCommand -> [st: Switch!Busy \cup {"none", "APPLIED", "FAILED"}, mode: Mode, revision: Nat]]
    BY <1>10, <2>1 DEF Switch!Apply, Switch!Becomes
  <2>3. switch_channel' \in C
    BY <1>10, <2>1 DEF Switch!Apply
  <2>4. \A c \in SwitchCommand : [target[c] EXCEPT !.st = "failed"] \in
           [st: {"none", "selected", "queued", "started", "failed"}, tracked: BOOLEAN, life: Nat]
    OBVIOUS
  <2>5. target' \in [SwitchCommand -> [st: {"none", "selected", "queued", "started", "failed"},
                                tracked: BOOLEAN, life: Nat]]
    BY <1>10, <2>4, ReadKeeps DEF Switch!Apply
  <2> QED
    BY <1>10, <2>2, <2>3, <2>5 DEF Switch!Apply, Switch!Leave, Switch!Frame
<1>11. CASE Switch!SocketDown
  BY <1>11, ExpireType DEF Switch!SocketDown, Switch!Leave, Switch!Quiet, Switch!Frame
<1>12. CASE Switch!Crash
  <2>1. /\ UNCHANGED <<command, age, switch_channel, target, planned, switch_engine, starts, cuts, released>>
        /\ step' = "idle" /\ known' = {} /\ late' = FALSE
    BY <1>12 DEF Switch!Crash, Switch!Leave
  <2>2. step' \in {"idle", "act", "pushed"} /\ known' \subseteq SwitchCommand /\ late' \in BOOLEAN
    BY <2>1
  <2> QED
    BY <2>1, <2>2, Zenon
<1>13. ASSUME NEW m \in Mode, Switch!Request(m) PROVE Switch!TypeOK'
  BY <1>13 DEF Switch!Request, Switch!New, Switch!Busy
<1>14. CASE Switch!EditSchedule \/ Switch!SongDeleted
  <2>1. [switch_channel EXCEPT !.revision = @ + 1] \in C
    OBVIOUS
  <2> QED
    BY <1>14, <2>1 DEF Switch!EditSchedule, Switch!SongDeleted, Switch!Manual
<1>15. CASE Switch!TakeControl
  BY <1>15 DEF Switch!TakeControl, Switch!Manual
<1>16. CASE Switch!ReturnControl
  BY <1>16 DEF Switch!ReturnControl, Switch!Manual
<1>17. ASSUME NEW h \in BOOLEAN, Switch!SetHold(h) PROVE Switch!TypeOK'
  BY <1>17 DEF Switch!SetHold, Switch!Manual
<1>18. ASSUME NEW c \in SwitchCommand, Switch!Advances(c) PROVE Switch!TypeOK'
  BY <1>18 DEF Switch!Advances, Switch!EngineStep
<1>19. CASE Switch!TargetEnds \/ Switch!Confirm
  BY <1>19 DEF Switch!TargetEnds, Switch!Confirm, Switch!EngineStep
<1>20. CASE Switch!FadeEnds
  <2>1. switch_engine' \in E
    BY <1>20 DEF Switch!FadeEnds, Switch!EngineStep
  <2>2. cuts' \in [SwitchCommand -> Nat]
    <3>1. switch_engine.token \in SwitchCommand
      BY <1>20 DEF Switch!FadeEnds, Phased
    <3>2. cuts' = [cuts EXCEPT ![switch_engine.token] = @ + 1] /\ cuts[switch_engine.token] \in Nat
      BY <1>20, <3>1 DEF Switch!FadeEnds
    <3>3. cuts[switch_engine.token] + 1 \in Nat
      BY <3>2
    <3> QED
      BY <3>2, <3>3
  <2> QED
    BY <1>20, <2>1, <2>2 DEF Switch!FadeEnds, Switch!EngineStep
<1>21. CASE Switch!EngineRestarts
  BY <1>21 DEF Switch!EngineRestarts
<1>22. CASE Switch!Grows
  BY <1>22 DEF Switch!Grows
<1> QED
  BY <1>1, <1>2, <1>3, <1>4, <1>5, <1>6, <1>7, <1>8, <1>8a, <1>9, <1>10, <1>11, <1>12, <1>13, <1>14, <1>15,
     <1>16, <1>17, <1>18, <1>19, <1>20, <1>21, <1>22 DEF Switch!Next, Switch!Work, Switch!Operators, Switch!Engine

----------------------------------------------------------------------------
(* STEPS *)

(* A step that moves no command and neither asks the engine nor cuts.       *)
LEMMA CalmKeeps ==
  ASSUME Switch!SwitchAssumption, SwitchInv, Switch!TypeOK', UNCHANGED <<command, cuts>>,
         switch_engine'.token = switch_engine.token, switch_engine'.phase = switch_engine.phase, switch_engine'.life = switch_engine.life,
         \A c \in SwitchCommand : /\ target'[c].life = target[c].life /\ target'[c].tracked = target[c].tracked
                                  /\ target[c].st = "started" => target'[c].st = "started"
                                  /\ target[c].st # "none" => target'[c].st # "none",
         switch_channel'.activation = switch_channel.activation, switch_channel'.relay = switch_channel.relay,
         switch_channel.held \/ released => switch_channel'.held \/ released'
  PROVE  SwitchInv'
<1> USE DEF SwitchInv
<1>1. OneInFlight'
  BY DEF OneInFlight, Switch!InFlight
<1>2. AskedInv' /\ Phased'
  BY DEF AskedInv, Phased
<1>3. SentInv'
  BY DEF SentInv
<1>4. CutsInv'
  BY DEF CutsInv
<1>5. Switch!SwitchedOnce'
  BY DEF Switch!SwitchedOnce
<1>6. Switch!HeldWhenUncertain'
  BY DEF Switch!HeldWhenUncertain
<1> QED
  BY <1>1, <1>2, <1>3, <1>4, <1>5, <1>6

(* A command in flight moves on, or ends, while the engine's token, phase   *)
(* and life and all that is said of other commands stay.                    *)
LEMMA MoveKeeps ==
  ASSUME Switch!SwitchAssumption, SwitchInv, Switch!TypeOK', Switch!InFlight # {}, UNCHANGED cuts,
         NEW st \in {"PREPARING", "FADING", "APPLIED", "FAILED"}, command' = [command EXCEPT ![Switch!Cur].st = st],
         switch_engine'.token = switch_engine.token, switch_engine'.phase = switch_engine.phase, switch_engine'.life = switch_engine.life,
         \A c \in SwitchCommand : target'[c].life = target[c].life /\ target'[c].tracked = target[c].tracked,
         \A c \in SwitchCommand \ {Switch!Cur} : /\ target[c].st = "started" => target'[c].st = "started"
                                                 /\ target[c].st # "none" => target'[c].st # "none",
         switch_engine.token = Switch!Cur => st \in {"APPLIED", "FAILED"},
         st \in {"PREPARING", "FADING", "APPLIED"} => target'[Switch!Cur].st # "none",
         st = "FADING" => target[Switch!Cur].tracked,
         st \in {"PREPARING", "FADING"} => command[Switch!Cur].st \in {"PENDING", "PREPARING"},
         st = "APPLIED" => /\ switch_engine.token = Switch!Cur /\ switch_engine.phase = "APPLIED"
                           /\ target'[Switch!Cur].st = "started" \/ switch_channel.relay
                           /\ switch_channel'.activation = Switch!Cur,
         switch_channel'.relay = switch_channel.relay,
         st # "APPLIED" => switch_channel'.activation = switch_channel.activation,
         st # "APPLIED" => (switch_channel.held \/ released => switch_channel'.held \/ released'),
         st = "FAILED" /\ switch_engine.token = Switch!Cur => switch_channel'.held
  PROVE  SwitchInv'
<1> USE DEF SwitchInv
<1>0. /\ Switch!Cur \in SwitchCommand /\ command[Switch!Cur].st \in Switch!Busy
      /\ \A c \in SwitchCommand : command[c].st \in Switch!Busy => c = Switch!Cur
  BY CurIs
<1>1. /\ command'[Switch!Cur].st = st
      /\ \A c \in SwitchCommand \ {Switch!Cur} : command'[c] = command[c]
  BY <1>0 DEF Switch!TypeOK
<1>2. OneInFlight'
  <2> SUFFICES ASSUME NEW c \in SwitchCommand, NEW d \in SwitchCommand, command'[c].st \in Switch!Busy, command'[d].st \in Switch!Busy
               PROVE  c = d
    BY DEF OneInFlight, Switch!InFlight
  <2> QED
    BY <1>0, <1>1
<1>3. AskedInv' /\ Phased'
  BY <1>0, <1>1 DEF AskedInv, Phased, Switch!TypeOK
<1>4. SentInv'
  <2> SUFFICES ASSUME NEW c \in SwitchCommand
               PROVE  /\ command'[c].st \in {"PREPARING", "FADING", "APPLIED"} => target'[c].st # "none"
                      /\ command'[c].st = "FADING" => target'[c].tracked
                      /\ target'[c].life <= switch_engine'.life
    BY DEF SentInv
  <2> QED
    BY <1>0, <1>1 DEF SentInv
<1>5. CutsInv'
  <2> SUFFICES ASSUME NEW c \in SwitchCommand
               PROVE  /\ switch_engine'.token = c => switch_engine'.phase # "IDLE"
                                               /\ cuts'[c] = (IF switch_engine'.phase = "FADING" THEN 0 ELSE 1)
                      /\ command'[c].st \in {"none", "PENDING", "PREPARING"} => cuts'[c] = 0
                      /\ command'[c].st = "FADING" /\ switch_engine'.token # c /\ target'[c].life = switch_engine'.life
                           => cuts'[c] = 0
    BY DEF CutsInv
  <2> QED
    BY <1>0, <1>1 DEF CutsInv
<1>6. Switch!SwitchedOnce'
  <2> SUFFICES ASSUME NEW c \in SwitchCommand
               PROVE  cuts'[c] <= 1 /\ (command'[c].st = "APPLIED" => cuts'[c] = 1 /\ (target'[c].st = "started" \/ switch_channel'.relay))
    BY DEF Switch!SwitchedOnce
  <2> QED
    BY <1>0, <1>1 DEF Switch!SwitchedOnce, CutsInv
<1>7. Switch!HeldWhenUncertain'
  <2>1. CASE switch_engine.token = Switch!Cur
    BY <1>0, <1>1, <2>1 DEF Switch!HeldWhenUncertain, Switch!Busy
  <2>2. CASE switch_engine.token # Switch!Cur /\ st = "APPLIED"
    BY <2>2
  <2>3. CASE switch_engine.token # Switch!Cur /\ st # "APPLIED"
    <3>1. switch_engine.token # 0 => switch_engine.token \in SwitchCommand \ {Switch!Cur}
      BY <2>3 DEF Switch!TypeOK
    <3> QED
      BY <1>1, <2>3, <3>1 DEF Switch!HeldWhenUncertain
  <2> QED
    BY <2>1, <2>2, <2>3
<1> QED
  BY <1>2, <1>3, <1>4, <1>5, <1>6, <1>7

LEMMA ExpireKeeps == ASSUME Switch!SwitchAssumption, SwitchInv, Switch!Expire, Switch!InFlight # {} PROVE SwitchInv'
<1> USE DEF SwitchInv
<1>0. Switch!Cur \in SwitchCommand /\ Switch!TypeOK'
  BY CurIs, ExpireType
<1>1. /\ command' = [command EXCEPT ![Switch!Cur].st = "FAILED"] /\ UNCHANGED <<cuts, target>>
      /\ switch_engine' \in {switch_engine, [switch_engine EXCEPT !.queue = @ \ {Switch!Cur}]}
      /\ switch_channel' \in {switch_channel, [switch_channel EXCEPT !.held = TRUE]}
  BY DEF Switch!Expire, Switch!Becomes
<1>2. switch_engine'.token = switch_engine.token /\ switch_engine'.phase = switch_engine.phase /\ switch_engine'.life = switch_engine.life
  BY <1>1 DEF Switch!TypeOK
<1>3. switch_channel'.activation = switch_channel.activation /\ switch_channel'.relay = switch_channel.relay /\ ([switch_channel EXCEPT !.held = TRUE]).held
  BY <1>1 DEF Switch!TypeOK
<1>4. switch_channel.held \/ released => switch_channel'.held \/ released'
  BY <1>3 DEF Switch!Expire
<1>5. switch_engine.token = Switch!Cur => switch_channel'.held
  <2> SUFFICES ASSUME switch_engine.token = Switch!Cur PROVE switch_channel'.held
    OBVIOUS
  <2>1. command[Switch!Cur].st = "FADING"
    BY <1>0, CurIs DEF AskedInv, Switch!Busy, Switch!SwitchAssumption
  <2>2. target[Switch!Cur].st # "none"
    BY <1>0, <2>1 DEF SentInv
  <2> QED
    BY <1>3, <2>2 DEF Switch!Expire
<1> QED
  BY <1>0, <1>1, <1>2, <1>3, <1>4, <1>5, MoveKeeps

----------------------------------------------------------------------------
(* The worker's commands to the engine. *)

LEMMA AskKeeps == ASSUME Switch!SwitchAssumption, SwitchInv, Switch!TypeOK', Switch!Ask PROVE SwitchInv'
<1> USE DEF SwitchInv
<1>1. /\ Switch!Cur \in SwitchCommand /\ command[Switch!Cur].st = "FADING" /\ target[Switch!Cur].life = switch_engine.life
      /\ switch_engine' = Switch!Switched(Switch!Cur) /\ UNCHANGED <<command, switch_channel, target, cuts, released>>
      /\ \A c \in SwitchCommand : command[c].st \in Switch!Busy => c = Switch!Cur
  BY CurIs DEF Switch!Ask, Switch!SameEngine, Switch!Here, Switch!Quiet
<1>2. CASE switch_engine.token = Switch!Cur
  BY <1>1, <1>2, CalmKeeps DEF Switch!Switched
<1>3. CASE switch_engine.token # Switch!Cur
  <2>1. switch_engine'.token = Switch!Cur /\ switch_engine'.phase = "FADING" /\ switch_engine'.life = switch_engine.life /\ Switch!Cur # 0
    BY <1>1, <1>3 DEF Switch!Switched, Switch!TypeOK, Switch!SwitchAssumption
  <2>2. cuts[Switch!Cur] = 0
    BY <1>1, <1>3 DEF CutsInv
  <2>3. OneInFlight' /\ AskedInv' /\ Phased' /\ SentInv' /\ Switch!SwitchedOnce'
    BY <1>1, <2>1 DEF OneInFlight, Switch!InFlight, AskedInv, Phased, SentInv, Switch!SwitchedOnce
  <2>4. CutsInv'
    <3> SUFFICES ASSUME NEW c \in SwitchCommand
                 PROVE  /\ switch_engine'.token = c => switch_engine'.phase # "IDLE"
                                               /\ cuts'[c] = (IF switch_engine'.phase = "FADING" THEN 0 ELSE 1)
                        /\ command'[c].st \in {"none", "PENDING", "PREPARING"} => cuts'[c] = 0
                        /\ command'[c].st = "FADING" /\ switch_engine'.token # c /\ target'[c].life = switch_engine'.life
                             => cuts'[c] = 0
      BY DEF CutsInv
    <3> QED
      BY <1>1, <2>1, <2>2 DEF CutsInv, Switch!Busy
  <2>5. Switch!HeldWhenUncertain'
    BY <1>1, <2>1 DEF Switch!HeldWhenUncertain, Switch!Busy
  <2> QED
    BY <2>3, <2>4, <2>5
<1> QED
  BY <1>2, <1>3

(* Under a relay the engine cuts as it answers.                             *)
LEMMA AskAtOnceKeeps ==
  ASSUME Switch!SwitchAssumption, SwitchInv, Switch!TypeOK', Switch!AskUnderRelay
  PROVE  SwitchInv'
<1> USE DEF SwitchInv
<1>1. /\ Switch!Cur \in SwitchCommand /\ command[Switch!Cur].st = "FADING" /\ target[Switch!Cur].life = switch_engine.life
      /\ switch_engine.token # Switch!Cur
      /\ switch_engine' = Switch!SwitchedAtOnce(Switch!Cur) /\ cuts' = [cuts EXCEPT ![Switch!Cur] = @ + 1]
      /\ UNCHANGED <<command, switch_channel, target, released>>
      /\ \A c \in SwitchCommand : command[c].st \in Switch!Busy => c = Switch!Cur
  BY CurIs DEF Switch!AskUnderRelay, Switch!SameEngine, Switch!Here, Switch!Quiet
<1>2. /\ switch_engine'.token = Switch!Cur /\ switch_engine'.phase = "APPLIED" /\ switch_engine'.life = switch_engine.life
      /\ Switch!Cur # 0
  BY <1>1 DEF Switch!SwitchedAtOnce, Switch!TypeOK, Switch!SwitchAssumption
<1>3. cuts'[Switch!Cur] = 1 /\ \A c \in SwitchCommand \ {Switch!Cur} : cuts'[c] = cuts[c]
  BY <1>1 DEF CutsInv, Switch!TypeOK
<1>4. OneInFlight' /\ AskedInv' /\ Phased' /\ SentInv'
  BY <1>1, <1>2 DEF OneInFlight, Switch!InFlight, AskedInv, Phased, SentInv
<1>5. Switch!HeldWhenUncertain'
  BY <1>1, <1>2 DEF Switch!HeldWhenUncertain, Switch!Busy
<1>6. CutsInv'
  <2> SUFFICES ASSUME NEW c \in SwitchCommand
               PROVE  /\ switch_engine'.token = c => switch_engine'.phase # "IDLE"
                                             /\ cuts'[c] = (IF switch_engine'.phase = "FADING" THEN 0 ELSE 1)
                      /\ command'[c].st \in {"none", "PENDING", "PREPARING"} => cuts'[c] = 0
                      /\ command'[c].st = "FADING" /\ switch_engine'.token # c /\ target'[c].life = switch_engine'.life
                           => cuts'[c] = 0
    BY DEF CutsInv
  <2> QED
    BY <1>1, <1>2, <1>3 DEF CutsInv, Switch!Busy
<1>7. Switch!SwitchedOnce'
  <2> SUFFICES ASSUME NEW c \in SwitchCommand
               PROVE  cuts'[c] <= 1 /\ (command'[c].st = "APPLIED" => cuts'[c] = 1 /\ (target'[c].st = "started" \/ switch_channel'.relay))
    BY DEF Switch!SwitchedOnce
  <2> QED
    BY <1>1, <1>3 DEF Switch!SwitchedOnce
<1> QED
  BY <1>4, <1>5, <1>6, <1>7

LEMMA TrackKeeps == ASSUME Switch!SwitchAssumption, SwitchInv, Switch!TypeOK', Switch!Track PROVE SwitchInv'
<1> USE DEF SwitchInv
<1>1. /\ Switch!Cur \in SwitchCommand /\ command[Switch!Cur].st \in Switch!Busy /\ ~target[Switch!Cur].tracked
      /\ target' = [target EXCEPT ![Switch!Cur] = [st |-> "queued", tracked |-> TRUE, life |-> switch_engine.life]]
      /\ UNCHANGED <<command, switch_channel, switch_engine, cuts, released>>
  BY CurIs DEF Switch!Track, Switch!Quiet
<1>2. command[Switch!Cur].st \in {"PENDING", "PREPARING"}
  BY <1>1 DEF SentInv, Switch!Busy
<1>3. /\ target'[Switch!Cur].st = "queued" /\ target'[Switch!Cur].tracked /\ target'[Switch!Cur].life = switch_engine.life
      /\ \A c \in SwitchCommand \ {Switch!Cur} : target'[c] = target[c]
  BY <1>1 DEF Switch!TypeOK
<1>4. OneInFlight' /\ AskedInv' /\ Phased' /\ Switch!HeldWhenUncertain'
  BY <1>1 DEF OneInFlight, Switch!InFlight, AskedInv, Phased, Switch!HeldWhenUncertain
<1>5. SentInv'
  <2>1. switch_engine.life <= switch_engine.life
    BY DEF Switch!TypeOK
  <2> QED
    BY <1>1, <1>3, <2>1 DEF SentInv
<1>6. CutsInv' /\ Switch!SwitchedOnce'
  BY <1>1, <1>2, <1>3 DEF CutsInv, Switch!SwitchedOnce
<1> QED
  BY <1>4, <1>5, <1>6

LEMMA ApplyKeeps == ASSUME Switch!SwitchAssumption, SwitchInv, Switch!TypeOK', Switch!Apply PROVE SwitchInv'
<1> USE DEF SwitchInv
<1>1. /\ Switch!Cur \in SwitchCommand /\ command[Switch!Cur].st = "FADING" /\ Switch!InFlight # {}
      /\ switch_engine.token = Switch!Cur /\ switch_engine.phase = "APPLIED"
      /\ target[Switch!Cur].st = "started" \/ Switch!Cur \in Switch!Unread \/ switch_channel.relay
      /\ command' = [command EXCEPT ![Switch!Cur].st = "APPLIED"] /\ UNCHANGED <<switch_engine, cuts>>
      /\ switch_channel' = [mode |-> command[Switch!Cur].mode, revision |-> switch_channel.revision + 1, activation |-> Switch!Cur,
                     held |-> FALSE, operator |-> "AUTO", relay |-> switch_channel.relay]
  BY CurIs DEF Switch!Apply, Switch!Heard, Switch!IsApplied, Switch!SameEngine, Switch!Here, Switch!Becomes
<1>2. target' = [c \in SwitchCommand |-> IF c # Switch!Cur /\ target[c].st \in {"selected", "queued"}
                  THEN [target[c] EXCEPT !.st = "failed"] ELSE Switch!Read(target, Switch!Unread)[c]]
  BY DEF Switch!Apply
<1>3. \A c \in SwitchCommand : /\ target'[c].life = target[c].life /\ target'[c].tracked = target[c].tracked
                               /\ target[c].st = "started" => target'[c].st = "started"
                               /\ target[c].st # "none" => target'[c].st # "none"
  BY <1>2, ReadKeeps DEF Switch!TypeOK
<1>4. target'[Switch!Cur].st # "none" /\ (target'[Switch!Cur].st = "started" \/ switch_channel.relay)
  <2>1. target[Switch!Cur].st # "none" /\ target'[Switch!Cur] = Switch!Read(target, Switch!Unread)[Switch!Cur]
    BY <1>1, <1>2 DEF SentInv
  <2> QED
    BY <1>1, <2>1, ReadKeeps
<1>5. /\ switch_channel'.activation = Switch!Cur /\ switch_channel'.relay = switch_channel.relay
  BY <1>1
<1> QED
  BY <1>1, <1>3, <1>4, <1>5, MoveKeeps

----------------------------------------------------------------------------
(* The engine. *)

LEMMA FadeEndsKeeps == ASSUME Switch!SwitchAssumption, SwitchInv, Switch!TypeOK', Switch!FadeEnds PROVE SwitchInv'
<1> USE DEF SwitchInv
<1>1. /\ switch_engine.phase = "FADING" /\ switch_engine'.token = switch_engine.token /\ switch_engine'.phase = "APPLIED"
      /\ switch_engine'.life = switch_engine.life /\ cuts' = [cuts EXCEPT ![switch_engine.token] = @ + 1]
      /\ UNCHANGED <<command, switch_channel, target, released>>
  BY DEF Switch!FadeEnds, Switch!EngineStep, Switch!TypeOK
<1>2. switch_engine.token \in SwitchCommand /\ switch_engine.token # 0
  BY <1>1 DEF Phased, Switch!TypeOK
<1>3. cuts'[switch_engine.token] = 1 /\ \A c \in SwitchCommand \ {switch_engine.token} : cuts'[c] = cuts[c]
  BY <1>1, <1>2 DEF CutsInv, Switch!TypeOK
<1>4. OneInFlight' /\ AskedInv' /\ Phased' /\ SentInv' /\ Switch!HeldWhenUncertain'
  BY <1>1, <1>2 DEF OneInFlight, Switch!InFlight, AskedInv, Phased, SentInv, Switch!HeldWhenUncertain
<1>5. command[switch_engine.token].st \in {"FADING", "APPLIED", "FAILED"}
  BY <1>2 DEF AskedInv
<1>6. CutsInv' /\ Switch!SwitchedOnce'
  BY <1>1, <1>3, <1>5 DEF CutsInv, Switch!SwitchedOnce
<1> QED
  BY <1>4, <1>6

LEMMA RestartKeeps == ASSUME Switch!SwitchAssumption, SwitchInv, Switch!TypeOK', Switch!EngineRestarts PROVE SwitchInv'
<1> USE DEF SwitchInv
<1>1. /\ switch_engine'.token = 0 /\ switch_engine'.phase = "IDLE" /\ switch_engine'.life = switch_engine.life + 1
      /\ UNCHANGED <<command, switch_channel, target, cuts, released>>
  BY DEF Switch!EngineRestarts
<1>2. \A c \in SwitchCommand : c # 0 /\ target[c].life # switch_engine'.life /\ target[c].life <= switch_engine'.life
  BY <1>1 DEF SentInv, Switch!TypeOK, Switch!SwitchAssumption
<1> QED
  BY <1>1, <1>2 DEF OneInFlight, Switch!InFlight, AskedInv, Phased, SentInv, CutsInv, Switch!SwitchedOnce, Switch!HeldWhenUncertain

LEMMA RequestKeeps == ASSUME Switch!SwitchAssumption, SwitchInv, Switch!TypeOK', NEW m \in Mode, Switch!Request(m) PROVE SwitchInv'
<1> USE DEF SwitchInv
<1>1. PICK c \in Switch!New : command' = [command EXCEPT ![c] = [st |-> "PENDING", mode |-> m, revision |-> switch_channel.revision]]
  BY DEF Switch!Request
<1>2. /\ c \in SwitchCommand /\ command[c].st = "none" /\ command'[c].st = "PENDING"
      /\ \A d \in SwitchCommand \ {c} : command'[d] = command[d] /\ command[d].st \notin Switch!Busy
  BY <1>1 DEF Switch!New, Switch!TypeOK, Switch!Request, Switch!InFlight
<1>3. UNCHANGED <<switch_channel, switch_engine, target, cuts, released>>
  BY DEF Switch!Request
<1>4. switch_engine.token # c
  BY <1>2 DEF AskedInv, Switch!SwitchAssumption
<1>5. OneInFlight'
  BY <1>2 DEF OneInFlight, Switch!InFlight
<1>6. AskedInv' /\ Phased'
  BY <1>2, <1>3, <1>4 DEF AskedInv, Phased, Switch!TypeOK
<1>8. SentInv'
  BY <1>2, <1>3 DEF SentInv
<1>9. CutsInv' /\ Switch!SwitchedOnce'
  BY <1>2, <1>3, <1>4 DEF CutsInv, Switch!SwitchedOnce
<1>7. Switch!HeldWhenUncertain'
  BY <1>2, <1>3, <1>4 DEF Switch!HeldWhenUncertain, Switch!TypeOK
<1> QED
  BY <1>5, <1>6, <1>7, <1>8, <1>9

----------------------------------------------------------------------------
LEMMA SwitchKept == ASSUME Switch!SwitchAssumption PROVE SwitchInv /\ [Switch!Next]_(Switch!switchVars) => SwitchInv'
<1> SUFFICES ASSUME SwitchInv, [Switch!Next]_(Switch!switchVars) PROVE SwitchInv'
  OBVIOUS
<1> USE DEF SwitchInv
<1>t. Switch!TypeOK'
  <2>1. CASE UNCHANGED Switch!switchVars
    BY <2>1 DEF Switch!switchVars, Switch!TypeOK
  <2> QED
    BY <2>1, SwitchTyped
<1>1. CASE Switch!Enter
  <2>1. UNCHANGED <<command, cuts, switch_engine, switch_channel, released>> /\ target' = Switch!Read(target, starts \ known)
    BY <1>1 DEF Switch!Enter
  <2> QED
    BY <1>t, <2>1, ReadKeeps, CalmKeeps
<1>2. CASE Switch!ExpireUnsent \/ Switch!PushRefused \/ Switch!EngineWentAway \/ Switch!LateStatus \/ Switch!LateStart \/ (Switch!SocketDown /\ late)
  BY <1>2, ExpireKeeps DEF Switch!ExpireUnsent, Switch!PushRefused, Switch!EngineWentAway, Switch!LateStatus, Switch!LateStart, Switch!SocketDown, Switch!Here2, Switch!Here,
     Switch!SameEngine, Switch!IsApplied
<1>3. CASE Switch!Refuse
  <2>1. Switch!InFlight # {} /\ command[Switch!Cur].st = "PENDING" /\ command' = [command EXCEPT ![Switch!Cur].st = "FAILED"]
        /\ UNCHANGED <<cuts, switch_engine, switch_channel, released, target>>
    BY <1>3 DEF Switch!Refuse, Switch!Here, Switch!Becomes, Switch!Quiet
  <2>2. switch_engine.token # Switch!Cur
    BY <2>1, CurIs DEF AskedInv, Switch!SwitchAssumption
  <2> QED
    BY <1>t, <2>1, <2>2, MoveKeeps
<1>4. CASE Switch!Prepare
  <2>1. Switch!InFlight # {} /\ command[Switch!Cur].st = "PENDING" /\ command' = [command EXCEPT ![Switch!Cur].st = "PREPARING"]
        /\ UNCHANGED <<cuts, switch_engine, switch_channel, released>> /\ target' = [target EXCEPT ![Switch!Cur].st = "selected"]
    BY <1>4 DEF Switch!Prepare, Switch!Here, Switch!Becomes, Switch!Quiet
  <2>2. switch_engine.token # Switch!Cur /\ Switch!Cur \in SwitchCommand
    BY <2>1, CurIs DEF AskedInv, Switch!SwitchAssumption
  <2>3. /\ \A c \in SwitchCommand : target'[c].life = target[c].life /\ target'[c].tracked = target[c].tracked
        /\ \A c \in SwitchCommand \ {Switch!Cur} : target'[c] = target[c]
        /\ target'[Switch!Cur].st = "selected"
    BY <2>1, <2>2 DEF Switch!TypeOK
  <2> QED
    BY <1>t, <2>1, <2>2, <2>3, MoveKeeps
<1>5. CASE Switch!Push
  <2>1. UNCHANGED <<command, cuts, switch_channel, released, target>> /\ switch_engine' = [switch_engine EXCEPT !.queue = @ \cup {Switch!Cur}]
    BY <1>5 DEF Switch!Push, Switch!Quiet
  <2>2. switch_engine'.token = switch_engine.token /\ switch_engine'.phase = switch_engine.phase /\ switch_engine'.life = switch_engine.life
    BY <2>1 DEF Switch!TypeOK
  <2> QED
    BY <1>t, <2>1, <2>2, CalmKeeps
<1>6. CASE Switch!Track
  BY <1>t, <1>6, TrackKeeps
<1>7. CASE Switch!Intend
  <2>1. Switch!InFlight # {} /\ command[Switch!Cur].st = "PREPARING" /\ command' = [command EXCEPT ![Switch!Cur].st = "FADING"]
        /\ UNCHANGED <<cuts, switch_engine, switch_channel, released, target>> /\ target[Switch!Cur].tracked
    BY <1>7 DEF Switch!Intend, Switch!Here2, Switch!Here, Switch!Becomes, Switch!Quiet
  <2>2. switch_engine.token # Switch!Cur /\ target[Switch!Cur].st # "none"
    BY <2>1, CurIs DEF AskedInv, Switch!SwitchAssumption, SentInv
  <2> QED
    BY <1>t, <2>1, <2>2, MoveKeeps
<1>8. CASE Switch!Ask
  BY <1>t, <1>8, AskKeeps
<1>8a. CASE Switch!AskUnderRelay
  BY <1>t, <1>8a, AskAtOnceKeeps
<1>9. CASE Switch!AwaitStart \/ (Switch!SocketDown /\ ~late) \/ Switch!Crash \/ Switch!Grows \/ UNCHANGED Switch!switchVars
  <2>1. UNCHANGED <<command, cuts, switch_engine, switch_channel, released, target>>
    BY <1>9 DEF Switch!AwaitStart, Switch!SocketDown, Switch!Crash, Switch!Grows, Switch!switchVars, Switch!Quiet
  <2> QED
    BY <1>t, <2>1, CalmKeeps
<1>10. CASE Switch!Apply
  BY <1>t, <1>10, ApplyKeeps
<1>11. ASSUME NEW m \in Mode, Switch!Request(m) PROVE SwitchInv'
  BY <1>t, <1>11, RequestKeeps
<1>12. CASE Switch!EditSchedule \/ Switch!SongDeleted \/ Switch!TakeControl \/ Switch!ReturnControl \/ \E h \in BOOLEAN : Switch!SetHold(h)
  <2>1. UNCHANGED <<command, cuts, switch_engine, target>> /\ switch_channel'.activation = switch_channel.activation
        /\ switch_channel'.relay = switch_channel.relay
    BY <1>12 DEF Switch!EditSchedule, Switch!SongDeleted, Switch!TakeControl, Switch!ReturnControl, Switch!SetHold, Switch!Manual, Switch!TypeOK
  <2>2. switch_channel.held \/ released => switch_channel'.held \/ released'
    BY <1>12 DEF Switch!EditSchedule, Switch!SongDeleted, Switch!TakeControl, Switch!ReturnControl, Switch!SetHold, Switch!Manual, Switch!TypeOK
  <2> QED
    BY <1>t, <2>1, <2>2, CalmKeeps
<1>13. CASE (\E c \in SwitchCommand : Switch!Advances(c)) \/ Switch!TargetEnds \/ Switch!Confirm
  <2>1. UNCHANGED <<command, cuts, switch_channel, released, target>>
    BY <1>13 DEF Switch!Advances, Switch!TargetEnds, Switch!Confirm, Switch!EngineStep
  <2>2. switch_engine'.token = switch_engine.token /\ switch_engine'.phase = switch_engine.phase /\ switch_engine'.life = switch_engine.life
    BY <1>13 DEF Switch!Advances, Switch!TargetEnds, Switch!Confirm, Switch!EngineStep, Switch!TypeOK
  <2> QED
    BY <1>t, <2>1, <2>2, CalmKeeps
<1>14. CASE Switch!FadeEnds
  BY <1>t, <1>14, FadeEndsKeeps
<1>15. CASE Switch!EngineRestarts
  BY <1>t, <1>15, RestartKeeps
<1> QED
  BY <1>1, <1>2, <1>3, <1>4, <1>5, <1>6, <1>7, <1>8, <1>8a, <1>9, <1>10, <1>11, <1>12, <1>13, <1>14, <1>15
  DEF Switch!Next, Switch!Work, Switch!Operators, Switch!Engine

LEMMA SwitchInvSafe == SwitchInv => Switch!HeldWhenUncertain /\ Switch!SwitchedOnce
BY DEF SwitchInv

----------------------------------------------------------------------------
(* When the engine has switched, or is about to, for a command that was     *)
(* given up, automation is held until an operator lets it go.               *)
THEOREM UncertainSwitchHolds == ASSUME Switch!SwitchAssumption PROVE Switch!Spec => []Switch!HeldWhenUncertain
BY SwitchBegins, SwitchKept, SwitchInvSafe, PTL DEF Switch!Spec

(* However often a switch is asked for, the engine cuts the program once    *)
(* for it, and a mode is active only once its target was heard.             *)
THEOREM CutsOncePerCommand == ASSUME Switch!SwitchAssumption PROVE Switch!Spec => []Switch!SwitchedOnce
BY SwitchBegins, SwitchKept, SwitchInvSafe, PTL DEF Switch!Spec

(* A switch of the mode that was given up but may have happened holds       *)
(* automation, and the engine cuts the programme once for each command.     *)
THEOREM SwitchIsAlwaysSafe == ASSUME Switch!SwitchAssumption PROVE Spec => []SwitchIsSafe
<1> DEFINE I == part = "switch" => SwitchInv
<1>1. Init => I
  BY SwitchBegins DEF Init
<1>2. I /\ [Next]_vars => I'
  <2> SUFFICES ASSUME I, [Next]_vars, part' = "switch" PROVE SwitchInv'
    OBVIOUS
  <2>1. CASE SwitchNext
    BY <2>1, SwitchKept DEF SwitchNext
  <2>2. CASE UNCHANGED vars
    BY <2>2, Stuttering, SwitchKept
  <2>3. CASE Others \/ UpgradesNext \/ ReportNext
    BY <2>3, OnePartMoves DEF UpgradesNext, ReportNext
  <2> QED
    BY <2>1, <2>2, <2>3 DEF Next, Others
<1>3. I => SwitchIsSafe
  BY SwitchInvSafe DEF SwitchIsSafe
<1> QED
  BY <1>1, <1>2, <1>3, PTL DEF Spec

(* The premise of the refinement, which an operator has to see to: the      *)
(* web's upgrade never begins beside an unfinished operation.               *)
UpgradesApart == [][~Upgrades!BeginsBeside]_vars

LEMMA UpgradesOnce == Spec => [](part = "upgrades" => Upgrades!Once)
<1> DEFINE I == part = "upgrades" => Upgrades!Once
<1>1. Init => I
  BY Upgrades!InitIInv DEF Init
<1>2. I /\ [Next]_vars => I'
  <2> SUFFICES ASSUME I, [Next]_vars, part' = "upgrades" PROVE Upgrades!Once'
    OBVIOUS
  <2>1. CASE UpgradesNext
    BY <2>1, Upgrades!OnceKept DEF UpgradesNext
  <2>2. CASE UNCHANGED vars
    BY <2>2, Stuttering, Upgrades!OnceKept
  <2>3. CASE Others \/ ReportNext \/ SwitchNext
    BY <2>3, OnePartMoves DEF ReportNext, SwitchNext
  <2> QED
    BY <2>1, <2>2, <2>3 DEF Next, Others
<1> QED
  BY <1>1, <1>2, PTL DEF Spec

LEMMA UpgradesStand == [~Upgrades!BeginsBeside]_vars => [~Upgrades!BeginsBeside]_(Upgrades!maintVars)
BY DEF vars, upgrades, Upgrades!maintVars, Upgrades!units, Upgrades!installed, Upgrades!backups, Upgrades!process,
       Upgrades!bounds

LEMMA UpgradesInv == Spec /\ UpgradesApart => [](part = "upgrades" => Upgrades!IInv)
<1> DEFINE I == part = "upgrades" => Upgrades!IInv
<1>1. Init => I
  BY Upgrades!InitIInv DEF Init
<1>2. I /\ [Next]_vars /\ [~Upgrades!BeginsBeside]_vars => I'
  <2> SUFFICES ASSUME I, [Next]_vars, [~Upgrades!BeginsBeside]_vars, part' = "upgrades" PROVE Upgrades!IInv'
    OBVIOUS
  <2>1. CASE UpgradesNext
    <3>1. [~Upgrades!BeginsBeside]_(Upgrades!maintVars)
      BY UpgradesStand
    <3> QED
      BY <2>1, <3>1, Upgrades!IInvKept DEF UpgradesNext
  <2>2. CASE UNCHANGED vars
    <3>1. UNCHANGED Upgrades!maintVars
      BY <2>2, Stuttering
    <3> QED
      BY <2>2, <3>1, Stuttering, Upgrades!IInvKept
  <2>3. CASE Others \/ ReportNext \/ SwitchNext
    BY <2>3, OnePartMoves DEF ReportNext, SwitchNext
  <2> QED
    BY <2>1, <2>2, <2>3 DEF Next, Others
<1> QED
  BY <1>1, <1>2, PTL DEF Spec, UpgradesApart

(* The schema is migrated at most once for a plan, whatever the web's       *)
(* upgrade begins beside; and unless it begins beside an unfinished         *)
(* operation nothing runs on code, schema and files that do not belong      *)
(* together.                                                                *)
THEOREM MigratesOnceAlways ==
  /\ Spec => [](part = "upgrades" => Upgrades!MigratesOnce)
  /\ Spec /\ UpgradesApart => []MigratesOnce
<1>1. (part = "upgrades" => Upgrades!Once) => (part = "upgrades" => Upgrades!MigratesOnce)
  BY Upgrades!InvSafe
<1>2. (part = "upgrades" => Upgrades!IInv) /\ (part = "upgrades" => Upgrades!Once) => MigratesOnce
  BY Upgrades!InvSafe DEF MigratesOnce
<1> QED
  BY <1>1, <1>2, UpgradesOnce, UpgradesInv, PTL

(* In the joint state space too, unless the web's upgrade begins beside an  *)
(* unfinished operation, every step of the maintenance is one that          *)
(* Installation permits, and the other components leave it alone.           *)
THEOREM ImplementsAlways == Spec /\ UpgradesApart => ImplementsInstallation
<1> DEFINE I == part = "upgrades" => Upgrades!IInv
<1>1. Init => Upgrades!Promise!Init
  BY Upgrades!InitMaps DEF Init
<1>2. I /\ [Next]_vars /\ [~Upgrades!BeginsBeside]_vars => [Upgrades!Promise!Next]_<<running, Upgrades!Shown, quiet>>
  <2> SUFFICES ASSUME I, [Next]_vars, [~Upgrades!BeginsBeside]_vars
               PROVE  [Upgrades!Promise!Next]_<<running, Upgrades!Shown, quiet>>
    OBVIOUS
  <2>1. CASE UpgradesNext
    <3>1. [~Upgrades!BeginsBeside]_(Upgrades!maintVars)
      BY UpgradesStand
    <3> QED
      BY <2>1, <3>1, Upgrades!StepMaps DEF UpgradesNext
  <2>2. CASE UNCHANGED vars \/ Others \/ ReportNext \/ SwitchNext
    <3>1. UNCHANGED upgrades
      BY <2>2 DEF vars, Others, StationsNext, MediaNext, ProductionNext, BulletinNext, CentralNext, LookaheadNext,
                  ReportNext, SwitchNext
    <3> QED
      BY <3>1 DEF upgrades, Upgrades!Shown
  <2> QED
    BY <2>1, <2>2 DEF Next, Others
<1> QED
  BY <1>1, <1>2, UpgradesInv, PTL DEF Spec, UpgradesApart, ImplementsInstallation, Upgrades!ImplementsInstallation,
     Upgrades!Promise!Spec, Upgrades!Shown

----------------------------------------------------------------------------
(* The identity at the central API.  A registration that was asked for is   *)
(* spent by the request: between the two, it is the state of the row, or the *)
(* place of the reporter, that stands for it.                               *)

Unspent == IF Central!MayRegister THEN 1 ELSE 0
OnItsWay ==
  IF rep.pc = "registering" THEN 1 + Unspent ELSE IF rep.pc = "uncertain" THEN 1 ELSE Unspent
CentralTypes ==
  /\ asks \in Nat /\ allowed \in Nat /\ server.registered \in Nat /\ server.enrolled \in BOOLEAN
  /\ server = [registered |-> server.registered, enrolled |-> server.enrolled, owner |-> server.owner,
               beats |-> server.beats]
  /\ rep = [pc |-> rep.pc, mem |-> rep.mem, first |-> rep.first, manual |-> rep.manual, beat |-> rep.beat,
            got |-> rep.got]
  /\ central_file = [kind |-> central_file.kind, id |-> central_file.id]
(* The file stands for what the reporter is about to ask for or to record.  *)
FileFollows ==
  /\ rep.pc \in {"enrolling", "enroll"} => central_file.kind = "token"
  /\ rep.pc \in {"uncertain", "registering"} => central_file = Central!Marker
  /\ rep.pc \in {"uncertain", "registering", "enrolling", "enroll", "credential"} => inst = 0
  /\ rep.pc = "identity" => central_file = Central!Identity(rep.got)
NothingUnasked == server.registered + OnItsWay <= allowed
CentralInv == CentralTypes /\ FileFollows /\ Central!CredentialKept /\ NothingUnasked

LEMMA CentralBegins == ASSUME Central!Init PROVE CentralInv
<1>1. CentralTypes
  BY DEF Central!Init, CentralTypes, Central!Down, Central!Asleep, Central!NoFile
<1>2. rep.pc = "down" /\ inst = 0 /\ ~server.enrolled /\ server.registered = 0 /\ allowed = 0
  BY DEF Central!Init, Central!Down, Central!Asleep
<1>3. FileFollows /\ Central!CredentialKept
  BY <1>2 DEF FileFollows, Central!CredentialKept
<1>4. NothingUnasked
  BY <1>2 DEF NothingUnasked, OnItsWay, Unspent, Central!MayRegister, Central!Init
<1> QED
  BY <1>1, <1>3, <1>4 DEF CentralInv

LEMMA CentralKept == ASSUME CentralInv, Central!Next PROVE CentralInv'
<1> USE DEF CentralInv, CentralTypes, FileFollows, Central!CredentialKept, NothingUnasked, OnItsWay, Unspent,
            Central!MayRegister, Central!Asks, Central!Breaks, Central!Works, Central!row, Central!Goes,
            Central!NoRow, Central!Outside, Central!Asleep, Central!Down, Central!Identity, Central!Marker
<1>1. CASE Central!Configure
  BY <1>1 DEF Central!Configure
<1>2. CASE Central!AcknowledgeRetry
  BY <1>2 DEF Central!AcknowledgeRetry
<1>3. CASE Central!QueueActivation
  BY <1>3 DEF Central!QueueActivation
<1>4. CASE Central!RetryConnection
  BY <1>4 DEF Central!RetryConnection
<1>5. CASE Central!QueueCheck
  BY <1>5 DEF Central!QueueCheck
<1>6. CASE Central!RecoverCredential
  BY <1>6 DEF Central!RecoverCredential
<1>7. CASE Central!TimePasses
  BY <1>7 DEF Central!TimePasses
<1>8. CASE Central!Dies
  <2>1. rep'.pc = "down" /\ UNCHANGED <<reg, inst, central_file, server, allowed, asks>>
    BY <1>8 DEF Central!Dies
  <2>2. CentralTypes'
    BY <1>8, <2>1 DEF Central!Dies
  <2> QED
    BY <2>1, <2>2
<1>9. CASE Central!Starts
  BY <1>9 DEF Central!Starts
<1>10. CASE Central!Interrupted
  BY <1>10 DEF Central!Interrupted
<1>11. CASE Central!BeginsCheck
  BY <1>11 DEF Central!BeginsCheck
<1>12. CASE Central!BeginsTick
  BY <1>12 DEF Central!BeginsTick
<1>13. CASE Central!Probe
  BY <1>13 DEF Central!Probe
<1>14. CASE Central!Register
  BY <1>14 DEF Central!Register, Central!KnowsIdentity, Central!CannotRegister, Central!Enroll, Central!Attempt,
               Central!Enrols, Central!Marked, Central!TokenFile
<1>15. CASE Central!Uncertain
  BY <1>15 DEF Central!Uncertain
<1>16. CASE Central!Registering
  <2>1. /\ rep.pc = "registering" /\ UNCHANGED <<reg, inst, central_file, allowed, asks>>
        /\ rep'.pc \in {"credential", "end"} /\ server'.enrolled = server.enrolled
        /\ server'.registered \in {server.registered, server.registered + 1}
    BY <1>16 DEF Central!Registering
  <2>2. server' = [registered |-> server'.registered, enrolled |-> server'.enrolled, owner |-> server'.owner,
                   beats |-> server'.beats]
    BY <1>16 DEF Central!Registering
  <2>3. rep' = [pc |-> rep'.pc, mem |-> rep'.mem, first |-> rep'.first, manual |-> rep'.manual,
                beat |-> rep'.beat, got |-> rep'.got]
    BY <1>16 DEF Central!Registering
  <2> QED
    BY <2>1, <2>2, <2>3
<1>17. CASE Central!Enrolling
  BY <1>17 DEF Central!Enrolling
<1>18. CASE Central!Enrolled
  <2>1. /\ rep.pc = "enroll" /\ rep'.pc \in {"credential", "end"} /\ reg' \in {reg, "credentials_rejected"}
        /\ server'.registered = server.registered /\ UNCHANGED <<inst, central_file, allowed, asks>>
    BY <1>18 DEF Central!Enrolled
  <2>2. CentralTypes'
    BY <1>18, <2>1 DEF Central!Enrolled
  <2>3. central_file.kind \in {"token", "identity"}
    BY <2>1
  <2> QED
    BY <2>1, <2>2, <2>3
<1>19. CASE Central!WritesCredential
  BY <1>19 DEF Central!WritesCredential
<1>20. CASE Central!CommitsIdentity
  BY <1>20 DEF Central!CommitsIdentity
<1>21. CASE Central!Activate
  BY <1>21 DEF Central!Activate, Central!Reads
<1>22. CASE Central!Claims
  BY <1>22 DEF Central!Claims, Central!Answered, Central!Base
<1>23. CASE Central!License
  <2>1. /\ rep.pc = "license" /\ rep'.pc \in {"licensed", "report", "end"}
        /\ UNCHANGED <<reg, inst, central_file, server, allowed, asks>>
    BY <1>23 DEF Central!License, Central!AfterLicense
  <2>2. CentralTypes'
    BY <1>23, <2>1 DEF Central!License
  <2> QED
    BY <2>1, <2>2
<1>24. CASE Central!Licensed
  <2>1. /\ rep.pc = "licensed" /\ rep'.pc \in {"report", "end"} /\ reg' \in {reg, "credentials_rejected"}
        /\ UNCHANGED <<inst, central_file, server, allowed, asks>>
    BY <1>24 DEF Central!Licensed, Central!AfterLicense, Central!Answers
  <2>2. CentralTypes'
    BY <1>24, <2>1 DEF Central!Licensed, Central!Answers
  <2> QED
    BY <2>1, <2>2
<1>25. CASE Central!Report
  <2>1. /\ rep.pc = "report" /\ rep'.pc = "end" /\ reg' \in {reg, "credentials_rejected"}
        /\ server'.registered = server.registered /\ server'.enrolled = server.enrolled
        /\ UNCHANGED <<inst, central_file, allowed, asks>>
    BY <1>25 DEF Central!Report
  <2>2. CentralTypes'
    BY <1>25, <2>1 DEF Central!Report
  <2> QED
    BY <2>1, <2>2
<1>26. CASE Central!Ends
  BY <1>26 DEF Central!Ends
<1> QED
  BY <1>1, <1>2, <1>3, <1>4, <1>5, <1>6, <1>7, <1>8, <1>9, <1>10, <1>11, <1>12, <1>13, <1>14, <1>15, <1>16, <1>17, <1>18, <1>19, <1>20, <1>21, <1>22, <1>23, <1>24, <1>25, <1>26 DEF Central!Next, Central!Reporter

LEMMA CentralRests == ASSUME CentralInv, UNCHANGED central PROVE CentralInv'
<1>1. UNCHANGED <<reg, inst, central_file, server, rep, allowed, asks>>
  BY DEF central
<1> QED
  BY <1>1 DEF CentralInv, CentralTypes, FileFollows, NothingUnasked, OnItsWay, Unspent, Central!MayRegister,
              Central!CredentialKept, Central!Identity, Central!Marker

(* The central API makes no identity that an administrator did not ask for, *)
(* whatever is lost between the reporter and it; and an identity that was   *)
(* enrolled or is known to the database has its credential on the disk.     *)
THEOREM OneIdentityAlways == Spec => []OneIdentity
<1> DEFINE I == part = "central" => CentralInv
<1>1. Init => I
  BY CentralBegins DEF Init
<1>2. I /\ [Next]_vars => I'
  <2> SUFFICES ASSUME I, [Next]_vars, part' = "central" PROVE CentralInv'
    OBVIOUS
  <2>1. CASE CentralNext
    BY <2>1, CentralKept DEF CentralNext
  <2>2. CASE UNCHANGED vars
    BY <2>2, Stuttering, CentralRests
  <2>3. CASE StationsNext \/ UpgradesNext \/ MediaNext \/ ProductionNext \/ BulletinNext \/ ReportNext \/ SwitchNext
             \/ LookaheadNext
    BY <2>3 DEF StationsNext, UpgradesNext, MediaNext, ProductionNext, BulletinNext, ReportNext, SwitchNext,
                LookaheadNext
  <2> QED
    BY <2>1, <2>2, <2>3 DEF Next
<1>3. I => OneIdentity
  <2> SUFFICES ASSUME CentralInv PROVE Central!OneIdentity
    BY DEF OneIdentity, CentralInv
  <2>1. OnItsWay \in Nat /\ server.registered \in Nat /\ allowed \in Nat
    BY DEF CentralInv, CentralTypes, OnItsWay, Unspent
  <2> QED
    BY <2>1 DEF CentralInv, NothingUnasked, Central!OneIdentity
<1> QED
  BY <1>1, <1>2, <1>3, PTL DEF Spec

----------------------------------------------------------------------------
(* The file of a song that is deleted.  The deletion is asked for in one    *)
(* commit with the cancellation of what was decided; from then on nothing is *)
(* handed to the engine, and the file goes once the engine let go.           *)

MediaTypes ==
  /\ queued \in BOOLEAN /\ audio \in BOOLEAN /\ media_row \in BOOLEAN
  /\ cancel \in {"none", "open", "done"}
  /\ media_song.there \in BOOLEAN /\ media_song.deleted \in BOOLEAN
  /\ media_song = [there |-> media_song.there, on |-> media_song.on, auto |-> media_song.auto,
                   retired |-> media_song.retired, deleted |-> media_song.deleted, cue |-> media_song.cue,
                   edited |-> media_song.edited, state |-> media_song.state, asked |-> media_song.asked,
                   tries |-> media_song.tries]
  /\ media_work = [pc |-> media_work.pc, of |-> media_work.of, retired |-> media_work.retired,
                   edited |-> media_work.edited]
  /\ broadcast.overruled \in BOOLEAN
  /\ broadcast = [wanted |-> broadcast.wanted, runs |-> broadcast.runs, overruled |-> broadcast.overruled]
Condemned == media_song.there /\ media_song.deleted
DeletionStands ==
  /\ erase \in {"pending", "processing", "error"} => Condemned
  /\ erase # "rejected" /\ (media_work.pc = "erase" => erase = "processing" /\ (queued => broadcast.overruled))
CancellationStands ==
  /\ cancel # "none" => Condemned
  /\ cancel = "done" => ~queued
  /\ queued /\ ~broadcast.overruled => (media_row /\ (media_song.deleted => cancel # "none"))
MediaInv == MediaTypes /\ DeletionStands /\ CancellationStands /\ Media!FileOutlivesQueue

LEMMA MediaBegins == ASSUME Media!Init PROVE MediaInv
<1>1. MediaTypes
  BY DEF Media!Init, MediaTypes, Media!NoSong, Media!Idle
<1>2. DeletionStands
  BY DEF Media!Init, DeletionStands, Condemned, Media!NoSong, Media!Idle
<1>3. CancellationStands /\ Media!FileOutlivesQueue
  BY DEF Media!Init, CancellationStands, Condemned, Media!FileOutlivesQueue
<1> QED
  BY <1>1, <1>2, <1>3 DEF MediaInv

(* What a step leaves alone of what the invariant speaks of.                *)
Untouched == UNCHANGED <<queued, audio, media_row, cancel, erase, broadcast>>
SameSong  == media_song'.there = media_song.there /\ media_song'.deleted = media_song.deleted

LEMMA MediaUntouched ==
  ASSUME MediaInv, MediaTypes', Untouched, SameSong, media_work'.pc # "erase" \/ media_work'.pc = media_work.pc
  PROVE  MediaInv'
BY DEF MediaInv, MediaTypes, DeletionStands, CancellationStands, Condemned, Media!FileOutlivesQueue, Untouched, SameSong

LEMMA MediaKept == ASSUME MediaInv, Media!Next PROVE MediaInv'
<1> USE DEF Media!workspace, Media!catalog, Media!playback, Media!Asks, Media!Fault, Media!Quiet, Media!Edits,
            Media!Auto, Media!At, Media!Turns, Media!Rests, Media!Stays, Media!Claims, Media!Draft, Media!Idle
<1>1. CASE \/ (\E u \in Upload : Media!Stage(u))
           \/ (\E u \in Upload : Media!StageCommits(u))
           \/ (\E u \in Upload : Media!StageFails(u))
           \/ (\E u \in Upload : Media!DirectUpload(u))
           \/ (\E u \in Upload : Media!Dismiss(u))
           \/ (\E u \in Upload : Media!RetryJob(u))
           \/ (\E u \in Upload : Media!RetryPreparation(u))
           \/ (\E u \in Upload : Media!Save(u))
           \/ (\E u \in Upload : Media!Finalize(u))
           \/ Media!WeekPasses
  <2> USE DEF Media!Stage, Media!StageCommits, Media!StageFails, Media!DirectUpload, Media!Dismiss,
              Media!RetryJob, Media!RetryPreparation, Media!Save, Media!Finalize, Media!WeekPasses
  <2>1. MediaTypes' /\ Untouched /\ SameSong
    BY <1>1 DEF MediaInv, MediaTypes, Untouched, SameSong
  <2>2. media_work'.pc # "erase" \/ media_work'.pc = media_work.pc
    BY <1>1 DEF MediaInv, MediaTypes
  <2> QED
    BY <2>1, <2>2, MediaUntouched
<1>2. CASE \/ Media!Disable
           \/ Media!EnableNow
           \/ Media!Decommission
           \/ Media!SaveAudio
           \/ Media!RequestAnalysis
           \/ (\E kind \in {"verify", "enable"} : Media!QueueCheck(kind))
           \/ Media!Pick
  <2> USE DEF Media!Disable, Media!EnableNow, Media!Decommission, Media!SaveAudio, Media!RequestAnalysis,
              Media!QueueCheck, Media!Pick, Media!OnSong
  <2>1. MediaTypes' /\ Untouched /\ SameSong
    BY <1>2 DEF MediaInv, MediaTypes, Untouched, SameSong
  <2>2. media_work'.pc # "erase" \/ media_work'.pc = media_work.pc
    BY <1>2 DEF MediaInv, MediaTypes
  <2> QED
    BY <2>1, <2>2, MediaUntouched
<1>3. CASE \/ (\E requested \in BOOLEAN : Media!Analyse(requested))
           \/ Media!Analysed
           \/ Media!AnalysisFails
  <2> USE DEF Media!Analyse, Media!Analysed, Media!AnalysisFails, Media!Measured
  <2>1. MediaTypes' /\ Untouched /\ SameSong
    BY <1>3 DEF MediaInv, MediaTypes, Untouched, SameSong
  <2>2. media_work'.pc # "erase" \/ media_work'.pc = media_work.pc
    <3>1. CASE \E requested \in BOOLEAN : Media!Analyse(requested)
      BY <3>1 DEF MediaInv, MediaTypes
    <3>2. CASE Media!Analysed
      BY <3>2 DEF MediaInv, MediaTypes
    <3>3. CASE Media!AnalysisFails
      BY <3>3 DEF MediaInv, MediaTypes
    <3> QED
      BY <1>3, <3>1, <3>2, <3>3
  <2> QED
    BY <2>1, <2>2, MediaUntouched
<1>4. CASE \/ Media!ClaimCheck
           \/ Media!Verified
           \/ (\E answer \in {"rejected", "error"} : Media!CheckFails(answer))
  <2> USE DEF Media!ClaimCheck, Media!Verified, Media!CheckFails, Media!Checked
  <2>1. MediaTypes' /\ Untouched /\ SameSong
    BY <1>4 DEF MediaInv, MediaTypes, Untouched, SameSong
  <2>2. media_work'.pc # "erase" \/ media_work'.pc = media_work.pc
    <3>1. CASE Media!ClaimCheck
      BY <3>1 DEF MediaInv, MediaTypes
    <3>2. CASE Media!Verified
      BY <3>2 DEF MediaInv, MediaTypes
    <3>3. CASE \E answer \in {"rejected", "error"} : Media!CheckFails(answer)
      BY <3>3 DEF MediaInv, MediaTypes
    <3> QED
      BY <1>4, <3>1, <3>2, <3>3
  <2> QED
    BY <2>1, <2>2, MediaUntouched
<1>5. CASE \/ (\E u \in Upload : Media!ClaimIngest(u))
           \/ (\E u \in Upload : Media!Recovered(u))
           \/ (\E u \in Upload : Media!Duplicate(u))
           \/ (\E u \in Upload : Media!IngestSettles(u))
           \/ (\E u \in Upload : Media!Tidy(u))
           \/ (\E u \in Upload : (\E outcome \in {"rejected", "error"} : Media!IngestFails(u, outcome)))
  <2> USE DEF Media!ClaimIngest, Media!Recovered, Media!Duplicate, Media!IngestSettles, Media!Tidy,
              Media!IngestFails, Media!Settles
  <2>1. MediaTypes' /\ Untouched /\ SameSong
    BY <1>5 DEF MediaInv, MediaTypes, Untouched, SameSong
  <2>2. media_work'.pc # "erase" \/ media_work'.pc = media_work.pc
    <3>1. CASE \E u \in Upload : Media!ClaimIngest(u)
      BY <3>1 DEF MediaInv, MediaTypes
    <3>2. CASE \E u \in Upload : Media!Recovered(u)
      BY <3>2 DEF MediaInv, MediaTypes
    <3>3. CASE \E u \in Upload : Media!Duplicate(u)
      BY <3>3 DEF MediaInv, MediaTypes
    <3>4. CASE \E u \in Upload : Media!IngestSettles(u)
      BY <3>4 DEF MediaInv, MediaTypes
    <3>5. CASE \E u \in Upload : Media!Tidy(u)
      BY <3>5 DEF MediaInv, MediaTypes
    <3>6. CASE \E u \in Upload : (\E outcome \in {"rejected", "error"} : Media!IngestFails(u, outcome))
      BY <3>6 DEF MediaInv, MediaTypes
    <3> QED
      BY <1>5, <3>1, <3>2, <3>3, <3>4, <3>5, <3>6
  <2> QED
    BY <2>1, <2>2, MediaUntouched
<1>6. CASE \/ (\E u \in Upload : Media!Prepare(u))
           \/ (\E u \in Upload : Media!Prepared(u))
           \/ (\E u \in Upload : Media!PreparationBreaks(u))
           \/ (\E u \in Upload : Media!PreparationFails(u))
           \/ Media!CleanUp
           \/ Media!CleanUpBreaks
  <2> USE DEF Media!Prepare, Media!Prepared, Media!PreparationBreaks, Media!PreparationFails, Media!CleanUp,
              Media!CleanUpBreaks
  <2>1. MediaTypes' /\ Untouched /\ SameSong
    BY <1>6 DEF MediaInv, MediaTypes, Untouched, SameSong
  <2>2. media_work'.pc # "erase" \/ media_work'.pc = media_work.pc
    <3>1. CASE \E u \in Upload : Media!Prepare(u)
      BY <3>1 DEF MediaInv, MediaTypes
    <3>2. CASE \E u \in Upload : Media!Prepared(u)
      BY <3>2 DEF MediaInv, MediaTypes
    <3>3. CASE \E u \in Upload : Media!PreparationBreaks(u)
      BY <3>3 DEF MediaInv, MediaTypes
    <3>4. CASE \E u \in Upload : Media!PreparationFails(u)
      BY <3>4 DEF MediaInv, MediaTypes
    <3>5. CASE Media!CleanUp
      BY <3>5 DEF MediaInv, MediaTypes
    <3>6. CASE Media!CleanUpBreaks
      BY <3>6 DEF MediaInv, MediaTypes
    <3> QED
      BY <1>6, <3>1, <3>2, <3>3, <3>4, <3>5, <3>6
  <2> QED
    BY <2>1, <2>2, MediaUntouched
<1>7. CASE Media!QueueDelete
  <2>1. MediaTypes'
    BY <1>7 DEF Media!QueueDelete, Media!Condemned, Media!Shown, MediaInv, MediaTypes
  <2>2. DeletionStands' /\ CancellationStands' /\ Media!FileOutlivesQueue'
    BY <1>7 DEF Media!QueueDelete, Media!Condemned, Media!Shown, MediaInv, MediaTypes, DeletionStands,
                CancellationStands, Condemned, Media!FileOutlivesQueue
  <2> QED
    BY <2>1, <2>2 DEF MediaInv
<1>8. CASE Media!RetryDelete
  <2>1. MediaTypes'
    BY <1>8 DEF Media!RetryDelete, MediaInv, MediaTypes
  <2>2. DeletionStands' /\ CancellationStands' /\ Media!FileOutlivesQueue'
    BY <1>8 DEF Media!RetryDelete, MediaInv, MediaTypes, DeletionStands, CancellationStands, Condemned,
                Media!FileOutlivesQueue
  <2> QED
    BY <2>1, <2>2 DEF MediaInv
<1>9. CASE Media!Commit
  <2>1. MediaTypes'
    BY <1>9 DEF Media!Commit, MediaInv, MediaTypes
  <2>2. DeletionStands' /\ CancellationStands' /\ Media!FileOutlivesQueue'
    BY <1>9 DEF Media!Commit, MediaInv, MediaTypes, DeletionStands, CancellationStands, Condemned,
                Media!FileOutlivesQueue
  <2> QED
    BY <2>1, <2>2 DEF MediaInv
<1>10. CASE Media!HandOff
  <2>1. MediaTypes'
    BY <1>10 DEF Media!HandOff, Media!Accepts, Media!Playable, MediaInv, MediaTypes
  <2>2. DeletionStands' /\ CancellationStands' /\ Media!FileOutlivesQueue'
    BY <1>10 DEF Media!HandOff, Media!Accepts, Media!Playable, MediaInv, MediaTypes, DeletionStands, CancellationStands,
                Condemned, Media!FileOutlivesQueue
  <2> QED
    BY <2>1, <2>2 DEF MediaInv
<1>11. CASE Media!Plays
  <2>1. MediaTypes'
    BY <1>11 DEF Media!Plays, MediaInv, MediaTypes
  <2>2. DeletionStands' /\ CancellationStands' /\ Media!FileOutlivesQueue'
    BY <1>11 DEF Media!Plays, MediaInv, MediaTypes, DeletionStands, CancellationStands, Condemned,
                Media!FileOutlivesQueue
  <2> QED
    BY <2>1, <2>2 DEF MediaInv
<1>12. CASE Media!Clear
  <2>1. MediaTypes'
    BY <1>12 DEF Media!Clear, Media!Cancelling, MediaInv, MediaTypes
  <2>2. DeletionStands' /\ CancellationStands' /\ Media!FileOutlivesQueue'
    BY <1>12 DEF Media!Clear, Media!Cancelling, MediaInv, MediaTypes, DeletionStands, CancellationStands, Condemned,
                Media!FileOutlivesQueue
  <2> QED
    BY <2>1, <2>2 DEF MediaInv
<1>13. CASE Media!Acknowledge
  <2>1. MediaTypes'
    BY <1>13 DEF Media!Acknowledge, Media!Cancelling, MediaInv, MediaTypes
  <2>2. DeletionStands' /\ CancellationStands' /\ Media!FileOutlivesQueue'
    BY <1>13 DEF Media!Acknowledge, Media!Cancelling, MediaInv, MediaTypes, DeletionStands, CancellationStands, Condemned,
                Media!FileOutlivesQueue
  <2> QED
    BY <2>1, <2>2 DEF MediaInv
<1>14. CASE Media!AutomationDies
  <2>1. MediaTypes'
    BY <1>14 DEF Media!AutomationDies, Media!Accepts, Media!Playable, MediaInv, MediaTypes
  <2>2. DeletionStands' /\ CancellationStands' /\ Media!FileOutlivesQueue'
    BY <1>14 DEF Media!AutomationDies, Media!Accepts, Media!Playable, MediaInv, MediaTypes, DeletionStands, CancellationStands,
                Condemned, Media!FileOutlivesQueue
  <2> QED
    BY <2>1, <2>2 DEF MediaInv
<1>15. CASE Media!ClaimErase
  <2>1. MediaTypes'
    BY <1>15 DEF Media!ClaimErase, Media!MayErase, MediaInv, MediaTypes
  <2>2. DeletionStands' /\ CancellationStands' /\ Media!FileOutlivesQueue'
    BY <1>15 DEF Media!ClaimErase, Media!MayErase, MediaInv, MediaTypes, DeletionStands, CancellationStands,
                Condemned, Media!FileOutlivesQueue
  <2> QED
    BY <2>1, <2>2 DEF MediaInv
<1>16. CASE Media!EraseFiles
  <2>1. MediaTypes'
    BY <1>16 DEF Media!EraseFiles, MediaInv, MediaTypes
  <2>2. DeletionStands' /\ CancellationStands' /\ Media!FileOutlivesQueue'
    BY <1>16 DEF Media!EraseFiles, MediaInv, MediaTypes, DeletionStands, CancellationStands, Condemned,
                Media!FileOutlivesQueue
  <2> QED
    BY <2>1, <2>2 DEF MediaInv
<1>17. CASE Media!Erased
  <2>1. MediaTypes'
    BY <1>17 DEF Media!Erased, Media!NoSong, MediaInv, MediaTypes
  <2>2. DeletionStands' /\ CancellationStands' /\ Media!FileOutlivesQueue'
    BY <1>17 DEF Media!Erased, Media!NoSong, MediaInv, MediaTypes, DeletionStands, CancellationStands,
                Condemned, Media!FileOutlivesQueue
  <2> QED
    BY <2>1, <2>2 DEF MediaInv
<1>18. CASE Media!EraseFails
  <2>1. MediaTypes'
    BY <1>18 DEF Media!EraseFails, MediaInv, MediaTypes
  <2>2. DeletionStands' /\ CancellationStands' /\ Media!FileOutlivesQueue'
    BY <1>18 DEF Media!EraseFails, MediaInv, MediaTypes, DeletionStands, CancellationStands, Condemned,
                Media!FileOutlivesQueue
  <2> QED
    BY <2>1, <2>2 DEF MediaInv
<1>19. CASE \E u \in Upload : Media!IngestCommits(u)
  <2>1. MediaTypes'
    BY <1>19 DEF Media!IngestCommits, Media!NoSong, MediaInv, MediaTypes
  <2>2. DeletionStands' /\ CancellationStands' /\ Media!FileOutlivesQueue'
    BY <1>19 DEF Media!IngestCommits, Media!NoSong, MediaInv, MediaTypes, DeletionStands, CancellationStands,
                Condemned, Media!FileOutlivesQueue
  <2> QED
    BY <2>1, <2>2 DEF MediaInv
<1>20. CASE Media!Dies
  <2>1. MediaTypes'
    BY <1>20 DEF Media!Dies, Media!Again, MediaInv, MediaTypes
  <2>2. DeletionStands' /\ CancellationStands' /\ Media!FileOutlivesQueue'
    BY <1>20 DEF Media!Dies, Media!Again, MediaInv, MediaTypes, DeletionStands, CancellationStands, Condemned,
                Media!FileOutlivesQueue
  <2> QED
    BY <2>1, <2>2 DEF MediaInv
<1>21. CASE Media!Switch \/ Media!Follow
  <2>1. MediaTypes'
    BY <1>21 DEF Media!Switch, Media!Follow, MediaInv, MediaTypes
  <2>2. DeletionStands' /\ CancellationStands' /\ Media!FileOutlivesQueue'
    BY <1>21 DEF Media!Switch, Media!Follow, MediaInv, MediaTypes, DeletionStands, CancellationStands,
                 Condemned, Media!FileOutlivesQueue
  <2> QED
    BY <2>1, <2>2 DEF MediaInv
<1> QED
  BY <1>1, <1>2, <1>3, <1>4, <1>5, <1>6, <1>7, <1>8, <1>9, <1>10, <1>11, <1>12, <1>13, <1>14, <1>15, <1>16,
     <1>17, <1>18, <1>19, <1>20, <1>21
  DEF Media!Next, Media!Browser, Media!Worker, Media!Broadcast, Media!Automation

----------------------------------------------------------------------------
(* What a draft pays for.  An attempt that waits, or that the worker only   *)
(* looked up, has called nobody; and a draft that owns the take has a song. *)

AttemptRow == [status : {"none", "pending", "running", "complete", "failed"},
               action : {"none", "voice", "render", "save"}, key : Nat, calls : Nat]
DraftRow   == [state : {"draft", "ingesting", "saved", "deleted", "expired"}, has : SUBSET {"voice", "render"},
               track : BOOLEAN]
AttemptType == attempt \in [ProducerDraft -> AttemptRow] /\ key \in Nat
DraftType   == production_draft \in [ProducerDraft -> DraftRow]
SongType ==
  /\ production_song.there \in BOOLEAN
  /\ production_song = [there |-> production_song.there, on |-> production_song.on,
                       retired |-> production_song.retired, deleted |-> production_song.deleted,
                       state |-> production_song.state]
WorkType ==
  production_work = [pc |-> production_work.pc, of |-> production_work.of, old |-> production_work.old]
ProductionTypes == AttemptType /\ DraftType /\ SongType /\ WorkType
NotPaidYet ==
  \A d \in ProducerDraft :
    /\ attempt[d].status = "pending" \/ Production!Doing("check", d) => attempt[d].calls = 0
    /\ attempt[d].status = "pending" \/ Production!Doing("check", d) \/ Production!Doing("result", d)
         => attempt[d].action # "none"
    /\ Production!Doing("check", d) \/ Production!Doing("result", d) => attempt[d].status = "running"
OwnersHaveSong == \A d \in ProducerDraft : production_draft[d].track => production_song.there
ProductionInv ==
  ProductionTypes /\ NotPaidYet /\ Production!PaidOnce /\ OwnersHaveSong /\ Production!OneOwner

LEMMA ProductionBegins == ASSUME Production!Init PROVE ProductionInv
<1>1. ProductionTypes
  BY DEF Production!Init, ProductionTypes, AttemptType, AttemptRow, DraftType, DraftRow, SongType, WorkType,
         Production!NoTry, Production!NoSong, Production!Resting
<1>2. NotPaidYet
  BY DEF Production!Init, NotPaidYet, Production!NoTry, Production!Resting, Production!Doing
<1>3. Production!PaidOnce /\ OwnersHaveSong /\ Production!OneOwner
  BY DEF Production!Init, Production!PaidOnce, OwnersHaveSong, Production!OneOwner, Production!NoTry
<1> QED
  BY <1>1, <1>2, <1>3 DEF ProductionInv

(* A step that makes no attempt, and one that brings nothing in.            *)
LEMMA AttemptsStay ==
  ASSUME ProductionInv, UNCHANGED attempt,
         \A d \in ProducerDraft : \A pc \in {"check", "result"} :
           Production!Doing(pc, d)' => Production!Doing(pc, d)
  PROVE  NotPaidYet' /\ Production!PaidOnce'
BY DEF ProductionInv, NotPaidYet, Production!PaidOnce

LEMMA OwnersStay ==
  ASSUME ProductionInv, production_song.there => production_song'.there,
         \A d \in ProducerDraft : production_draft'[d].track => production_draft[d].track
  PROVE  OwnersHaveSong' /\ Production!OneOwner'
BY DEF ProductionInv, OwnersHaveSong, Production!OneOwner

LEMMA ResultIsRow ==
  ASSUME ProductionInv, NEW d \in ProducerDraft, Production!Doing("result", d)
  PROVE  Production!Result(d) \in DraftRow /\ Production!Result(d).track = production_draft[d].track
<1>1. attempt[d].action \in {"voice", "render", "save"} /\ production_draft[d] \in DraftRow
  BY DEF ProductionInv, NotPaidYet, ProductionTypes, AttemptType, AttemptRow, DraftType
<1>2. CASE attempt[d].action = "voice"
  BY <1>1, <1>2 DEF Production!Result, DraftRow
<1>3. CASE attempt[d].action = "render"
  BY <1>1, <1>3 DEF Production!Result, DraftRow
<1>4. CASE attempt[d].action = "save"
  BY <1>1, <1>4 DEF Production!Result, DraftRow
<1> QED
  BY <1>1, <1>2, <1>3, <1>4

LEMMA ProductionKept == ASSUME ProductionInv, Production!Next PROVE ProductionInv'
<1> USE DEF ProductionInv, ProductionTypes, AttemptType, AttemptRow, DraftType, DraftRow, SongType, WorkType,
            Production!rows, Production!Orders, Production!Breaks, Production!Sound
<1>1. CASE Production!Reconcile
  <2>1. ProductionTypes'
    <3>1. AttemptType'
      BY <1>1 DEF Production!Reconcile, Production!Goes, Production!Outside, Production!Reconciled
    <3>2. DraftType'
      <4>1. ASSUME NEW d \in ProducerDraft
            PROVE  Production!Reconciled(d) \in {"draft", "ingesting", "saved", "deleted", "expired"}
        BY DEF Production!Reconciled
      <4>2. production_draft' = [d \in ProducerDraft |->
                                   [production_draft[d] EXCEPT !.state = Production!Reconciled(d)]]
        BY <1>1 DEF Production!Reconcile
      <4> QED
        BY <4>1, <4>2
    <3>3. SongType'
      BY <1>1 DEF Production!Reconcile, Production!Goes, Production!Outside, Production!Reconciled
    <3>4. WorkType'
      BY <1>1 DEF Production!Reconcile, Production!Goes, Production!Outside, Production!Reconciled
    <3> QED
      BY <3>1, <3>2, <3>3, <3>4
  <2>2. NotPaidYet' /\ Production!PaidOnce'
    BY <1>1, AttemptsStay DEF Production!Reconcile, Production!Goes, Production!Outside, Production!Reconciled,
                Production!Doing
  <2>3. OwnersHaveSong' /\ Production!OneOwner'
    BY <1>1, OwnersStay DEF Production!Reconcile, Production!Goes, Production!Outside, Production!Reconciled
  <2> QED
    BY <2>1, <2>2, <2>3
<1>2. CASE Production!CleanUpReads
  <2>1. ProductionTypes'
    BY <1>2 DEF Production!CleanUpReads, Production!Outside
  <2>2. NotPaidYet' /\ Production!PaidOnce'
    BY <1>2, AttemptsStay DEF Production!CleanUpReads, Production!Outside, Production!Doing
  <2>3. OwnersHaveSong' /\ Production!OneOwner'
    BY <1>2, OwnersStay DEF Production!CleanUpReads, Production!Outside
  <2> QED
    BY <2>1, <2>2, <2>3
<1>3. CASE Production!CleanUpCommits
  <2>1. ProductionTypes'
    <3>1. AttemptType'
      BY <1>3 DEF Production!CleanUpCommits, Production!Outside, Production!Resting
    <3>2. DraftType'
      BY <1>3 DEF Production!CleanUpCommits, Production!Outside, Production!Resting
    <3>3. SongType'
      BY <1>3 DEF Production!CleanUpCommits, Production!Outside, Production!Resting
    <3>4. WorkType'
      BY <1>3 DEF Production!CleanUpCommits, Production!Outside, Production!Resting
    <3> QED
      BY <3>1, <3>2, <3>3, <3>4
  <2>2. NotPaidYet' /\ Production!PaidOnce'
    BY <1>3, AttemptsStay DEF Production!CleanUpCommits, Production!Outside, Production!Resting,
                Production!Doing
  <2>3. OwnersHaveSong' /\ Production!OneOwner'
    BY <1>3, OwnersStay DEF Production!CleanUpCommits, Production!Outside, Production!Resting
  <2> QED
    BY <2>1, <2>2, <2>3
<1>4. CASE Production!NoClaim
  <2>1. ProductionTypes'
    BY <1>4 DEF Production!NoClaim, Production!Outside, Production!Resting
  <2>2. NotPaidYet' /\ Production!PaidOnce'
    BY <1>4, AttemptsStay DEF Production!NoClaim, Production!Outside, Production!Resting, Production!Doing
  <2>3. OwnersHaveSong' /\ Production!OneOwner'
    BY <1>4, OwnersStay DEF Production!NoClaim, Production!Outside, Production!Resting
  <2> QED
    BY <2>1, <2>2, <2>3
<1>5. CASE \E d \in ProducerDraft : Production!Claim(d)
  <2>1. ProductionTypes'
    <3>1. AttemptType'
      BY <1>5 DEF Production!Claim, Production!Goes, Production!Outside
    <3>2. DraftType'
      BY <1>5 DEF Production!Claim, Production!Goes, Production!Outside
    <3>3. SongType'
      BY <1>5 DEF Production!Claim, Production!Goes, Production!Outside
    <3>4. WorkType'
      BY <1>5 DEF Production!Claim, Production!Goes, Production!Outside
    <3> QED
      BY <3>1, <3>2, <3>3, <3>4
  <2>2. NotPaidYet' /\ Production!PaidOnce'
    BY <1>5 DEF Production!Claim, Production!Goes, Production!Outside, Production!Doing, NotPaidYet,
                Production!PaidOnce
  <2>3. OwnersHaveSong' /\ Production!OneOwner'
    BY <1>5, OwnersStay DEF Production!Claim, Production!Goes, Production!Outside
  <2> QED
    BY <2>1, <2>2, <2>3
<1>6. CASE \E d \in ProducerDraft : Production!Begins(d)
  <2>1. ProductionTypes'
    <3>1. AttemptType'
      <4>1. PICK d \in ProducerDraft :
              /\ UNCHANGED key
              /\ attempt' = [attempt EXCEPT ![d].calls = IF attempt[d].action = "voice" THEN @ + 1 ELSE @]
        BY <1>6 DEF Production!Begins, Production!Outside
      <4>2. [attempt[d] EXCEPT !.calls = IF attempt[d].action = "voice" THEN @ + 1 ELSE @] \in AttemptRow
        OBVIOUS
      <4>3. attempt' = [attempt EXCEPT ![d] = [attempt[d] EXCEPT !.calls = IF attempt[d].action = "voice" THEN @ + 1 ELSE @]]
        BY <4>1
      <4> HIDE DEF AttemptRow
      <4> QED
        BY <4>1, <4>2, <4>3
    <3>2. DraftType'
      BY <1>6 DEF Production!Begins, Production!Goes, Production!Outside
    <3>3. SongType'
      BY <1>6 DEF Production!Begins, Production!Goes, Production!Outside
    <3>4. WorkType'
      BY <1>6 DEF Production!Begins, Production!Goes, Production!Outside
    <3> QED
      BY <3>1, <3>2, <3>3, <3>4
  <2>2. NotPaidYet' /\ Production!PaidOnce'
    <3>1. PICK d \in ProducerDraft : Production!Begins(d)
      BY <1>6
    <3>2. /\ production_work.pc = "check" /\ production_work.of = d /\ attempt[d].calls = 0 /\ attempt[d].action # "none"
          /\ attempt[d].status = "running" /\ production_work'.pc = "result" /\ production_work'.of = d
      BY <3>1 DEF Production!Begins, Production!Doing, Production!Goes, NotPaidYet
    <3>3. \A e \in ProducerDraft \ {d} : attempt'[e] = attempt[e]
      BY <3>1 DEF Production!Begins
    <3>4. attempt'[d].calls \in {0, 1} /\ attempt'[d].status = attempt[d].status /\ attempt'[d].action = attempt[d].action
      BY <3>1, <3>2 DEF Production!Begins
    <3> QED
      BY <3>2, <3>3, <3>4 DEF NotPaidYet, Production!PaidOnce, Production!Doing
  <2>3. OwnersHaveSong' /\ Production!OneOwner'
    BY <1>6, OwnersStay DEF Production!Begins, Production!Goes, Production!Outside
  <2> QED
    BY <2>1, <2>2, <2>3
<1>7. CASE \E d \in ProducerDraft : Production!Publish(d)
  <2>1. ProductionTypes'
    <3>1. AttemptType'
      BY <1>7 DEF Production!Publish, Production!Complete, Production!Outside, Production!Result,
                Production!Resting
    <3>2. DraftType'
      <4>1. PICK d \in ProducerDraft : Production!Doing("result", d) /\ production_draft' = [production_draft EXCEPT ![d] = Production!Result(d)]
        BY <1>7 DEF Production!Publish, Production!Complete
      <4> QED
        BY <4>1, ResultIsRow
    <3>3. SongType'
      BY <1>7 DEF Production!Publish, Production!Complete, Production!Outside, Production!Result,
                Production!Resting
    <3>4. WorkType'
      BY <1>7 DEF Production!Publish, Production!Complete, Production!Outside, Production!Result,
                Production!Resting
    <3> QED
      BY <3>1, <3>2, <3>3, <3>4
  <2>2. NotPaidYet' /\ Production!PaidOnce'
    BY <1>7 DEF Production!Publish, Production!Complete, Production!Outside, Production!Result,
                Production!Resting, Production!Doing, NotPaidYet, Production!PaidOnce
  <2>3. OwnersHaveSong' /\ Production!OneOwner'
    <3>1. PICK d \in ProducerDraft :
            /\ Production!Doing("result", d) /\ UNCHANGED production_song
            /\ production_draft' = [production_draft EXCEPT ![d] = Production!Result(d)]
      BY <1>7 DEF Production!Publish, Production!Complete
    <3>2. \A e \in ProducerDraft : production_draft'[e].track = production_draft[e].track
      BY <3>1, ResultIsRow
    <3> QED
      BY <3>1, <3>2, OwnersStay
  <2> QED
    BY <2>1, <2>2, <2>3
<1>8. CASE \E d \in ProducerDraft : Production!AttemptFails(d)
  <2>1. ProductionTypes'
    BY <1>8 DEF Production!AttemptFails, Production!Outside, Production!Resting
  <2>2. NotPaidYet' /\ Production!PaidOnce'
    BY <1>8 DEF Production!AttemptFails, Production!Outside, Production!Resting, Production!Doing, NotPaidYet,
                Production!PaidOnce
  <2>3. OwnersHaveSong' /\ Production!OneOwner'
    BY <1>8, OwnersStay DEF Production!AttemptFails, Production!Outside, Production!Resting
  <2> QED
    BY <2>1, <2>2, <2>3
<1>9. CASE Production!Erases
  <2>1. ProductionTypes'
    <3>1. AttemptType'
      BY <1>9 DEF Production!Erases, Production!Ingesting, Production!NoSong
    <3>2. DraftType'
      BY <1>9 DEF Production!Erases, Production!Ingesting, Production!NoSong
    <3>3. SongType'
      BY <1>9 DEF Production!Erases, Production!Ingesting, Production!NoSong
    <3>4. WorkType'
      BY <1>9 DEF Production!Erases, Production!Ingesting, Production!NoSong
    <3> QED
      BY <3>1, <3>2, <3>3, <3>4
  <2>2. NotPaidYet' /\ Production!PaidOnce'
    BY <1>9, AttemptsStay DEF Production!Erases, Production!Ingesting, Production!NoSong, Production!Doing
  <2>3. OwnersHaveSong' /\ Production!OneOwner'
    BY <1>9 DEF Production!Erases, Production!Ingesting, Production!NoSong, OwnersHaveSong, Production!OneOwner
  <2> QED
    BY <2>1, <2>2, <2>3
<1>10. CASE \E outcome \in {"complete", "failed"} : Production!Analyses(outcome)
  <2>1. ProductionTypes'
    BY <1>10 DEF Production!Analyses, Production!Ingesting
  <2>2. NotPaidYet' /\ Production!PaidOnce'
    BY <1>10, AttemptsStay DEF Production!Analyses, Production!Ingesting, Production!Doing
  <2>3. OwnersHaveSong' /\ Production!OneOwner'
    BY <1>10, OwnersStay DEF Production!Analyses, Production!Ingesting
  <2> QED
    BY <2>1, <2>2, <2>3
<1>11. CASE \E d \in ProducerDraft : Production!IngestClaims(d)
  <2>1. ProductionTypes'
    BY <1>11 DEF Production!IngestClaims, Production!Ingesting
  <2>2. NotPaidYet' /\ Production!PaidOnce'
    BY <1>11, AttemptsStay DEF Production!IngestClaims, Production!Ingesting, Production!Doing
  <2>3. OwnersHaveSong' /\ Production!OneOwner'
    BY <1>11, OwnersStay DEF Production!IngestClaims, Production!Ingesting
  <2> QED
    BY <2>1, <2>2, <2>3
<1>12. CASE \E d \in ProducerDraft : Production!IngestCommits(d)
  <2>1. ProductionTypes'
    <3>1. AttemptType'
      BY <1>12 DEF Production!IngestCommits, Production!Ingesting, Production!NoSong
    <3>2. DraftType'
      <4>1. PICK d \in ProducerDraft : production_draft' = [production_draft EXCEPT ![d].track = TRUE]
        BY <1>12 DEF Production!IngestCommits
      <4>2. [production_draft[d] EXCEPT !.track = TRUE] \in DraftRow
        BY DEF DraftRow
      <4> QED
        BY <4>1, <4>2
    <3>3. SongType'
      BY <1>12 DEF Production!IngestCommits, Production!Ingesting, Production!NoSong
    <3>4. WorkType'
      BY <1>12 DEF Production!IngestCommits, Production!Ingesting, Production!NoSong
    <3> QED
      BY <3>1, <3>2, <3>3, <3>4
  <2>2. NotPaidYet' /\ Production!PaidOnce'
    BY <1>12, AttemptsStay DEF Production!IngestCommits, Production!Ingesting, Production!NoSong,
                Production!Doing
  <2>3. OwnersHaveSong' /\ Production!OneOwner'
    BY <1>12 DEF Production!IngestCommits, Production!Ingesting, Production!NoSong, OwnersHaveSong,
                Production!OneOwner
  <2> QED
    BY <2>1, <2>2, <2>3
<1>13. CASE \E d \in ProducerDraft : Production!IngestReuses(d)
  <2>1. ProductionTypes'
    BY <1>13 DEF Production!IngestReuses, Production!Ingesting, Production!Finishes
  <2>2. NotPaidYet' /\ Production!PaidOnce'
    BY <1>13, AttemptsStay DEF Production!IngestReuses, Production!Ingesting, Production!Finishes,
                Production!Doing
  <2>3. OwnersHaveSong' /\ Production!OneOwner'
    BY <1>13, OwnersStay DEF Production!IngestReuses, Production!Ingesting, Production!Finishes
  <2> QED
    BY <2>1, <2>2, <2>3
<1>14. CASE \E d \in ProducerDraft : Production!IngestSettles(d)
  <2>1. ProductionTypes'
    BY <1>14 DEF Production!IngestSettles, Production!Ingesting, Production!Finishes
  <2>2. NotPaidYet' /\ Production!PaidOnce'
    BY <1>14, AttemptsStay DEF Production!IngestSettles, Production!Ingesting, Production!Finishes,
                Production!Doing
  <2>3. OwnersHaveSong' /\ Production!OneOwner'
    BY <1>14, OwnersStay DEF Production!IngestSettles, Production!Ingesting, Production!Finishes
  <2> QED
    BY <2>1, <2>2, <2>3
<1>15. CASE \E d \in ProducerDraft : \E outcome \in {"rejected", "error"} : Production!IngestFails(d, outcome)
  <2>1. ProductionTypes'
    BY <1>15 DEF Production!IngestFails, Production!Ingesting, Production!Finishes
  <2>2. NotPaidYet' /\ Production!PaidOnce'
    BY <1>15, AttemptsStay DEF Production!IngestFails, Production!Ingesting, Production!Finishes,
                Production!Doing
  <2>3. OwnersHaveSong' /\ Production!OneOwner'
    BY <1>15, OwnersStay DEF Production!IngestFails, Production!Ingesting, Production!Finishes
  <2> QED
    BY <2>1, <2>2, <2>3
<1>16. CASE Production!SaveCredential
  <2>1. ProductionTypes'
    BY <1>16 DEF Production!SaveCredential
  <2>2. NotPaidYet' /\ Production!PaidOnce'
    BY <1>16, AttemptsStay DEF Production!SaveCredential, Production!Doing
  <2>3. OwnersHaveSong' /\ Production!OneOwner'
    BY <1>16, OwnersStay DEF Production!SaveCredential
  <2> QED
    BY <2>1, <2>2, <2>3
<1>17. CASE Production!Decommission
  <2>1. ProductionTypes'
    BY <1>17 DEF Production!Decommission, Production!Library
  <2>2. NotPaidYet' /\ Production!PaidOnce'
    BY <1>17, AttemptsStay DEF Production!Decommission, Production!Library, Production!Doing
  <2>3. OwnersHaveSong' /\ Production!OneOwner'
    BY <1>17, OwnersStay DEF Production!Decommission, Production!Library
  <2> QED
    BY <2>1, <2>2, <2>3
<1>18. CASE Production!DeleteSong
  <2>1. ProductionTypes'
    BY <1>18 DEF Production!DeleteSong, Production!Library
  <2>2. NotPaidYet' /\ Production!PaidOnce'
    BY <1>18, AttemptsStay DEF Production!DeleteSong, Production!Library, Production!Doing
  <2>3. OwnersHaveSong' /\ Production!OneOwner'
    BY <1>18, OwnersStay DEF Production!DeleteSong, Production!Library
  <2> QED
    BY <2>1, <2>2, <2>3
<1>19. CASE \E may \in BOOLEAN : Production!Grant(may)
  <2>1. ProductionTypes'
    BY <1>19 DEF Production!Grant
  <2>2. NotPaidYet' /\ Production!PaidOnce'
    BY <1>19, AttemptsStay DEF Production!Grant, Production!Doing
  <2>3. OwnersHaveSong' /\ Production!OneOwner'
    BY <1>19, OwnersStay DEF Production!Grant
  <2> QED
    BY <2>1, <2>2, <2>3
<1>20. CASE \E d \in ProducerDraft : Production!Delete(d)
  <2>1. ProductionTypes'
    <3>1. AttemptType'
      BY <1>20 DEF Production!Delete
    <3>2. DraftType'
      <4>1. PICK d \in ProducerDraft : production_draft' = [production_draft EXCEPT ![d].state = "deleted"]
        BY <1>20 DEF Production!Delete
      <4>2. [production_draft[d] EXCEPT !.state = "deleted"] \in DraftRow
        BY DEF DraftRow
      <4> QED
        BY <4>1, <4>2
    <3>3. SongType'
      BY <1>20 DEF Production!Delete
    <3>4. WorkType'
      BY <1>20 DEF Production!Delete
    <3> QED
      BY <3>1, <3>2, <3>3, <3>4
  <2>2. NotPaidYet' /\ Production!PaidOnce'
    BY <1>20, AttemptsStay DEF Production!Delete, Production!Doing
  <2>3. OwnersHaveSong' /\ Production!OneOwner'
    BY <1>20, OwnersStay DEF Production!Delete
  <2> QED
    BY <2>1, <2>2, <2>3
<1>21. CASE \E d \in ProducerDraft : Production!WeekPasses(d)
  <2>1. ProductionTypes'
    BY <1>21 DEF Production!WeekPasses
  <2>2. NotPaidYet' /\ Production!PaidOnce'
    BY <1>21, AttemptsStay DEF Production!WeekPasses, Production!Doing
  <2>3. OwnersHaveSong' /\ Production!OneOwner'
    BY <1>21, OwnersStay DEF Production!WeekPasses
  <2> QED
    BY <2>1, <2>2, <2>3
<1>22. CASE \E d \in ProducerDraft : \E action \in Production!Action : Production!Enqueue(d, action)
  <2>1. ProductionTypes'
    BY <1>22 DEF Production!Enqueue, Production!Action
  <2>2. NotPaidYet' /\ Production!PaidOnce'
    <3>1. PICK d \in ProducerDraft, action \in Production!Action : Production!Enqueue(d, action)
      BY <1>22
    <3>2. /\ attempt'[d].calls = 0 /\ attempt'[d].action # "none" /\ attempt[d].status # "running"
          /\ \A e \in ProducerDraft \ {d} : attempt'[e] = attempt[e]
          /\ UNCHANGED production_work
      BY <3>1 DEF Production!Enqueue, Production!Action, Production!Busy, Production!Active
    <3>3. ~Production!Doing("check", d) /\ ~Production!Doing("result", d)
      BY <3>2 DEF NotPaidYet
    <3> QED
      BY <3>2, <3>3 DEF NotPaidYet, Production!PaidOnce, Production!Doing
  <2>3. OwnersHaveSong' /\ Production!OneOwner'
    BY <1>22, OwnersStay DEF Production!Enqueue, Production!Action
  <2> QED
    BY <2>1, <2>2, <2>3
<1>23. CASE Production!WorkerDies
  <2>1. ProductionTypes'
    BY <1>23 DEF Production!WorkerDies, Production!Interrupted, Production!Resting, Production!Outside
  <2>2. NotPaidYet' /\ Production!PaidOnce'
    BY <1>23 DEF Production!WorkerDies, Production!Interrupted, Production!Resting, Production!Outside,
                Production!Doing, NotPaidYet, Production!PaidOnce
  <2>3. OwnersHaveSong' /\ Production!OneOwner'
    BY <1>23, OwnersStay DEF Production!WorkerDies, Production!Interrupted, Production!Resting,
                Production!Outside
  <2> QED
    BY <2>1, <2>2, <2>3
<1>24. CASE Production!IngestDies
  <2>1. ProductionTypes'
    BY <1>24 DEF Production!IngestDies, Production!Ingesting
  <2>2. NotPaidYet' /\ Production!PaidOnce'
    BY <1>24, AttemptsStay DEF Production!IngestDies, Production!Ingesting, Production!Doing
  <2>3. OwnersHaveSong' /\ Production!OneOwner'
    BY <1>24, OwnersStay DEF Production!IngestDies, Production!Ingesting
  <2> QED
    BY <2>1, <2>2, <2>3
<1> QED
  BY <1>1, <1>2, <1>3, <1>4, <1>5, <1>6, <1>7, <1>8, <1>9, <1>10, <1>11, <1>12, <1>13, <1>14, <1>15, <1>16,
     <1>17, <1>18, <1>19, <1>20, <1>21, <1>22, <1>23, <1>24
  DEF Production!Next, Production!Worker, Production!Ingest, Production!Browser

LEMMA OthersStandStill ==
  ASSUME ReportNext \/ SwitchNext \/ UpgradesNext \/ StationsNext \/ BulletinNext \/ CentralNext \/ LookaheadNext
  PROVE  part' = part /\ part \notin {"media", "production"}
BY DEF ReportNext, SwitchNext, UpgradesNext, StationsNext, BulletinNext, CentralNext, LookaheadNext

LEMMA MediaRests == ASSUME MediaInv, UNCHANGED media PROVE MediaInv'
BY DEF media, MediaInv, MediaTypes, DeletionStands, CancellationStands, Condemned, Media!FileOutlivesQueue

LEMMA ProductionRests == ASSUME ProductionInv, UNCHANGED production PROVE ProductionInv'
BY DEF production, ProductionInv, ProductionTypes, AttemptType, DraftType, SongType, WorkType, NotPaidYet,
       OwnersHaveSong, Production!PaidOnce, Production!OneOwner, Production!Doing

(* The file of a song is kept while a decision or the engine still needs    *)
(* it; no order of a producer is paid twice, and a take has one owner.      *)
THEOREM PaidOnceAlways == Spec => []PaidOnce
<1> DEFINE I == (part = "media" => MediaInv) /\ (part = "production" => ProductionInv)
<1>1. Init => I
  BY MediaBegins, ProductionBegins DEF Init
<1>2. I /\ [Next]_vars => I'
  <2> SUFFICES ASSUME I, [Next]_vars PROVE I'
    OBVIOUS
  <2>1. CASE MediaNext
    BY <2>1, MediaKept DEF MediaNext
  <2>2. CASE ProductionNext
    BY <2>2, ProductionKept DEF ProductionNext
  <2>3. CASE UNCHANGED vars
    BY <2>3, Stuttering, MediaRests, ProductionRests
  <2>4. CASE ReportNext \/ SwitchNext \/ UpgradesNext \/ StationsNext \/ BulletinNext \/ CentralNext \/ LookaheadNext
    BY <2>4, OthersStandStill
  <2> QED
    BY <2>1, <2>2, <2>3, <2>4 DEF Next
<1>3. I => PaidOnce
  BY DEF PaidOnce, MediaInv, ProductionInv
<1> QED
  BY <1>1, <1>2, <1>3, PTL DEF Spec

----------------------------------------------------------------------------
(* The files of a station.  Operators' commands take no lock, so nothing of *)
(* this holds unless they run while the timer's job does not; then one      *)
(* process acts at a time, and each place it can be at fixes what the steps  *)
(* before it left.  A backup is of the oldest change that was not undone:   *)
(* the newest revision's holds the settings of record only if there is no   *)
(* older one.                                                               *)

StationTypes ==
  /\ stations_pc = [p \in Stations!Proc |-> stations_pc[p]] /\ held = [p \in Stations!Proc |-> held[p]]
  /\ held["cli"] = [rev |-> held["cli"].rev, running |-> held["cli"].running, failed |-> held["cli"].failed,
                    settings |-> held["cli"].settings]
  /\ held["timer"] = [rev |-> held["timer"].rev, running |-> held["timer"].running,
                      failed |-> held["timer"].failed, settings |-> held["timer"].settings]
RowType ==
  /\ stations_row = [life |-> stations_row.life, enabled |-> stations_row.enabled, desired |-> stations_row.desired,
                     status |-> stations_row.status, rev |-> stations_row.rev]
  /\ stations_row.life \in {"pending_create", "create_failed", "ready", "pending_delete", "delete_failed", "deleted"}
StreamType ==
  /\ stream = [status |-> stream.status, rev |-> stream.rev, pending |-> stream.pending, active |-> stream.active]
  /\ stream.rev \in Nat
FilesType ==
  stations_files = [config |-> stations_files.config, saved |-> stations_files.saved,
                    secret |-> stations_files.secret, mount |-> stations_files.mount]
UnitType == unit = [on |-> unit.on, boot |-> unit.boot, sound |-> unit.sound] /\ unit.on \in BOOLEAN

Timer == stations_pc["timer"]
Cli   == stations_pc["cli"]
OneActs == Timer = "idle" \/ Cli = "idle"
Creating == \E p \in Stations!Proc : stations_pc[p] \in {"render", "provisioned", "uncreated"}
Deleting == \E p \in Stations!Proc : stations_pc[p] \in {"stop", "unlink", "delete", "undeleted"}
Places ==
  /\ Deleting => stations_row.life \in Stations!Gone
  /\ Creating => stations_row.life \in {"pending_create", "create_failed", "pending_delete"}
  /\ \A p \in Stations!Proc :
       /\ stations_pc[p] = "provisioned" => stations_files.config = stream.active
       /\ stations_pc[p] \in {"unlink", "delete"} => ~unit.on
       /\ stations_pc[p] = "delete" => stations_files = Stations!Unlinked
  /\ Cli = "c_render" => held["cli"].settings = stream.active
  /\ Timer \in {"install", "tell", "hear", "commit", "restore"} => stream.status = "applying"
  /\ Timer \in {"tell", "hear", "commit"} => stations_files.config = stream.pending /\ Stations!Backup # {}
  /\ Timer = "finish" => stations_files.config = stream.active
DeletedRests ==
  stations_row.life = "deleted" =>
    /\ ~unit.on /\ stations_files = Stations!Unlinked /\ Cli = "idle"
    /\ Timer \in {"idle", "broadcast", "lifecycle", "audio", "directory", "list", "listed", "unlisted"}
Recorded ==
  /\ stations_row.life \in {"pending_create", "create_failed"} => stations_files.saved = {}
  /\ \A b \in stations_files.saved : b[1] \in Nat /\ b[1] <= stream.rev
  /\ stations_row.life = "ready" /\ stations_files.saved = {} => stations_files.config = stream.active
  /\ stations_row.life = "ready" /\ stream.status \in Stations!Busy /\ (\A b \in stations_files.saved : b[1] = stream.rev)
       => \A b \in stations_files.saved : b[2] = stream.active
StationTyped == StationTypes /\ RowType /\ StreamType /\ FilesType /\ UnitType
StationInv == StationTyped /\ OneActs /\ Places /\ DeletedRests /\ Recorded

LEMMA StationBegins == ASSUME Stations!Init PROVE StationInv
<1> USE DEF Stations!Init, Stations!Nothing, Stations!Proc, Stations!None, Timer, Cli
<1>1. StationTyped
  BY DEF StationTyped, StationTypes, RowType, StreamType, FilesType, UnitType
<1>2. OneActs /\ Places
  BY DEF OneActs, Places, Creating, Deleting
<1>3. DeletedRests /\ Recorded
  BY DEF DeletedRests, Recorded
<1> QED
  BY <1>1, <1>2, <1>3 DEF StationInv

LEMMA StationKept == ASSUME ~Overlap, StationInv, Stations!Next PROVE StationInv'
<1> USE DEF Stations!stored, Stations!machine, Stations!jobs, Stations!Asks, Stations!Fault, Stations!Quiet, Stations!Keeps,
            Stations!Goes, Stations!Proc, Stations!None, Stations!Nothing, Stations!Gone, Timer, Cli, StationInv,
            StationTyped, StationTypes, RowType, StreamType, FilesType, UnitType
<1>1. CASE \E on \in BOOLEAN : Stations!RequestBroadcast(on)
  <2>1. StationTyped'
    BY ~Overlap, <1>1 DEF Stations!RequestBroadcast, Stations!Ready, Stations!Deleted, UnitType
  <2>2. OneActs' /\ Places'
    BY ~Overlap, <1>1 DEF Stations!RequestBroadcast, Stations!Ready, Stations!Deleted, OneActs, Places,
        Creating, Deleting, DeletedRests, Recorded, Stations!Backup, Stations!Unlinked
  <2>3. DeletedRests'
    BY ~Overlap, <1>1 DEF Stations!RequestBroadcast, Stations!Ready, Stations!Deleted, OneActs, Places,
        DeletedRests, Stations!Unlinked
  <2>4. Recorded'
    BY ~Overlap, <1>1 DEF Stations!RequestBroadcast, Stations!Ready, Stations!Deleted, OneActs, Places,
        Creating, Deleting, Recorded, Stations!Busy
  <2> QED
    BY <2>1, <2>2, <2>3, <2>4
<1>2. CASE \E on \in BOOLEAN : Stations!QueueListing(on)
  <2>1. StationTyped'
    BY ~Overlap, <1>2 DEF Stations!QueueListing, UnitType
  <2>2. OneActs' /\ Places'
    BY ~Overlap, <1>2 DEF Stations!QueueListing, OneActs, Places, Creating, Deleting, DeletedRests, Recorded,
        Stations!Backup, Stations!Unlinked
  <2>3. DeletedRests'
    BY ~Overlap, <1>2 DEF Stations!QueueListing, OneActs, Places, DeletedRests, Stations!Unlinked
  <2>4. Recorded'
    BY ~Overlap, <1>2 DEF Stations!QueueListing, OneActs, Places, Creating, Deleting, Recorded, Stations!Busy
  <2> QED
    BY <2>1, <2>2, <2>3, <2>4
<1>3. CASE \E values \in Stations!Settings : Stations!QueueSettings(values)
  <2>1. StationTyped'
    <3>1. PICK values \in Stations!Settings : Stations!QueueSettings(values)
      BY <1>3
    <3>2. stream' = [status |-> "pending", rev |-> stream.rev + 1, pending |-> values, active |-> stream.active]
      BY <3>1 DEF Stations!QueueSettings
    <3>3. StationTypes' /\ RowType' /\ FilesType' /\ UnitType'
      BY <3>1 DEF Stations!QueueSettings
    <3>4. stream' = [status |-> stream'.status, rev |-> stream'.rev, pending |-> stream'.pending, active |-> stream'.active]
          /\ stream'.rev = stream.rev + 1
      BY <3>2
    <3> QED
      BY <3>3, <3>4
  <2>2. OneActs' /\ Places'
    BY ~Overlap, <1>3 DEF Stations!QueueSettings, Stations!Busy, OneActs, Places, Creating, Deleting,
        DeletedRests, Recorded, Stations!Backup, Stations!Unlinked
  <2>3. DeletedRests'
    BY ~Overlap, <1>3 DEF Stations!QueueSettings, Stations!Busy, OneActs, Places, DeletedRests,
        Stations!Unlinked
  <2>4. Recorded'
    BY ~Overlap, <1>3 DEF Stations!QueueSettings, Stations!Busy, OneActs, Places, Creating, Deleting, Recorded
  <2> QED
    BY <2>1, <2>2, <2>3, <2>4
<1>4. CASE Stations!RequestDelete
  <2>1. StationTyped'
    BY ~Overlap, <1>4 DEF Stations!RequestDelete, Stations!Condemned, Stations!Deleted, UnitType
  <2>2. OneActs' /\ Places'
    BY ~Overlap, <1>4 DEF Stations!RequestDelete, Stations!Condemned, Stations!Deleted, OneActs, Places,
        Creating, Deleting, DeletedRests, Recorded, Stations!Backup, Stations!Unlinked
  <2>3. DeletedRests'
    BY ~Overlap, <1>4 DEF Stations!RequestDelete, Stations!Condemned, Stations!Deleted, OneActs, Places,
        DeletedRests, Stations!Unlinked
  <2>4. Recorded'
    BY ~Overlap, <1>4 DEF Stations!RequestDelete, Stations!Condemned, Stations!Deleted, OneActs, Places,
        Creating, Deleting, Recorded, Stations!Busy
  <2> QED
    BY <2>1, <2>2, <2>3, <2>4
<1>5. CASE Stations!Retry
  <2>1. StationTyped'
    BY ~Overlap, <1>5 DEF Stations!Retry, Stations!Retried, UnitType
  <2>2. OneActs' /\ Places'
    BY ~Overlap, <1>5 DEF Stations!Retry, Stations!Retried, OneActs, Places, Creating, Deleting, DeletedRests,
        Recorded, Stations!Backup, Stations!Unlinked
  <2>3. DeletedRests'
    BY ~Overlap, <1>5 DEF Stations!Retry, Stations!Retried, OneActs, Places, DeletedRests, Stations!Unlinked
  <2>4. Recorded'
    BY ~Overlap, <1>5 DEF Stations!Retry, Stations!Retried, OneActs, Places, Creating, Deleting, Recorded,
        Stations!Busy
  <2> QED
    BY <2>1, <2>2, <2>3, <2>4
<1>6. CASE Stations!Wakes
  <2>1. StationTyped'
    BY ~Overlap, <1>6 DEF Stations!Wakes, UnitType
  <2>2. OneActs' /\ Places'
    BY ~Overlap, <1>6 DEF Stations!Wakes, OneActs, Places, Creating, Deleting, DeletedRests, Recorded,
        Stations!Backup, Stations!Unlinked
  <2>3. DeletedRests'
    BY ~Overlap, <1>6 DEF Stations!Wakes, OneActs, Places, DeletedRests, Stations!Unlinked
  <2>4. Recorded'
    BY ~Overlap, <1>6 DEF Stations!Wakes, OneActs, Places, Creating, Deleting, Recorded, Stations!Busy
  <2> QED
    BY <2>1, <2>2, <2>3, <2>4
<1>7. CASE Stations!NoBroadcast
  <2>1. StationTyped'
    BY ~Overlap, <1>7 DEF Stations!NoBroadcast, Stations!Still, UnitType
  <2>2. OneActs' /\ Places'
    BY ~Overlap, <1>7 DEF Stations!NoBroadcast, Stations!Still, OneActs, Places, Creating, Deleting,
        DeletedRests, Recorded, Stations!Backup, Stations!Unlinked
  <2>3. DeletedRests'
    BY ~Overlap, <1>7 DEF Stations!NoBroadcast, Stations!Still, OneActs, Places, DeletedRests, Stations!Unlinked
  <2>4. Recorded'
    BY ~Overlap, <1>7 DEF Stations!NoBroadcast, Stations!Still, OneActs, Places, Creating, Deleting, Recorded,
        Stations!Busy
  <2> QED
    BY <2>1, <2>2, <2>3, <2>4
<1>8. CASE Stations!BeginBroadcast
  <2>1. StationTyped'
    BY ~Overlap, <1>8 DEF Stations!BeginBroadcast, Stations!Takes, Stations!Deleted, UnitType
  <2>2. OneActs' /\ Places'
    BY ~Overlap, <1>8 DEF Stations!BeginBroadcast, Stations!Takes, Stations!Deleted, OneActs, Places, Creating,
        Deleting, DeletedRests, Recorded, Stations!Backup, Stations!Unlinked
  <2>3. DeletedRests'
    BY ~Overlap, <1>8 DEF Stations!BeginBroadcast, Stations!Takes, Stations!Deleted, OneActs, Places,
        DeletedRests, Stations!Unlinked
  <2>4. Recorded'
    BY ~Overlap, <1>8 DEF Stations!BeginBroadcast, Stations!Takes, Stations!Deleted, OneActs, Places, Creating,
        Deleting, Recorded, Stations!Busy
  <2> QED
    BY <2>1, <2>2, <2>3, <2>4
<1>9. CASE Stations!SwitchUnit
  <2>1. StationTyped'
    BY ~Overlap, <1>9 DEF Stations!SwitchUnit, Stations!Started, Stations!Stopped, UnitType
  <2>2. OneActs' /\ Places'
    BY ~Overlap, <1>9 DEF Stations!SwitchUnit, Stations!Started, Stations!Stopped, OneActs, Places, Creating,
        Deleting, DeletedRests, Recorded, Stations!Backup, Stations!Unlinked
  <2>3. DeletedRests'
    BY ~Overlap, <1>9 DEF Stations!SwitchUnit, Stations!Started, Stations!Stopped, OneActs, Places,
        DeletedRests, Stations!Unlinked
  <2>4. Recorded'
    BY ~Overlap, <1>9 DEF Stations!SwitchUnit, Stations!Started, Stations!Stopped, OneActs, Places, Creating,
        Deleting, Recorded, Stations!Busy
  <2> QED
    BY <2>1, <2>2, <2>3, <2>4
<1>10. CASE Stations!SwitchFails
  <2>1. StationTyped'
    BY ~Overlap, <1>10 DEF Stations!SwitchFails, Stations!Fails, UnitType
  <2>2. OneActs' /\ Places'
    BY ~Overlap, <1>10 DEF Stations!SwitchFails, Stations!Fails, OneActs, Places, Creating, Deleting,
        DeletedRests, Recorded, Stations!Backup, Stations!Unlinked
  <2>3. DeletedRests'
    BY ~Overlap, <1>10 DEF Stations!SwitchFails, Stations!Fails, OneActs, Places, DeletedRests,
        Stations!Unlinked
  <2>4. Recorded'
    BY ~Overlap, <1>10 DEF Stations!SwitchFails, Stations!Fails, OneActs, Places, Creating, Deleting, Recorded,
        Stations!Busy
  <2> QED
    BY <2>1, <2>2, <2>3, <2>4
<1>11. CASE Stations!Await
  <2>1. StationTyped'
    <3>1. StationTypes'
      <4>1. stations_pc' = [p \in Stations!Proc |-> stations_pc'[p]]
        BY <1>11 DEF Stations!Await
      <4>2. CASE held' = held
        BY <4>1, <4>2
      <4>3. CASE Stations!Fails("timer")
        BY <4>1, <4>3 DEF Stations!Fails
      <4> QED
        BY <1>11, <4>2, <4>3 DEF Stations!Await
    <3>2. RowType'
      BY ~Overlap, <1>11 DEF Stations!Await, Stations!Fails
    <3>3. StreamType'
      BY ~Overlap, <1>11 DEF Stations!Await, Stations!Fails
    <3>4. FilesType'
      BY ~Overlap, <1>11 DEF Stations!Await, Stations!Fails
    <3>5. UnitType'
      BY ~Overlap, <1>11 DEF Stations!Await, Stations!Fails
    <3> QED
      BY <3>1, <3>2, <3>3, <3>4, <3>5
  <2>2. OneActs' /\ Places'
    BY ~Overlap, <1>11 DEF Stations!Await, Stations!Fails, OneActs, Places, Creating, Deleting, DeletedRests,
        Recorded, Stations!Backup, Stations!Unlinked
  <2>3. DeletedRests'
    BY ~Overlap, <1>11 DEF Stations!Await, Stations!Fails, OneActs, Places, DeletedRests, Stations!Unlinked
  <2>4. Recorded'
    BY ~Overlap, <1>11 DEF Stations!Await, Stations!Fails, OneActs, Places, Creating, Deleting, Recorded,
        Stations!Busy
  <2> QED
    BY <2>1, <2>2, <2>3, <2>4
<1>12. CASE Stations!Report
  <2>1. StationTyped'
    BY ~Overlap, <1>12 DEF Stations!Report, Stations!Releases, UnitType
  <2>2. OneActs' /\ Places'
    BY ~Overlap, <1>12 DEF Stations!Report, Stations!Releases, OneActs, Places, Creating, Deleting,
        DeletedRests, Recorded, Stations!Backup, Stations!Unlinked
  <2>3. DeletedRests'
    BY ~Overlap, <1>12 DEF Stations!Report, Stations!Releases, OneActs, Places, DeletedRests, Stations!Unlinked
  <2>4. Recorded'
    BY ~Overlap, <1>12 DEF Stations!Report, Stations!Releases, OneActs, Places, Creating, Deleting, Recorded,
        Stations!Busy
  <2> QED
    BY <2>1, <2>2, <2>3, <2>4
<1>13. CASE \E p \in Stations!Proc : Stations!NoLifecycle(p)
  <2>1. StationTyped'
    BY ~Overlap, <1>13 DEF Stations!NoLifecycle, Stations!Still, Stations!After, UnitType
  <2>2. OneActs' /\ Places'
    BY ~Overlap, <1>13 DEF Stations!NoLifecycle, Stations!Still, Stations!After, OneActs, Places, Creating,
        Deleting, DeletedRests, Recorded, Stations!Backup, Stations!Unlinked
  <2>3. DeletedRests'
    BY ~Overlap, <1>13 DEF Stations!NoLifecycle, Stations!Still, Stations!After, OneActs, Places, DeletedRests,
        Stations!Unlinked
  <2>4. Recorded'
    BY ~Overlap, <1>13 DEF Stations!NoLifecycle, Stations!Still, Stations!After, OneActs, Places, Creating,
        Deleting, Recorded, Stations!Busy
  <2> QED
    BY <2>1, <2>2, <2>3, <2>4
<1>14. CASE \E p \in Stations!Proc : Stations!BeginLifecycle(p)
  <2>1. StationTyped'
    BY ~Overlap, <1>14 DEF Stations!BeginLifecycle, Stations!Takes, Stations!Gone, UnitType
  <2>2. OneActs' /\ Places'
    BY ~Overlap, <1>14 DEF Stations!BeginLifecycle, Stations!Takes, Stations!Gone, OneActs, Places, Creating,
        Deleting, DeletedRests, Recorded, Stations!Backup, Stations!Unlinked
  <2>3. DeletedRests'
    BY ~Overlap, <1>14 DEF Stations!BeginLifecycle, Stations!Takes, Stations!Gone, OneActs, Places,
        DeletedRests, Stations!Unlinked
  <2>4. Recorded'
    BY ~Overlap, <1>14 DEF Stations!BeginLifecycle, Stations!Takes, Stations!Gone, OneActs, Places, Creating,
        Deleting, Recorded, Stations!Busy
  <2> QED
    BY <2>1, <2>2, <2>3, <2>4
<1>15. CASE \E p \in Stations!Proc : Stations!Render(p)
  <2>1. StationTyped'
    BY ~Overlap, <1>15 DEF Stations!Render, Stations!Rendered, UnitType
  <2>2. OneActs' /\ Places'
    BY ~Overlap, <1>15 DEF Stations!Render, Stations!Rendered, OneActs, Places, Creating, Deleting,
        DeletedRests, Recorded, Stations!Backup, Stations!Unlinked
  <2>3. DeletedRests'
    BY ~Overlap, <1>15 DEF Stations!Render, Stations!Rendered, OneActs, Places, DeletedRests, Stations!Unlinked
  <2>4. Recorded'
    BY ~Overlap, <1>15 DEF Stations!Render, Stations!Rendered, OneActs, Places, Creating, Deleting, Recorded,
        Stations!Busy
  <2> QED
    BY <2>1, <2>2, <2>3, <2>4
<1>16. CASE \E p \in Stations!Proc : Stations!RenderFails(p)
  <2>1. StationTyped'
    BY ~Overlap, <1>16 DEF Stations!RenderFails, Stations!Rendered, UnitType
  <2>2. OneActs' /\ Places'
    BY ~Overlap, <1>16 DEF Stations!RenderFails, Stations!Rendered, OneActs, Places, Creating, Deleting,
        DeletedRests, Recorded, Stations!Backup, Stations!Unlinked
  <2>3. DeletedRests'
    BY ~Overlap, <1>16 DEF Stations!RenderFails, Stations!Rendered, OneActs, Places, DeletedRests,
        Stations!Unlinked
  <2>4. Recorded'
    BY ~Overlap, <1>16 DEF Stations!RenderFails, Stations!Rendered, OneActs, Places, Creating, Deleting,
        Recorded, Stations!Busy
  <2> QED
    BY <2>1, <2>2, <2>3, <2>4
<1>17. CASE \E p \in Stations!Proc : Stations!Provisioned(p)
  <2>1. StationTyped'
    <3>1. StationTypes'
      <4>1. CASE Stations!Provisioned("timer")
        BY ~Overlap, <4>1 DEF Stations!Provisioned, Stations!Releases, Stations!After
      <4>2. CASE Stations!Provisioned("cli")
        BY ~Overlap, <4>2 DEF Stations!Provisioned, Stations!Releases, Stations!After
      <4> QED
        BY <1>17, <4>1, <4>2
    <3>2. RowType'
      BY ~Overlap, <1>17 DEF Stations!Provisioned, Stations!Releases, Stations!After
    <3>3. StreamType'
      BY ~Overlap, <1>17 DEF Stations!Provisioned, Stations!Releases, Stations!After
    <3>4. FilesType'
      BY ~Overlap, <1>17 DEF Stations!Provisioned, Stations!Releases, Stations!After
    <3>5. UnitType'
      BY ~Overlap, <1>17 DEF Stations!Provisioned, Stations!Releases, Stations!After
    <3> QED
      BY <3>1, <3>2, <3>3, <3>4, <3>5
  <2>2. OneActs' /\ Places'
    BY ~Overlap, <1>17 DEF Stations!Provisioned, Stations!Releases, Stations!After, OneActs, Places, Creating,
        Deleting, DeletedRests, Recorded, Stations!Backup, Stations!Unlinked
  <2>3. DeletedRests'
    BY ~Overlap, <1>17 DEF Stations!Provisioned, Stations!Releases, Stations!After, OneActs, Places,
        DeletedRests, Stations!Unlinked
  <2>4. Recorded'
    BY ~Overlap, <1>17 DEF Stations!Provisioned, Stations!Releases, Stations!After, OneActs, Places, Creating,
        Deleting, Recorded, Stations!Busy
  <2> QED
    BY <2>1, <2>2, <2>3, <2>4
<1>18. CASE \E p \in Stations!Proc : Stations!StopUnit(p)
  <2>1. StationTyped'
    <3>1. StationTypes'
      BY <1>18 DEF Stations!StopUnit, Stations!Stopped
    <3>2. RowType'
      BY <1>18 DEF Stations!StopUnit, Stations!Stopped
    <3>3. StreamType'
      BY <1>18 DEF Stations!StopUnit, Stations!Stopped
    <3>4. FilesType' /\ UnitType'
      BY <1>18 DEF Stations!StopUnit, Stations!Stopped
    <3> QED
      BY <3>1, <3>2, <3>3, <3>4
  <2>2. OneActs' /\ Places'
    BY ~Overlap, <1>18 DEF Stations!StopUnit, Stations!Stopped, OneActs, Places, Creating, Deleting,
        DeletedRests, Recorded, Stations!Backup, Stations!Unlinked
  <2>3. DeletedRests'
    BY ~Overlap, <1>18 DEF Stations!StopUnit, Stations!Stopped, OneActs, Places, DeletedRests, Stations!Unlinked
  <2>4. Recorded'
    BY ~Overlap, <1>18 DEF Stations!StopUnit, Stations!Stopped, OneActs, Places, Creating, Deleting, Recorded,
        Stations!Busy
  <2> QED
    BY <2>1, <2>2, <2>3, <2>4
<1>19. CASE \E p \in Stations!Proc : Stations!StopFails(p)
  <2>1. StationTyped'
    BY ~Overlap, <1>19 DEF Stations!StopFails, UnitType
  <2>2. OneActs' /\ Places'
    BY ~Overlap, <1>19 DEF Stations!StopFails, OneActs, Places, Creating, Deleting, DeletedRests, Recorded,
        Stations!Backup, Stations!Unlinked
  <2>3. DeletedRests'
    BY ~Overlap, <1>19 DEF Stations!StopFails, OneActs, Places, DeletedRests, Stations!Unlinked
  <2>4. Recorded'
    BY ~Overlap, <1>19 DEF Stations!StopFails, OneActs, Places, Creating, Deleting, Recorded, Stations!Busy
  <2> QED
    BY <2>1, <2>2, <2>3, <2>4
<1>20. CASE \E p \in Stations!Proc : Stations!Unlink(p)
  <2>1. StationTyped'
    BY ~Overlap, <1>20 DEF Stations!Unlink, Stations!Unlinked, UnitType
  <2>2. OneActs' /\ Places'
    BY ~Overlap, <1>20 DEF Stations!Unlink, Stations!Unlinked, OneActs, Places, Creating, Deleting,
        DeletedRests, Recorded, Stations!Backup
  <2>3. DeletedRests'
    BY ~Overlap, <1>20 DEF Stations!Unlink, Stations!Unlinked, OneActs, Places, DeletedRests
  <2>4. Recorded'
    BY ~Overlap, <1>20 DEF Stations!Unlink, Stations!Unlinked, OneActs, Places, Creating, Deleting, Recorded,
        Stations!Busy
  <2> QED
    BY <2>1, <2>2, <2>3, <2>4
<1>21. CASE \E p \in Stations!Proc : Stations!UnlinkFails(p)
  <2>1. StationTyped'
    BY ~Overlap, <1>21 DEF Stations!UnlinkFails, Stations!Unlinked, UnitType
  <2>2. OneActs' /\ Places'
    BY ~Overlap, <1>21 DEF Stations!UnlinkFails, Stations!Unlinked, OneActs, Places, Creating, Deleting,
        DeletedRests, Recorded, Stations!Backup
  <2>3. DeletedRests'
    BY ~Overlap, <1>21 DEF Stations!UnlinkFails, Stations!Unlinked, OneActs, Places, DeletedRests
  <2>4. Recorded'
    BY ~Overlap, <1>21 DEF Stations!UnlinkFails, Stations!Unlinked, OneActs, Places, Creating, Deleting,
        Recorded, Stations!Busy
  <2> QED
    BY <2>1, <2>2, <2>3, <2>4
<1>22. CASE \E p \in Stations!Proc : Stations!Delete(p)
  <2>1. StationTyped'
    <3>1. StationTypes'
      <4>1. CASE Stations!Delete("timer")
        BY ~Overlap, <4>1 DEF Stations!Delete, Stations!Releases, Stations!After
      <4>2. CASE Stations!Delete("cli")
        BY ~Overlap, <4>2 DEF Stations!Delete, Stations!Releases, Stations!After
      <4> QED
        BY <1>22, <4>1, <4>2
    <3>2. RowType'
      BY ~Overlap, <1>22 DEF Stations!Delete, Stations!Releases, Stations!After
    <3>3. StreamType'
      BY ~Overlap, <1>22 DEF Stations!Delete, Stations!Releases, Stations!After
    <3>4. FilesType'
      BY ~Overlap, <1>22 DEF Stations!Delete, Stations!Releases, Stations!After
    <3>5. UnitType'
      BY ~Overlap, <1>22 DEF Stations!Delete, Stations!Releases, Stations!After
    <3> QED
      BY <3>1, <3>2, <3>3, <3>4, <3>5
  <2>2. OneActs' /\ Places'
    BY ~Overlap, <1>22 DEF Stations!Delete, Stations!Releases, Stations!After, OneActs, Places, Creating,
        Deleting, DeletedRests, Recorded, Stations!Backup, Stations!Unlinked
  <2>3. DeletedRests'
    BY ~Overlap, <1>22 DEF Stations!Delete, Stations!Releases, Stations!After, OneActs, Places, DeletedRests,
        Stations!Unlinked
  <2>4. Recorded'
    BY ~Overlap, <1>22 DEF Stations!Delete, Stations!Releases, Stations!After, OneActs, Places, Creating,
        Deleting, Recorded, Stations!Busy
  <2> QED
    BY <2>1, <2>2, <2>3, <2>4
<1>23. CASE \E p \in Stations!Proc : Stations!CreateFails(p)
  <2>1. StationTyped'
    BY ~Overlap, <1>23 DEF Stations!CreateFails, Stations!Releases, Stations!After, UnitType
  <2>2. OneActs' /\ Places'
    BY ~Overlap, <1>23 DEF Stations!CreateFails, Stations!Releases, Stations!After, OneActs, Places, Creating,
        Deleting, DeletedRests, Recorded, Stations!Backup, Stations!Unlinked
  <2>3. DeletedRests'
    BY ~Overlap, <1>23 DEF Stations!CreateFails, Stations!Releases, Stations!After, OneActs, Places,
        DeletedRests, Stations!Unlinked
  <2>4. Recorded'
    BY ~Overlap, <1>23 DEF Stations!CreateFails, Stations!Releases, Stations!After, OneActs, Places, Creating,
        Deleting, Recorded, Stations!Busy
  <2> QED
    BY <2>1, <2>2, <2>3, <2>4
<1>24. CASE \E p \in Stations!Proc : Stations!DeleteFails(p)
  <2>1. StationTyped'
    BY ~Overlap, <1>24 DEF Stations!DeleteFails, Stations!Releases, Stations!After, UnitType
  <2>2. OneActs' /\ Places'
    BY ~Overlap, <1>24 DEF Stations!DeleteFails, Stations!Releases, Stations!After, OneActs, Places, Creating,
        Deleting, DeletedRests, Recorded, Stations!Backup, Stations!Unlinked
  <2>3. DeletedRests'
    BY ~Overlap, <1>24 DEF Stations!DeleteFails, Stations!Releases, Stations!After, OneActs, Places,
        DeletedRests, Stations!Unlinked
  <2>4. Recorded'
    BY ~Overlap, <1>24 DEF Stations!DeleteFails, Stations!Releases, Stations!After, OneActs, Places, Creating,
        Deleting, Recorded, Stations!Busy
  <2> QED
    BY <2>1, <2>2, <2>3, <2>4
<1>25. CASE Stations!NoAudio
  <2>1. StationTyped'
    BY ~Overlap, <1>25 DEF Stations!NoAudio, Stations!Still, UnitType
  <2>2. OneActs' /\ Places'
    BY ~Overlap, <1>25 DEF Stations!NoAudio, Stations!Still, OneActs, Places, Creating, Deleting, DeletedRests,
        Recorded, Stations!Backup, Stations!Unlinked
  <2>3. DeletedRests'
    BY ~Overlap, <1>25 DEF Stations!NoAudio, Stations!Still, OneActs, Places, DeletedRests, Stations!Unlinked
  <2>4. Recorded'
    BY ~Overlap, <1>25 DEF Stations!NoAudio, Stations!Still, OneActs, Places, Creating, Deleting, Recorded,
        Stations!Busy
  <2> QED
    BY <2>1, <2>2, <2>3, <2>4
<1>26. CASE Stations!AudioRefused
  <2>1. StationTyped'
    BY ~Overlap, <1>26 DEF Stations!AudioRefused, UnitType
  <2>2. OneActs' /\ Places'
    BY ~Overlap, <1>26 DEF Stations!AudioRefused, OneActs, Places, Creating, Deleting, DeletedRests, Recorded,
        Stations!Backup, Stations!Unlinked
  <2>3. DeletedRests'
    BY ~Overlap, <1>26 DEF Stations!AudioRefused, OneActs, Places, DeletedRests, Stations!Unlinked
  <2>4. Recorded'
    BY ~Overlap, <1>26 DEF Stations!AudioRefused, OneActs, Places, Creating, Deleting, Recorded, Stations!Busy
  <2> QED
    BY <2>1, <2>2, <2>3, <2>4
<1>27. CASE Stations!BeginAudio
  <2>1. StationTyped'
    BY ~Overlap, <1>27 DEF Stations!BeginAudio, Stations!Takes, Stations!Ready, UnitType
  <2>2. OneActs' /\ Places'
    BY ~Overlap, <1>27 DEF Stations!BeginAudio, Stations!Takes, Stations!Ready, OneActs, Places, Creating,
        Deleting, DeletedRests, Recorded, Stations!Backup, Stations!Unlinked
  <2>3. DeletedRests'
    BY ~Overlap, <1>27 DEF Stations!BeginAudio, Stations!Takes, Stations!Ready, OneActs, Places, DeletedRests,
        Stations!Unlinked
  <2>4. Recorded'
    BY ~Overlap, <1>27 DEF Stations!BeginAudio, Stations!Takes, Stations!Ready, OneActs, Places, Creating,
        Deleting, Recorded, Stations!Busy
  <2> QED
    BY <2>1, <2>2, <2>3, <2>4
<1>28. CASE Stations!Install
  <2>1. StationTyped'
    BY ~Overlap, <1>28 DEF Stations!Install, Stations!Ready, Stations!Backup, UnitType
  <2>2. OneActs' /\ Places'
    <3>1. /\ Timer = "install" /\ Timer' \in {"tell", "commit"} /\ Cli = "idle" /\ Cli' = "idle"
          /\ UNCHANGED <<stations_row, stream, unit>> /\ stations_row.life = "ready"
          /\ stations_files'.config = stream.pending /\ held'["cli"] = held["cli"]
      BY <1>28 DEF Stations!Install, Stations!Ready, OneActs
    <3>2. Stations!Backup' # {}
      <4>1. stations_files'.saved
              = stations_files.saved \cup (IF Stations!Backup = {} THEN {<<stream.rev, stations_files.config>>} ELSE {})
        BY <1>28 DEF Stations!Install
      <4>2. \E b \in stations_files'.saved : b[1] = stream.rev
        <5>1. CASE Stations!Backup = {}
          <6>1. <<stream.rev, stations_files.config>> \in stations_files'.saved
            BY <4>1, <5>1
          <6>2. <<stream.rev, stations_files.config>>[1] = stream.rev
            OBVIOUS
          <6> QED
            BY <6>1, <6>2
        <5>2. CASE Stations!Backup # {}
          BY <4>1, <5>2 DEF Stations!Backup
        <5> QED
          BY <5>1, <5>2
      <4> QED
        BY <3>1, <4>2 DEF Stations!Backup
    <3> QED
      BY <3>1, <3>2 DEF OneActs, Places, Creating, Deleting
  <2>3. DeletedRests'
    BY ~Overlap, <1>28 DEF Stations!Install, Stations!Ready, Stations!Backup, OneActs, Places, DeletedRests,
        Stations!Unlinked
  <2>4. Recorded'
    <3>1. /\ UNCHANGED <<stations_row, stream>> /\ stations_row.life = "ready" /\ stream.status = "applying"
      BY <1>28 DEF Stations!Install, Stations!Ready, Places
    <3>2. CASE Stations!Backup # {}
      BY <1>28, <3>1, <3>2 DEF Stations!Install, Stations!Backup, Recorded, Stations!Busy
    <3>3. CASE Stations!Backup = {}
      <4>1. stations_files'.saved = stations_files.saved \cup {<<stream.rev, stations_files.config>>}
        BY <1>28, <3>3 DEF Stations!Install
      <4>2. \A b \in stations_files.saved : b[1] # stream.rev
        BY <3>3 DEF Stations!Backup
      <4>3. ASSUME \A b \in stations_files'.saved : b[1] = stream.rev
            PROVE  \A b \in stations_files'.saved : b[2] = stream.active
        <5>1. stations_files.saved = {}
          BY <4>1, <4>2, <4>3
        <5> QED
          BY <3>1, <4>1, <5>1 DEF Recorded
      <4>4. \A b \in stations_files'.saved : b[1] \in Nat /\ b[1] <= stream.rev
        BY <4>1 DEF Recorded
      <4>5. stations_files'.saved # {}
        BY <4>1
      <4> QED
        BY <3>1, <4>3, <4>4, <4>5 DEF Recorded
    <3> QED
      BY <3>2, <3>3
  <2> QED
    BY <2>1, <2>2, <2>3, <2>4
<1>29. CASE Stations!InstallFails
  <2>1. StationTyped'
    BY ~Overlap, <1>29 DEF Stations!InstallFails, UnitType
  <2>2. OneActs' /\ Places'
    BY ~Overlap, <1>29 DEF Stations!InstallFails, OneActs, Places, Creating, Deleting, DeletedRests, Recorded,
        Stations!Backup, Stations!Unlinked
  <2>3. DeletedRests'
    BY ~Overlap, <1>29 DEF Stations!InstallFails, OneActs, Places, DeletedRests, Stations!Unlinked
  <2>4. Recorded'
    BY ~Overlap, <1>29 DEF Stations!InstallFails, OneActs, Places, Creating, Deleting, Recorded, Stations!Busy
  <2> QED
    BY <2>1, <2>2, <2>3, <2>4
<1>30. CASE Stations!Tell
  <2>1. StationTyped'
    BY ~Overlap, <1>30 DEF Stations!Tell, Stations!Told, Stations!Restarted, UnitType
  <2>2. OneActs' /\ Places'
    BY ~Overlap, <1>30 DEF Stations!Tell, Stations!Restarted, OneActs, Places, Creating, Deleting, DeletedRests,
        Recorded, Stations!Backup, Stations!Unlinked
  <2>3. DeletedRests'
    BY ~Overlap, <1>30 DEF Stations!Tell, Stations!Restarted, OneActs, Places, DeletedRests, Stations!Unlinked
  <2>4. Recorded'
    BY ~Overlap, <1>30 DEF Stations!Tell, Stations!Restarted, OneActs, Places, Creating, Deleting, Recorded,
        Stations!Busy
  <2> QED
    BY <2>1, <2>2, <2>3, <2>4
<1>31. CASE Stations!TellFails
  <2>1. StationTyped'
    BY ~Overlap, <1>31 DEF Stations!TellFails, UnitType
  <2>2. OneActs' /\ Places'
    BY ~Overlap, <1>31 DEF Stations!TellFails, OneActs, Places, Creating, Deleting, DeletedRests, Recorded,
        Stations!Backup, Stations!Unlinked
  <2>3. DeletedRests'
    BY ~Overlap, <1>31 DEF Stations!TellFails, OneActs, Places, DeletedRests, Stations!Unlinked
  <2>4. Recorded'
    BY ~Overlap, <1>31 DEF Stations!TellFails, OneActs, Places, Creating, Deleting, Recorded, Stations!Busy
  <2> QED
    BY <2>1, <2>2, <2>3, <2>4
<1>32. CASE Stations!Hear
  <2>1. StationTyped'
    BY ~Overlap, <1>32 DEF Stations!Hear, Stations!Still, UnitType
  <2>2. OneActs' /\ Places'
    BY ~Overlap, <1>32 DEF Stations!Hear, Stations!Still, OneActs, Places, Creating, Deleting, DeletedRests,
        Recorded, Stations!Backup, Stations!Unlinked
  <2>3. DeletedRests'
    BY ~Overlap, <1>32 DEF Stations!Hear, Stations!Still, OneActs, Places, DeletedRests, Stations!Unlinked
  <2>4. Recorded'
    BY ~Overlap, <1>32 DEF Stations!Hear, Stations!Still, OneActs, Places, Creating, Deleting, Recorded,
        Stations!Busy
  <2> QED
    BY <2>1, <2>2, <2>3, <2>4
<1>33. CASE Stations!Commit
  <2>1. StationTyped'
    BY ~Overlap, <1>33 DEF Stations!Commit, UnitType
  <2>2. OneActs' /\ Places'
    BY ~Overlap, <1>33 DEF Stations!Commit, OneActs, Places, Creating, Deleting, DeletedRests, Recorded,
        Stations!Backup, Stations!Unlinked
  <2>3. DeletedRests'
    BY ~Overlap, <1>33 DEF Stations!Commit, OneActs, Places, DeletedRests, Stations!Unlinked
  <2>4. Recorded'
    BY ~Overlap, <1>33 DEF Stations!Commit, OneActs, Places, Creating, Deleting, Recorded, Stations!Busy
  <2> QED
    BY <2>1, <2>2, <2>3, <2>4
<1>34. CASE Stations!CommitFails
  <2>1. StationTyped'
    BY ~Overlap, <1>34 DEF Stations!CommitFails, UnitType
  <2>2. OneActs' /\ Places'
    BY ~Overlap, <1>34 DEF Stations!CommitFails, OneActs, Places, Creating, Deleting, DeletedRests, Recorded,
        Stations!Backup, Stations!Unlinked
  <2>3. DeletedRests'
    BY ~Overlap, <1>34 DEF Stations!CommitFails, OneActs, Places, DeletedRests, Stations!Unlinked
  <2>4. Recorded'
    BY ~Overlap, <1>34 DEF Stations!CommitFails, OneActs, Places, Creating, Deleting, Recorded, Stations!Busy
  <2> QED
    BY <2>1, <2>2, <2>3, <2>4
<1>35. CASE Stations!Finish
  <2>1. StationTyped'
    BY ~Overlap, <1>35 DEF Stations!Finish, Stations!Releases, Stations!Backup, UnitType
  <2>2. OneActs' /\ Places'
    BY ~Overlap, <1>35 DEF Stations!Finish, Stations!Releases, Stations!Backup, OneActs, Places, Creating,
        Deleting, DeletedRests, Recorded, Stations!Unlinked
  <2>3. DeletedRests'
    BY ~Overlap, <1>35 DEF Stations!Finish, Stations!Releases, Stations!Backup, OneActs, Places, DeletedRests,
        Stations!Unlinked
  <2>4. Recorded'
    BY ~Overlap, <1>35 DEF Stations!Finish, Stations!Releases, Stations!Backup, OneActs, Places, Creating,
        Deleting, Recorded, Stations!Busy
  <2> QED
    BY <2>1, <2>2, <2>3, <2>4
<1>36. CASE Stations!Restore
  <2>1. StationTyped'
    BY ~Overlap, <1>36 DEF Stations!Restore, Stations!Told, Stations!Restored, Stations!Saved, Stations!Backup, UnitType
  <2>2. OneActs' /\ Places'
    BY ~Overlap, <1>36 DEF Stations!Restore, Stations!Restored, Stations!Saved, Stations!Backup, OneActs,
        Places, Creating, Deleting, DeletedRests, Recorded, Stations!Unlinked
  <2>3. DeletedRests'
    BY ~Overlap, <1>36 DEF Stations!Restore, Stations!Restored, Stations!Saved, Stations!Backup, OneActs,
        Places, DeletedRests, Stations!Unlinked
  <2>4. Recorded'
    <3>1. /\ UNCHANGED <<stations_row, stream>> /\ stream.status = "applying"
      BY <1>36 DEF Stations!Restore, Places
    <3>2. CASE stations_files' = stations_files \/ stations_files' = [stations_files EXCEPT !.config = Stations!Saved]
      <4>1. stations_files'.saved = {} => stations_files' = stations_files
        BY <1>36, <3>2 DEF Stations!Restore, Stations!Restored, Stations!Backup
      <4> QED
        BY <3>1, <3>2, <4>1 DEF Recorded
    <3>3. CASE Stations!Backup # {} /\ stations_files' = Stations!Restored
      <4>1. PICK b \in Stations!Backup : Stations!Saved = b[2]
        BY <3>3 DEF Stations!Saved
      <4>2. /\ stations_files'.saved = stations_files.saved \ Stations!Backup /\ stations_files'.config = b[2]
        BY <3>3, <4>1 DEF Stations!Restored
      <4>3. ASSUME stations_row.life = "ready", stations_files'.saved = {} PROVE stations_files'.config = stream.active
        BY <3>1, <4>1, <4>2, <4>3 DEF Recorded, Stations!Backup, Stations!Busy
      <4>4. stations_files'.saved \subseteq stations_files.saved /\ \A c \in stations_files'.saved : c[1] # stream.rev
        BY <4>2 DEF Stations!Backup
      <4> QED
        BY <3>1, <4>3, <4>4 DEF Recorded
    <3> QED
      BY <1>36, <3>2, <3>3 DEF Stations!Restore
  <2> QED
    BY <2>1, <2>2, <2>3, <2>4
<1>37. CASE Stations!RestoreFails
  <2>1. StationTyped'
    BY ~Overlap, <1>37 DEF Stations!RestoreFails, Stations!Saved, Stations!Backup, UnitType
  <2>2. OneActs' /\ Places'
    BY ~Overlap, <1>37 DEF Stations!RestoreFails, Stations!Saved, Stations!Backup, OneActs, Places, Creating,
        Deleting, DeletedRests, Recorded, Stations!Unlinked
  <2>3. DeletedRests'
    BY ~Overlap, <1>37 DEF Stations!RestoreFails, Stations!Saved, Stations!Backup, OneActs, Places,
        DeletedRests, Stations!Unlinked
  <2>4. Recorded'
    BY ~Overlap, <1>37 DEF Stations!RestoreFails, Stations!Saved, Stations!Backup, OneActs, Places, Creating,
        Deleting, Recorded, Stations!Busy
  <2> QED
    BY <2>1, <2>2, <2>3, <2>4
<1>38. CASE Stations!AudioFails
  <2>1. StationTyped'
    BY ~Overlap, <1>38 DEF Stations!AudioFails, Stations!Releases, UnitType
  <2>2. OneActs' /\ Places'
    BY ~Overlap, <1>38 DEF Stations!AudioFails, Stations!Releases, OneActs, Places, Creating, Deleting,
        DeletedRests, Recorded, Stations!Backup, Stations!Unlinked
  <2>3. DeletedRests'
    BY ~Overlap, <1>38 DEF Stations!AudioFails, Stations!Releases, OneActs, Places, DeletedRests,
        Stations!Unlinked
  <2>4. Recorded'
    BY ~Overlap, <1>38 DEF Stations!AudioFails, Stations!Releases, OneActs, Places, Creating, Deleting,
        Recorded, Stations!Busy
  <2> QED
    BY <2>1, <2>2, <2>3, <2>4
<1>39. CASE Stations!NoListing
  <2>1. StationTyped'
    BY ~Overlap, <1>39 DEF Stations!NoListing, Stations!Still, UnitType
  <2>2. OneActs' /\ Places'
    BY ~Overlap, <1>39 DEF Stations!NoListing, Stations!Still, OneActs, Places, Creating, Deleting,
        DeletedRests, Recorded, Stations!Backup, Stations!Unlinked
  <2>3. DeletedRests'
    BY ~Overlap, <1>39 DEF Stations!NoListing, Stations!Still, OneActs, Places, DeletedRests, Stations!Unlinked
  <2>4. Recorded'
    BY ~Overlap, <1>39 DEF Stations!NoListing, Stations!Still, OneActs, Places, Creating, Deleting, Recorded,
        Stations!Busy
  <2> QED
    BY <2>1, <2>2, <2>3, <2>4
<1>40. CASE Stations!BeginListing
  <2>1. StationTyped'
    BY ~Overlap, <1>40 DEF Stations!BeginListing, Stations!Takes, UnitType
  <2>2. OneActs' /\ Places'
    BY ~Overlap, <1>40 DEF Stations!BeginListing, Stations!Takes, OneActs, Places, Creating, Deleting,
        DeletedRests, Recorded, Stations!Backup, Stations!Unlinked
  <2>3. DeletedRests'
    BY ~Overlap, <1>40 DEF Stations!BeginListing, Stations!Takes, OneActs, Places, DeletedRests,
        Stations!Unlinked
  <2>4. Recorded'
    BY ~Overlap, <1>40 DEF Stations!BeginListing, Stations!Takes, OneActs, Places, Creating, Deleting, Recorded,
        Stations!Busy
  <2> QED
    BY <2>1, <2>2, <2>3, <2>4
<1>41. CASE Stations!ApplyListing
  <2>1. StationTyped'
    BY ~Overlap, <1>41 DEF Stations!ApplyListing, UnitType
  <2>2. OneActs' /\ Places'
    BY ~Overlap, <1>41 DEF Stations!ApplyListing, OneActs, Places, Creating, Deleting, DeletedRests, Recorded,
        Stations!Backup, Stations!Unlinked
  <2>3. DeletedRests'
    BY ~Overlap, <1>41 DEF Stations!ApplyListing, OneActs, Places, DeletedRests, Stations!Unlinked
  <2>4. Recorded'
    BY ~Overlap, <1>41 DEF Stations!ApplyListing, OneActs, Places, Creating, Deleting, Recorded, Stations!Busy
  <2> QED
    BY <2>1, <2>2, <2>3, <2>4
<1>42. CASE Stations!ListingFails
  <2>1. StationTyped'
    BY ~Overlap, <1>42 DEF Stations!ListingFails, UnitType
  <2>2. OneActs' /\ Places'
    BY ~Overlap, <1>42 DEF Stations!ListingFails, OneActs, Places, Creating, Deleting, DeletedRests, Recorded,
        Stations!Backup, Stations!Unlinked
  <2>3. DeletedRests'
    BY ~Overlap, <1>42 DEF Stations!ListingFails, OneActs, Places, DeletedRests, Stations!Unlinked
  <2>4. Recorded'
    BY ~Overlap, <1>42 DEF Stations!ListingFails, OneActs, Places, Creating, Deleting, Recorded, Stations!Busy
  <2> QED
    BY <2>1, <2>2, <2>3, <2>4
<1>43. CASE Stations!Listed
  <2>1. StationTyped'
    BY ~Overlap, <1>43 DEF Stations!Listed, Stations!Releases, UnitType
  <2>2. OneActs' /\ Places'
    BY ~Overlap, <1>43 DEF Stations!Listed, Stations!Releases, OneActs, Places, Creating, Deleting,
        DeletedRests, Recorded, Stations!Backup, Stations!Unlinked
  <2>3. DeletedRests'
    BY ~Overlap, <1>43 DEF Stations!Listed, Stations!Releases, OneActs, Places, DeletedRests, Stations!Unlinked
  <2>4. Recorded'
    BY ~Overlap, <1>43 DEF Stations!Listed, Stations!Releases, OneActs, Places, Creating, Deleting, Recorded,
        Stations!Busy
  <2> QED
    BY <2>1, <2>2, <2>3, <2>4
<1>44. CASE Stations!Unlisted
  <2>1. StationTyped'
    BY ~Overlap, <1>44 DEF Stations!Unlisted, Stations!Releases, UnitType
  <2>2. OneActs' /\ Places'
    BY ~Overlap, <1>44 DEF Stations!Unlisted, Stations!Releases, OneActs, Places, Creating, Deleting,
        DeletedRests, Recorded, Stations!Backup, Stations!Unlinked
  <2>3. DeletedRests'
    BY ~Overlap, <1>44 DEF Stations!Unlisted, Stations!Releases, OneActs, Places, DeletedRests,
        Stations!Unlinked
  <2>4. Recorded'
    BY ~Overlap, <1>44 DEF Stations!Unlisted, Stations!Releases, OneActs, Places, Creating, Deleting, Recorded,
        Stations!Busy
  <2> QED
    BY <2>1, <2>2, <2>3, <2>4
<1>45. CASE Stations!CliStart
  <2>1. StationTyped'
    BY ~Overlap, <1>45 DEF Stations!CliStart, Stations!Command, Stations!Ready, UnitType
  <2>2. OneActs' /\ Places'
    BY ~Overlap, <1>45 DEF Stations!CliStart, Stations!Command, Stations!Ready, OneActs, Places, Creating,
        Deleting, DeletedRests, Recorded, Stations!Backup, Stations!Unlinked
  <2>3. DeletedRests'
    BY ~Overlap, <1>45 DEF Stations!CliStart, Stations!Command, Stations!Ready, OneActs, Places, DeletedRests,
        Stations!Unlinked
  <2>4. Recorded'
    BY ~Overlap, <1>45 DEF Stations!CliStart, Stations!Command, Stations!Ready, OneActs, Places, Creating,
        Deleting, Recorded, Stations!Busy
  <2> QED
    BY <2>1, <2>2, <2>3, <2>4
<1>46. CASE Stations!CliRender
  <2>1. StationTyped'
    BY ~Overlap, <1>46 DEF Stations!CliRender, Stations!Rendered, UnitType
  <2>2. OneActs' /\ Places'
    BY ~Overlap, <1>46 DEF Stations!CliRender, Stations!Rendered, OneActs, Places, Creating, Deleting,
        DeletedRests, Recorded, Stations!Backup, Stations!Unlinked
  <2>3. DeletedRests'
    BY ~Overlap, <1>46 DEF Stations!CliRender, Stations!Rendered, OneActs, Places, DeletedRests,
        Stations!Unlinked
  <2>4. Recorded'
    BY ~Overlap, <1>46 DEF Stations!CliRender, Stations!Rendered, OneActs, Places, Creating, Deleting, Recorded,
        Stations!Busy
  <2> QED
    BY <2>1, <2>2, <2>3, <2>4
<1>47. CASE Stations!CliStarts
  <2>1. StationTyped'
    BY ~Overlap, <1>47 DEF Stations!CliStarts, Stations!Started, UnitType
  <2>2. OneActs' /\ Places'
    BY ~Overlap, <1>47 DEF Stations!CliStarts, Stations!Started, OneActs, Places, Creating, Deleting,
        DeletedRests, Recorded, Stations!Backup, Stations!Unlinked
  <2>3. DeletedRests'
    BY ~Overlap, <1>47 DEF Stations!CliStarts, Stations!Started, OneActs, Places, DeletedRests,
        Stations!Unlinked
  <2>4. Recorded'
    BY ~Overlap, <1>47 DEF Stations!CliStarts, Stations!Started, OneActs, Places, Creating, Deleting, Recorded,
        Stations!Busy
  <2> QED
    BY <2>1, <2>2, <2>3, <2>4
<1>48. CASE Stations!CliWaits
  <2>1. StationTyped'
    BY ~Overlap, <1>48 DEF Stations!CliWaits, UnitType
  <2>2. OneActs' /\ Places'
    BY ~Overlap, <1>48 DEF Stations!CliWaits, OneActs, Places, Creating, Deleting, DeletedRests, Recorded,
        Stations!Backup, Stations!Unlinked
  <2>3. DeletedRests'
    BY ~Overlap, <1>48 DEF Stations!CliWaits, OneActs, Places, DeletedRests, Stations!Unlinked
  <2>4. Recorded'
    BY ~Overlap, <1>48 DEF Stations!CliWaits, OneActs, Places, Creating, Deleting, Recorded, Stations!Busy
  <2> QED
    BY <2>1, <2>2, <2>3, <2>4
<1>49. CASE Stations!CliGivesUp
  <2>1. StationTyped'
    BY ~Overlap, <1>49 DEF Stations!CliGivesUp, Stations!Stopped, UnitType
  <2>2. OneActs' /\ Places'
    BY ~Overlap, <1>49 DEF Stations!CliGivesUp, Stations!Stopped, OneActs, Places, Creating, Deleting,
        DeletedRests, Recorded, Stations!Backup, Stations!Unlinked
  <2>3. DeletedRests'
    BY ~Overlap, <1>49 DEF Stations!CliGivesUp, Stations!Stopped, OneActs, Places, DeletedRests,
        Stations!Unlinked
  <2>4. Recorded'
    BY ~Overlap, <1>49 DEF Stations!CliGivesUp, Stations!Stopped, OneActs, Places, Creating, Deleting, Recorded,
        Stations!Busy
  <2> QED
    BY <2>1, <2>2, <2>3, <2>4
<1>50. CASE Stations!CliRestart
  <2>1. StationTyped'
    BY ~Overlap, <1>50 DEF Stations!CliRestart, Stations!Command, Stations!Restarted, Stations!Deleted, UnitType
  <2>2. OneActs' /\ Places'
    BY ~Overlap, <1>50 DEF Stations!CliRestart, Stations!Command, Stations!Restarted, Stations!Deleted, OneActs,
        Places, Creating, Deleting, DeletedRests, Recorded, Stations!Backup, Stations!Unlinked
  <2>3. DeletedRests'
    BY ~Overlap, <1>50 DEF Stations!CliRestart, Stations!Command, Stations!Restarted, Stations!Deleted, OneActs,
        Places, DeletedRests, Stations!Unlinked
  <2>4. Recorded'
    BY ~Overlap, <1>50 DEF Stations!CliRestart, Stations!Command, Stations!Restarted, Stations!Deleted, OneActs,
        Places, Creating, Deleting, Recorded, Stations!Busy
  <2> QED
    BY <2>1, <2>2, <2>3, <2>4
<1>51. CASE \E disable \in BOOLEAN : Stations!CliStop(disable)
  <2>1. StationTyped'
    BY ~Overlap, <1>51 DEF Stations!CliStop, Stations!Command, Stations!Deleted, UnitType
  <2>2. OneActs' /\ Places'
    BY ~Overlap, <1>51 DEF Stations!CliStop, Stations!Command, Stations!Deleted, OneActs, Places, Creating,
        Deleting, DeletedRests, Recorded, Stations!Backup, Stations!Unlinked
  <2>3. DeletedRests'
    BY ~Overlap, <1>51 DEF Stations!CliStop, Stations!Command, Stations!Deleted, OneActs, Places, DeletedRests,
        Stations!Unlinked
  <2>4. Recorded'
    BY ~Overlap, <1>51 DEF Stations!CliStop, Stations!Command, Stations!Deleted, OneActs, Places, Creating,
        Deleting, Recorded, Stations!Busy
  <2> QED
    BY <2>1, <2>2, <2>3, <2>4
<1>52. CASE \E disable \in BOOLEAN : Stations!CliStops(disable)
  <2>1. StationTyped'
    <3>1. StationTypes'
      BY <1>52 DEF Stations!CliStops, Stations!Stopped
    <3>2. RowType'
      BY <1>52 DEF Stations!CliStops, Stations!Stopped
    <3>3. StreamType'
      BY <1>52 DEF Stations!CliStops, Stations!Stopped
    <3>4. FilesType' /\ UnitType'
      BY <1>52 DEF Stations!CliStops, Stations!Stopped
    <3> QED
      BY <3>1, <3>2, <3>3, <3>4
  <2>2. OneActs' /\ Places'
    BY ~Overlap, <1>52 DEF Stations!CliStops, Stations!Stopped, OneActs, Places, Creating, Deleting,
        DeletedRests, Recorded, Stations!Backup, Stations!Unlinked
  <2>3. DeletedRests'
    BY ~Overlap, <1>52 DEF Stations!CliStops, Stations!Stopped, OneActs, Places, DeletedRests, Stations!Unlinked
  <2>4. Recorded'
    BY ~Overlap, <1>52 DEF Stations!CliStops, Stations!Stopped, OneActs, Places, Creating, Deleting, Recorded,
        Stations!Busy
  <2> QED
    BY <2>1, <2>2, <2>3, <2>4
<1>53. CASE Stations!CliStopped
  <2>1. StationTyped'
    BY ~Overlap, <1>53 DEF Stations!CliStopped, UnitType
  <2>2. OneActs' /\ Places'
    BY ~Overlap, <1>53 DEF Stations!CliStopped, OneActs, Places, Creating, Deleting, DeletedRests, Recorded,
        Stations!Backup, Stations!Unlinked
  <2>3. DeletedRests'
    BY ~Overlap, <1>53 DEF Stations!CliStopped, OneActs, Places, DeletedRests, Stations!Unlinked
  <2>4. Recorded'
    BY ~Overlap, <1>53 DEF Stations!CliStopped, OneActs, Places, Creating, Deleting, Recorded, Stations!Busy
  <2> QED
    BY <2>1, <2>2, <2>3, <2>4
<1>54. CASE Stations!CliDisabled
  <2>1. StationTyped'
    BY ~Overlap, <1>54 DEF Stations!CliDisabled, Stations!Gone, UnitType
  <2>2. OneActs' /\ Places'
    BY ~Overlap, <1>54 DEF Stations!CliDisabled, Stations!Gone, OneActs, Places, Creating, Deleting,
        DeletedRests, Recorded, Stations!Backup, Stations!Unlinked
  <2>3. DeletedRests'
    BY ~Overlap, <1>54 DEF Stations!CliDisabled, Stations!Gone, OneActs, Places, DeletedRests, Stations!Unlinked
  <2>4. Recorded'
    BY ~Overlap, <1>54 DEF Stations!CliDisabled, Stations!Gone, OneActs, Places, Creating, Deleting, Recorded,
        Stations!Busy
  <2> QED
    BY <2>1, <2>2, <2>3, <2>4
<1>55. CASE Stations!CliEnable
  <2>1. StationTyped'
    BY ~Overlap, <1>55 DEF Stations!CliEnable, Stations!Command, UnitType
  <2>2. OneActs' /\ Places'
    BY ~Overlap, <1>55 DEF Stations!CliEnable, Stations!Command, OneActs, Places, Creating, Deleting,
        DeletedRests, Recorded, Stations!Backup, Stations!Unlinked
  <2>3. DeletedRests'
    BY ~Overlap, <1>55 DEF Stations!CliEnable, Stations!Command, OneActs, Places, DeletedRests,
        Stations!Unlinked
  <2>4. Recorded'
    BY ~Overlap, <1>55 DEF Stations!CliEnable, Stations!Command, OneActs, Places, Creating, Deleting, Recorded,
        Stations!Busy
  <2> QED
    BY <2>1, <2>2, <2>3, <2>4
<1>56. CASE Stations!CliDelete
  <2>1. StationTyped'
    BY ~Overlap, <1>56 DEF Stations!CliDelete, Stations!CliProcess, Stations!Command, Stations!Condemned,
        Stations!Deleted, UnitType
  <2>2. OneActs' /\ Places'
    BY ~Overlap, <1>56 DEF Stations!CliDelete, Stations!CliProcess, Stations!Command, Stations!Condemned,
        Stations!Deleted, OneActs, Places, Creating, Deleting, DeletedRests, Recorded, Stations!Backup,
        Stations!Unlinked
  <2>3. DeletedRests'
    BY ~Overlap, <1>56 DEF Stations!CliDelete, Stations!CliProcess, Stations!Command, Stations!Condemned,
        Stations!Deleted, OneActs, Places, DeletedRests, Stations!Unlinked
  <2>4. Recorded'
    BY ~Overlap, <1>56 DEF Stations!CliDelete, Stations!CliProcess, Stations!Command, Stations!Condemned,
        Stations!Deleted, OneActs, Places, Creating, Deleting, Recorded, Stations!Busy
  <2> QED
    BY <2>1, <2>2, <2>3, <2>4
<1>57. CASE Stations!CliRetry
  <2>1. StationTyped'
    BY ~Overlap, <1>57 DEF Stations!CliRetry, Stations!CliProcess, Stations!Command, Stations!Retried, UnitType
  <2>2. OneActs' /\ Places'
    BY ~Overlap, <1>57 DEF Stations!CliRetry, Stations!CliProcess, Stations!Command, Stations!Retried, OneActs,
        Places, Creating, Deleting, DeletedRests, Recorded, Stations!Backup, Stations!Unlinked
  <2>3. DeletedRests'
    BY ~Overlap, <1>57 DEF Stations!CliRetry, Stations!CliProcess, Stations!Command, Stations!Retried, OneActs,
        Places, DeletedRests, Stations!Unlinked
  <2>4. Recorded'
    BY ~Overlap, <1>57 DEF Stations!CliRetry, Stations!CliProcess, Stations!Command, Stations!Retried, OneActs,
        Places, Creating, Deleting, Recorded, Stations!Busy
  <2> QED
    BY <2>1, <2>2, <2>3, <2>4
<1>58. CASE Stations!CliCreate
  <2>1. StationTyped'
    BY ~Overlap, <1>58 DEF Stations!CliCreate, Stations!CliProcess, Stations!Command, UnitType
  <2>2. OneActs' /\ Places'
    BY ~Overlap, <1>58 DEF Stations!CliCreate, Stations!CliProcess, Stations!Command, OneActs, Places, Creating,
        Deleting, DeletedRests, Recorded, Stations!Backup, Stations!Unlinked
  <2>3. DeletedRests'
    BY ~Overlap, <1>58 DEF Stations!CliCreate, Stations!CliProcess, Stations!Command, OneActs, Places,
        DeletedRests, Stations!Unlinked
  <2>4. Recorded'
    BY ~Overlap, <1>58 DEF Stations!CliCreate, Stations!CliProcess, Stations!Command, OneActs, Places, Creating,
        Deleting, Recorded, Stations!Busy
  <2> QED
    BY <2>1, <2>2, <2>3, <2>4
<1>59. CASE Stations!EngineDies
  <2>1. StationTyped'
    BY ~Overlap, <1>59 DEF Stations!EngineDies, Stations!Restarted, UnitType
  <2>2. OneActs' /\ Places'
    BY ~Overlap, <1>59 DEF Stations!EngineDies, Stations!Restarted, OneActs, Places, Creating, Deleting,
        DeletedRests, Recorded, Stations!Backup, Stations!Unlinked
  <2>3. DeletedRests'
    BY ~Overlap, <1>59 DEF Stations!EngineDies, Stations!Restarted, OneActs, Places, DeletedRests,
        Stations!Unlinked
  <2>4. Recorded'
    BY ~Overlap, <1>59 DEF Stations!EngineDies, Stations!Restarted, OneActs, Places, Creating, Deleting,
        Recorded, Stations!Busy
  <2> QED
    BY <2>1, <2>2, <2>3, <2>4
<1>60. CASE Stations!Reboot
  <2>1. StationTyped'
    BY ~Overlap, <1>60 DEF Stations!Reboot, UnitType
  <2>2. OneActs' /\ Places'
    BY ~Overlap, <1>60 DEF Stations!Reboot, OneActs, Places, Creating, Deleting, DeletedRests, Recorded,
        Stations!Backup, Stations!Unlinked
  <2>3. DeletedRests'
    BY ~Overlap, <1>60 DEF Stations!Reboot, OneActs, Places, DeletedRests, Stations!Unlinked
  <2>4. Recorded'
    BY ~Overlap, <1>60 DEF Stations!Reboot, OneActs, Places, Creating, Deleting, Recorded, Stations!Busy
  <2> QED
    BY <2>1, <2>2, <2>3, <2>4
<1>61. CASE \E p \in Stations!Proc : Stations!Dies(p)
  <2>1. StationTyped'
    BY ~Overlap, <1>61 DEF Stations!Dies, UnitType
  <2>2. OneActs' /\ Places'
    BY ~Overlap, <1>61 DEF Stations!Dies, OneActs, Places, Creating, Deleting, DeletedRests, Recorded,
        Stations!Backup, Stations!Unlinked
  <2>3. DeletedRests'
    BY ~Overlap, <1>61 DEF Stations!Dies, OneActs, Places, DeletedRests, Stations!Unlinked
  <2>4. Recorded'
    BY ~Overlap, <1>61 DEF Stations!Dies, OneActs, Places, Creating, Deleting, Recorded, Stations!Busy
  <2> QED
    BY <2>1, <2>2, <2>3, <2>4
<1> QED
  BY <1>1, <1>2, <1>3, <1>4, <1>5, <1>6, <1>7, <1>8, <1>9, <1>10, <1>11, <1>12, <1>13, <1>14, <1>15, <1>16,
     <1>17, <1>18, <1>19, <1>20, <1>21, <1>22, <1>23, <1>24, <1>25, <1>26, <1>27, <1>28, <1>29, <1>30, <1>31,
     <1>32, <1>33, <1>34, <1>35, <1>36, <1>37, <1>38, <1>39, <1>40, <1>41, <1>42, <1>43, <1>44, <1>45, <1>46,
     <1>47, <1>48, <1>49, <1>50, <1>51, <1>52, <1>53, <1>54, <1>55, <1>56, <1>57, <1>58, <1>59, <1>60, <1>61
  DEF Stations!Next, Stations!Browser, Stations!Timer, Stations!Operator, Stations!Lifecycle

LEMMA StationRests == ASSUME StationInv, UNCHANGED stations PROVE StationInv'
BY DEF stations, StationInv, StationTyped, StationTypes, RowType, StreamType, FilesType, UnitType, OneActs, Places,
       Creating, Deleting, DeletedRests, Recorded, Timer, Cli, Stations!Backup, Stations!Unlinked

(* What a unit that runs was told: from the restart on, or from the answer  *)
(* of the processor, until the settings are those of record.  Nobody else   *)
(* acts on the unit meanwhile, and one that dies starts on the same.        *)
Told ==
  /\ Timer = "hear" /\ unit.on => unit.sound = stream.pending
  /\ Timer = "commit" /\ held["timer"].running /\ unit.on =>
       unit.sound[2] = stream.pending[2] /\ (~Stations!Live(stream.pending) => unit.sound = stream.pending)

LEMMA ToldKept == ASSUME ~Overlap, StationInv, Told, Stations!Next PROVE Told'
<1> USE DEF Stations!stored, Stations!machine, Stations!jobs, Stations!Asks, Stations!Fault, Stations!Quiet, Stations!Keeps,
            Stations!Goes, Stations!Still, Stations!Command
<1>0. /\ stations_pc = [p \in Stations!Proc |-> stations_pc[p]]
      /\ unit = [on |-> unit.on, boot |-> unit.boot, sound |-> unit.sound]
  BY DEF StationInv, StationTyped, StationTypes, UnitType
<1>1. ASSUME Timer' \notin {"hear", "commit"} PROVE Told'
  BY <1>1 DEF Told
<1>2. ASSUME Timer' = Timer, UNCHANGED <<stream, unit>>, held'["timer"] = held["timer"] PROVE Told'
  BY <1>2 DEF Told, Stations!Live
<1>3. CASE Stations!Browser
  <2>1. Timer' = Timer /\ held' = held /\ unit' = unit
    BY <1>3 DEF Stations!Browser, Stations!RequestBroadcast, Stations!QueueListing, Stations!QueueSettings,
                Stations!RequestDelete, Stations!Retry, Timer
  <2>2. CASE \E values \in Stations!Settings : Stations!QueueSettings(values)
    BY <1>1, <2>1, <2>2 DEF Stations!QueueSettings, Stations!Busy, StationInv, Places
  <2>3. CASE UNCHANGED stream
    BY <1>2, <2>1, <2>3
  <2> QED
    BY <1>3, <2>2, <2>3 DEF Stations!Browser, Stations!RequestBroadcast, Stations!QueueListing, Stations!RequestDelete,
                            Stations!Retry
<1>4. CASE Stations!EngineDies
  <2>1. CASE Timer \in {"hear", "commit"}
    <3>1. stations_files.config = stream.pending /\ unit' = Stations!Restarted /\ UNCHANGED <<stations_pc, held, stream>>
      BY <1>4, <2>1 DEF Stations!EngineDies, StationInv, Places
    <3>2. unit'.on => unit'.sound = stream.pending
      BY <1>0, <3>1 DEF Stations!Restarted
    <3> QED
      BY <3>1, <3>2 DEF Told, Timer
  <2>2. CASE Timer \notin {"hear", "commit"}
    BY <1>1, <1>4, <2>2 DEF Stations!EngineDies, Timer
  <2> QED
    BY <2>1, <2>2
<1>5. CASE Stations!Reboot \/ \E p \in Stations!Proc : Stations!Dies(p)
  <2>1. CASE Stations!Reboot
    BY <1>1, <2>1 DEF Stations!Reboot, Timer, Stations!Proc
  <2>2. ASSUME NEW p \in Stations!Proc, Stations!Dies(p) PROVE Told'
    <3>1. CASE p = "timer"
      BY <1>0, <1>1, <2>2, <3>1 DEF Stations!Dies, Timer, Stations!Proc
    <3>2. CASE p = "cli"
      BY <1>0, <1>2, <2>2, <3>2 DEF Stations!Dies, Timer, Stations!Proc, StationInv, StationTyped, StationTypes
    <3> QED
      BY <3>1, <3>2 DEF Stations!Proc
  <2> QED
    BY <1>5, <2>1, <2>2
<1>6. CASE Stations!Operator
  <2>1. Timer' = "idle" \/ Timer' = Timer
    BY <1>0, <1>6 DEF Stations!Operator, Stations!CliStart, Stations!CliRender, Stations!CliStarts, Stations!CliWaits,
         Stations!CliGivesUp, Stations!CliRestart, Stations!CliStop, Stations!CliStops, Stations!CliStopped,
         Stations!CliDisabled, Stations!CliEnable, Stations!CliDelete, Stations!CliRetry, Stations!CliCreate,
         Stations!CliProcess, Stations!Lifecycle, Stations!NoLifecycle, Stations!BeginLifecycle, Stations!Render,
         Stations!RenderFails, Stations!Provisioned, Stations!StopUnit, Stations!StopFails, Stations!Unlink,
         Stations!UnlinkFails, Stations!Delete, Stations!CreateFails, Stations!DeleteFails, Timer, Stations!Proc
  <2>2. Timer = "idle"
    <3>1. Cli # "idle" \/ Timer = "idle"
      BY <1>6 DEF Stations!Operator, Stations!CliStart, Stations!CliRender, Stations!CliStarts, Stations!CliWaits,
           Stations!CliGivesUp, Stations!CliRestart, Stations!CliStop, Stations!CliStops, Stations!CliStopped,
           Stations!CliDisabled, Stations!CliEnable, Stations!CliDelete, Stations!CliRetry, Stations!CliCreate,
           Stations!CliProcess, Stations!Lifecycle, Stations!NoLifecycle, Stations!BeginLifecycle, Stations!Render,
           Stations!RenderFails, Stations!Provisioned, Stations!StopUnit, Stations!StopFails, Stations!Unlink,
           Stations!UnlinkFails, Stations!Delete, Stations!CreateFails, Stations!DeleteFails, Timer, Cli
    <3> QED
      BY <3>1 DEF StationInv, OneActs
  <2> QED
    BY <1>1, <2>1, <2>2
<1>7. CASE Stations!Tell
  <2>1. CASE ~Stations!Live(stream.pending)
    <3>1. /\ Timer' = "hear" /\ unit' = Stations!Restarted /\ stream' = stream
          /\ stations_files.config = stream.pending
      BY <1>0, <1>7, <2>1 DEF Stations!Tell, Timer, Stations!Proc, StationInv, Places
    <3>2. unit'.on => unit'.sound = stream.pending
      BY <1>0, <3>1 DEF Stations!Restarted
    <3> QED
      BY <3>1, <3>2 DEF Told
  <2>2. CASE Stations!Live(stream.pending) /\ unit.on
    <3>1. unit' = Stations!Told(stream.pending) /\ stream' = stream /\ Timer' = "commit"
      BY <1>0, <1>7, <2>2 DEF Stations!Tell, Timer, Stations!Proc
    <3>2. unit'.sound = <<unit.sound[1], stream.pending[2]>>
      BY <1>0, <3>1 DEF Stations!Told
    <3> QED
      BY <2>2, <3>1, <3>2 DEF Told, Stations!Live
  <2>3. CASE Stations!Live(stream.pending) /\ ~unit.on
    BY <1>0, <1>1, <1>7, <2>3 DEF Stations!Tell, Timer, Stations!Proc
  <2> QED
    BY <2>1, <2>2, <2>3
<1>8. CASE Stations!Hear
  <2>1. UNCHANGED <<stream, unit, held>> /\ Timer = "hear" /\ Timer' \in {"commit", "restore"}
    BY <1>0, <1>8 DEF Stations!Hear, Timer, Stations!Proc
  <2> QED
    BY <2>1 DEF Told
<1>9. CASE Stations!Install
  <2>1. /\ UNCHANGED <<stream, unit>> /\ Timer' = (IF stations_row.desired = "running" THEN "tell" ELSE "commit")
        /\ held'["timer"].running = (stations_row.desired = "running")
    BY <1>0, <1>9 DEF Stations!Install, Timer, Stations!Proc, StationInv, StationTyped, StationTypes
  <2> QED
    BY <2>1 DEF Told
<1>10. CASE \/ Stations!Wakes \/ Stations!NoBroadcast \/ Stations!BeginBroadcast \/ Stations!SwitchUnit \/ Stations!SwitchFails
            \/ Stations!Await \/ Stations!Report \/ Stations!Lifecycle("timer")
            \/ Stations!NoAudio \/ Stations!AudioRefused \/ Stations!BeginAudio \/ Stations!InstallFails
            \/ Stations!TellFails \/ Stations!Commit \/ Stations!CommitFails \/ Stations!Finish \/ Stations!Restore
            \/ Stations!RestoreFails \/ Stations!AudioFails \/ Stations!NoListing \/ Stations!BeginListing
            \/ Stations!ApplyListing \/ Stations!ListingFails \/ Stations!Listed \/ Stations!Unlisted
  <2>1. Timer' \notin {"hear", "commit"}
    BY <1>0, <1>10 DEF Stations!Wakes, Stations!NoBroadcast, Stations!BeginBroadcast, Stations!SwitchUnit, Stations!SwitchFails,
         Stations!Await, Stations!Report, Stations!Lifecycle, Stations!NoLifecycle, Stations!BeginLifecycle, Stations!Render,
         Stations!RenderFails, Stations!Provisioned, Stations!StopUnit, Stations!StopFails, Stations!Unlink,
         Stations!UnlinkFails, Stations!Delete, Stations!CreateFails, Stations!DeleteFails, Stations!After,
         Stations!NoAudio, Stations!AudioRefused, Stations!BeginAudio, Stations!InstallFails, Stations!TellFails,
         Stations!Commit, Stations!CommitFails, Stations!Finish, Stations!Restore, Stations!RestoreFails,
         Stations!AudioFails, Stations!NoListing, Stations!BeginListing, Stations!ApplyListing,
         Stations!ListingFails, Stations!Listed, Stations!Unlisted, Timer, Stations!Proc
  <2> QED
    BY <1>1, <2>1
<1> QED
  BY <1>3, <1>4, <1>5, <1>6, <1>7, <1>8, <1>9, <1>10 DEF Stations!Next, Stations!Timer

LEMMA ToldRests == ASSUME Told, UNCHANGED stations PROVE Told'
BY DEF Told, stations, Timer, Stations!Live

(* A deleted station leaves no unit, file or mount behind; settings become  *)
(* those of record only when the unit that runs under ON plays them, and    *)
(* the next start plays them unless a backup waits to be restored: for all  *)
(* numbers of requests and faults, as long as operators' commands and the   *)
(* timer's job take turns (~Overlap), which the code leaves to the operator. *)
THEOREM StationsSafeAlways == ASSUME ~Overlap PROVE Spec => []StationsSafe
<1> DEFINE I == part = "stations" => StationInv /\ Told
<1>1. Init => I
  BY StationBegins DEF Init, Told, Timer, Stations!Init, Stations!Proc
<1>2. I /\ [Next]_vars => I'
  <2> SUFFICES ASSUME I, [Next]_vars, part' = "stations" PROVE (StationInv /\ Told)'
    OBVIOUS
  <2>1. CASE StationsNext
    BY <2>1, StationKept, ToldKept DEF StationsNext
  <2>2. CASE UNCHANGED vars
    BY <2>2, Stuttering, StationRests, ToldRests
  <2>3. CASE ReportNext \/ SwitchNext \/ UpgradesNext \/ MediaNext \/ ProductionNext \/ BulletinNext \/ CentralNext
             \/ LookaheadNext
    BY <2>3 DEF ReportNext, SwitchNext, UpgradesNext, MediaNext, ProductionNext, BulletinNext, CentralNext,
                LookaheadNext
  <2> QED
    BY <2>1, <2>2, <2>3 DEF Next
<1>3. I => StationsSafe
  BY DEF StationsSafe, StationInv, DeletedRests, Recorded, Stations!DeletedLeavesNothing, Stations!Deleted,
         Stations!Unlinked, Stations!None, Stations!ConfiguredAsRecorded, Stations!RecordedWhenHeard, Told, Timer
<1> QED
  BY <1>1, <1>2, <1>3, PTL DEF Spec

----------------------------------------------------------------------------
(* TYPES.  The type of every component, from what its invariant above says  *)
(* and the shape of what is under way: the bounds of its counters, the      *)
(* places of its processes.  "Shapes" is the first state, "Kept" a step.    *)

(* The report: an hour has as many ticks as it is long, so no more can be   *)
(* observed of it; what is on the wire has the shape of what was sent.      *)
ReportBounds == Hour \in Nat \ {0} /\ MaxTime \in Nat \ {0} /\ MaxReportEdits \in Nat /\ MaxReportFaults \in Nat /\ "active" \in Life

LEMMA HourHasItsTicks ==
  ASSUME ReportBounds, NEW W \in SUBSET (1..MaxTime), NEW h \in Report!Period
  PROVE  Cardinality({t \in W : Report!HourOf(t) = h}) <= Hour
<1> DEFINE S == {t \in W : Report!HourOf(t) = h}
           a == Hour * h
<1>1. h \in Nat /\ Hour \in Nat /\ a \in Nat
  BY DEF ReportBounds, Report!Period
<1>2. ASSUME NEW t \in S PROVE t \in (a + 1)..(a + Hour)
  <2>1. t \in Nat /\ t >= 1 /\ t - 1 \in Nat /\ (t - 1) \div Hour = h
    BY DEF Report!HourOf, ReportBounds
  <2>2. Hour * h <= t - 1 /\ t - 1 < Hour * h + Hour
    BY <1>1, <2>1 DEF ReportBounds
  <2> HIDE DEF S
  <2> QED
    BY <1>1, <2>1, <2>2
<1> HIDE DEF S, a
<1>3. IsFiniteSet((a + 1)..(a + Hour)) /\ Cardinality((a + 1)..(a + Hour)) = Hour
  <2>1. a + 1 \in Int /\ a + Hour \in Int /\ (IF a + 1 > a + Hour THEN 0 ELSE (a + Hour) - (a + 1) + 1) = Hour
    BY <1>1 DEF ReportBounds
  <2> QED
    BY <2>1, FS_Interval
<1>4. Cardinality(S) <= Hour
  <2>1. S \subseteq (a + 1)..(a + Hour)
    BY <1>2
  <2> QED
    BY <1>3, <2>1, FS_Subset
<1> QED
  BY <1>4 DEF S

(* What is sent was typed when it was; what follows the sync is known.      *)
ReportShape ==
  /\ report_time \in 1..MaxTime /\ report_channel \in [opt: BOOLEAN, life: Life]
  /\ synced \in Report!Meta /\ last \in [at: Report!Ticks, known: BOOLEAN]
  /\ \A h \in Report!Period : hours[h].until \in Report!Ticks
  /\ api.meta \in Report!Meta /\ api.held \subseteq Report!Metric /\ api.song \in BOOLEAN
  /\ witnessed \subseteq 1..MaxTime
RequestShape ==
  /\ report_pc \in {"idle", "sync", "report", "play", "resample", "sent", "answered", "refused"}
  /\ then \in {"none", "report", "play"} /\ report_reconcile \in BOOLEAN /\ unsure \in BOOLEAN
  /\ wire.kind \in {"none", "sync", "report", "song"} /\ (wire.kind = "sync" => wire.meta \in Report!Meta)
  /\ report_pc = "sync" \/ (report_pc \in {"sent", "answered"} /\ wire.kind = "sync") => then # "none"
  /\ report_edits \in 0..MaxReportEdits /\ failed \in 0..MaxReportFaults

LEMMA ReportShapes == ASSUME ReportBounds, Report!Init PROVE ReportShape /\ RequestShape
<1> USE DEF Report!Init, Report!NoMeta, Report!Meta, ReportBounds
<1>1. ReportShape
  BY DEF ReportShape, Report!Ticks, Report!NoRow
<1>2. RequestShape
  <2>1. wire.kind = "none" /\ report_pc = "idle" /\ then = "none" /\ report_reconcile = FALSE /\ unsure = FALSE
        /\ report_edits = 0 /\ failed = 0
    BY DEF Report!Nothing
  <2>2. 0 \in 0..MaxReportEdits /\ 0 \in 0..MaxReportFaults
    OBVIOUS
  <2> HIDE DEF Report!Init, Report!NoMeta, Report!Meta, ReportBounds
  <2> QED
    BY <2>1, <2>2 DEF RequestShape
<1> QED
  BY <1>1, <1>2

LEMMA ObservedInHour ==
  ASSUME ReportBounds, ReportInv, ReportShape, NEW h \in Report!Period
  PROVE  hours[h].observed \in 0..Hour
<1> DEFINE S == {t \in witnessed : Report!HourOf(t) = h}
<1>1. hours[h].observed \in Nat /\ hours[h].observed <= Cardinality(S)
  BY ReportInvAgrees, SameSize DEF Report!OnlyWitnessed, ReportInv, ReportTyped, HourRow
<1>2. Cardinality(S) <= Hour /\ IsFiniteSet(S)
  <2>1. witnessed \in SUBSET (1..MaxTime) /\ IsFiniteSet(witnessed)
    BY DEF ReportShape, ReportInv, ReportTyped
  <2> QED
    BY <2>1, HourHasItsTicks, FS_Subset
<1> HIDE DEF S
<1>3. Cardinality(S) \in Nat
  BY <1>2, FS_CardinalityType
<1> QED
  BY <1>1, <1>2, <1>3 DEF ReportBounds

LEMMA PayloadTyped == ASSUME ReportBounds, ReportShape PROVE Report!Payload \in Report!Meta
BY DEF ReportShape, Report!Payload, Report!Meta, ReportBounds

LEMMA NoMetaTyped == Report!NoMeta \in Report!Meta
BY DEF Report!NoMeta, Report!Meta

LEMMA SampleShapes ==
  ASSUME ReportBounds, ReportInv, ReportShape, RequestShape, NEW sighted \in BOOLEAN, NEW due \in BOOLEAN, Report!Tick(sighted, due)
  PROVE  ReportShape' /\ RequestShape'
<1>1. /\ UNCHANGED <<report_time, report_channel, synced, api, wire, report_reconcile, unsure, report_edits, failed>>
      /\ report_pc' = (IF due THEN "sync" ELSE "idle") /\ then' = (IF due THEN "report" ELSE "none")
      /\ Report!Sample(sighted)
  BY DEF Report!Tick, Report!bounds
<1>2. report_time \in 1..MaxTime /\ last \in [at: Report!Ticks, known: BOOLEAN] /\ report_time \in Nat
  BY DEF ReportShape
<1>3. last' \in [at: Report!Ticks, known: BOOLEAN]
  <2>1. report_time \in Report!Ticks /\ Report!Later(report_time, last.at) \in Report!Ticks
    BY <1>2 DEF Report!Later, Report!Ticks
  <2> HIDE DEF Report!Ticks
  <2>2. [last EXCEPT !.known = FALSE] \in [at: Report!Ticks, known: BOOLEAN]
        /\ [at |-> Report!Later(report_time, last.at), known |-> FALSE] \in [at: Report!Ticks, known: BOOLEAN]
        /\ [at |-> report_time, known |-> sighted] \in [at: Report!Ticks, known: BOOLEAN]
    BY <1>2, <2>1
  <2> QED
    BY <1>1, <1>2, <2>2, Zenon DEF Report!Sample
<1>4. witnessed' \subseteq 1..MaxTime
  <2>1. witnessed' \in {witnessed, witnessed \cup (last.at + 1..report_time)} /\ witnessed \subseteq 1..MaxTime
    BY <1>1 DEF Report!Sample, ReportShape
  <2>2. last.at + 1..report_time \subseteq 1..MaxTime
    BY <1>2 DEF Report!Ticks, ReportBounds
  <2> QED
    BY <2>1, <2>2
<1>5. ASSUME NEW h \in Report!Period PROVE hours'[h].until \in Report!Ticks
  <2>1. hours' = hours \/ hours'[h] = Report!Counted(h, sighted)
    BY <1>1 DEF Report!Sample
  <2>2. CASE hours'[h] = Report!Counted(h, sighted)
    <3> DEFINE ticks == {t \in Report!Interval(sighted) : Report!HourOf(t) = h /\ t > hours[h].until}
               upto == IF ticks = {} THEN hours[h].until ELSE CHOOSE t \in ticks : \A u \in ticks : u <= t
               high == hours[h].peak \/ ticks # {} \/ (h = report_time \div Hour /\ sighted)
               line == [hours[h] EXCEPT !.there = TRUE, !.observed = @ + Report!Cardinality(ticks),
                                       !.until = upto, !.peak = high]
    <3>1. Report!Counted(h, sighted) \in {line, hours[h]}
      BY Zenon DEF Report!Counted
    <3>2. hours[h] \in HourRow /\ hours[h].until \in Report!Ticks
      BY DEF ReportInv, ReportTyped, ReportShape
    <3>3. upto \in Report!Ticks
      <4>1. ticks \in SUBSET Report!Ticks /\ \A t \in ticks : t <= report_time
        <5>1. \A t \in last.at + 1..report_time : t \in Report!Ticks /\ t <= report_time
          BY <1>2 DEF Report!Ticks, ReportBounds
        <5>2. Report!Interval(sighted) \subseteq last.at + 1..report_time
          BY DEF Report!Interval
        <5>3. ticks \subseteq last.at + 1..report_time
          BY <5>2
        <5> HIDE DEF ticks
        <5> QED
          BY <5>1, <5>3
      <4>2. CASE ticks = {}
        BY <3>2, <4>2
      <4>3. CASE ticks # {}
        <5> HIDE DEF ticks
        <5>1. ticks \in SUBSET Nat
          BY <4>1 DEF Report!Ticks
        <5>2. \E t \in ticks : \A u \in ticks : u <= t
          BY <1>2, <4>1, <4>3, <5>1, LastTick
        <5> QED
          BY <4>1, <4>3, <5>2
      <4> QED
        BY <4>2, <4>3
    <3> HIDE DEF ticks, upto, high
    <3>4. line.until = upto
      BY <3>2 DEF HourRow
    <3> HIDE DEF line
    <3> QED
      BY <2>2, <3>1, <3>2, <3>3, <3>4
  <2> QED
    BY <2>1, <2>2 DEF ReportShape
<1> QED
  BY <1>1, <1>3, <1>4, <1>5 DEF ReportShape, RequestShape

LEMMA ReportShapesKept ==
  ASSUME ReportBounds, ReportInv, ReportShape, RequestShape, Report!Next
  PROVE  ReportShape' /\ RequestShape'
<1> USE DEF Report!memory, Report!bounds, Report!Goto
<1>1. CASE Report!Clock \/ Report!SetBack \/ Report!DayPasses
  <2>1. report_time' \in 1..MaxTime /\ UNCHANGED <<report_channel, synced, last, hours, api, report_pc, then, wire, unsure, witnessed, report_edits>>
        /\ report_reconcile' \in BOOLEAN /\ failed' \in 0..MaxReportFaults
    <3>1. report_time \in Nat /\ report_time >= 1 /\ report_time <= MaxTime /\ MaxTime \in Nat /\ MaxReportFaults \in Nat
          /\ failed \in Nat /\ failed <= MaxReportFaults /\ report_reconcile \in BOOLEAN
      BY DEF ReportShape, RequestShape, ReportBounds
    <3>2. report_time' = report_time \/ (report_time < MaxTime /\ report_time' = report_time + 1)
          \/ (report_time > 1 /\ report_time' = report_time - 1)
      BY <1>1 DEF Report!Clock, Report!SetBack, Report!DayPasses
    <3>3. failed' = failed \/ (failed < MaxReportFaults /\ failed' = failed + 1)
      BY <1>1 DEF Report!Clock, Report!SetBack, Report!DayPasses
    <3>4. report_time' \in 1..MaxTime
      BY <3>1, <3>2
    <3>5. failed' \in 0..MaxReportFaults
      BY <3>1, <3>3
    <3> QED
      BY <1>1, <3>1, <3>4, <3>5, Zenon DEF Report!Clock, Report!SetBack, Report!DayPasses
  <2> QED
    BY <2>1 DEF ReportShape, RequestShape
<1>2. CASE Report!Edits
  <2>1. UNCHANGED <<report_time, synced, last, hours, api, report_reconcile, report_pc, then, wire, unsure, witnessed, failed>>
        /\ report_edits' \in 0..MaxReportEdits /\ report_channel' \in [opt: BOOLEAN, life: Life]
    BY <1>2 DEF Report!Edits, Report!Edit, RequestShape, ReportBounds
  <2> QED
    BY <2>1 DEF ReportShape, RequestShape
<1>3. CASE Report!Ticking
  BY <1>3, SampleShapes DEF Report!Ticking
<1>4. CASE Report!FastTick \/ Report!SendSync \/ Report!NoSync \/ Report!SendReport \/ Report!ReportAlone \/ Report!Choose \/ Report!Resample
  <2>1. UNCHANGED <<report_time, report_channel, last, hours, api, unsure, witnessed, report_edits, failed>>
        /\ report_reconcile' \in BOOLEAN /\ synced' \in {synced, Report!NoMeta}
    BY <1>4 DEF Report!FastTick, Report!SendSync, Report!NoSync, Report!SendReport, Report!ReportAlone, Report!Choose,
         Report!Resample, Report!Known, RequestShape
  <2>2. ReportShape'
    BY <2>1, NoMetaTyped DEF ReportShape
  <2>3. RequestShape'
    BY <1>4, <2>1, PayloadTyped DEF RequestShape, Report!FastTick, Report!SendSync, Report!NoSync, Report!SendReport,
         Report!ReportAlone, Report!Choose, Report!Resample, Report!Told, Report!Nothing
  <2> QED
    BY <2>2, <2>3
<1>5. CASE Report!SyncAccepted \/ Report!SongAccepted \/ Report!Refused \/ Report!Fails \/ Report!Dies
  <2>1. UNCHANGED <<report_time, report_channel, last, hours, api, witnessed, report_edits, report_reconcile>>
        /\ unsure' \in BOOLEAN /\ synced' \in Report!Meta /\ failed' \in 0..MaxReportFaults
    <3>1. failed' = failed \/ (failed < MaxReportFaults /\ failed' = failed + 1)
      BY <1>5 DEF Report!SyncAccepted, Report!SongAccepted, Report!Refused, Report!Fails, Report!Dies
    <3>2. failed' \in 0..MaxReportFaults
      BY <3>1 DEF RequestShape, ReportBounds
    <3>3. unsure' \in {unsure, FALSE} /\ (synced' \in {synced, Report!NoMeta} \/ (wire.kind = "sync" /\ synced' = wire.meta))
      BY <1>5 DEF Report!SyncAccepted, Report!SongAccepted, Report!Refused, Report!Fails, Report!Dies, Report!Acknowledged
    <3>4. unsure' \in BOOLEAN /\ synced' \in Report!Meta
      BY <3>3, NoMetaTyped DEF RequestShape, ReportShape
    <3> QED
      BY <1>5, <3>2, <3>4 DEF Report!SyncAccepted, Report!SongAccepted, Report!Refused, Report!Fails, Report!Dies
  <2>2. ReportShape'
    BY <2>1 DEF ReportShape
  <2>3. RequestShape'
    BY <1>5, <2>1 DEF RequestShape, Report!SyncAccepted, Report!SongAccepted, Report!Refused, Report!Fails, Report!Dies,
         Report!Nothing
  <2> QED
    BY <2>2, <2>3
<1>6. CASE Report!ReportAccepted
  <2>1. UNCHANGED <<report_time, report_channel, synced, last, api, then, report_reconcile, unsure, witnessed, report_edits, failed>>
        /\ report_pc' = "idle" /\ wire' = Report!Nothing
        /\ hours' = [h \in Report!Period |-> IF \E m \in wire.metrics : m.period = h
                                      THEN [hours[h] EXCEPT !.sent = TRUE] ELSE hours[h]]
    BY <1>6 DEF Report!ReportAccepted
  <2>2. \A h \in Report!Period : [hours[h] EXCEPT !.sent = TRUE].until = hours[h].until
    BY DEF ReportInv, ReportTyped, HourRow
  <2>3. \A h \in Report!Period : hours'[h].until = hours[h].until
    BY <2>1, <2>2
  <2> QED
    BY <2>1, <2>3 DEF ReportShape, RequestShape, Report!Nothing
<1>7. CASE Report!TakesSync \/ Report!TakesSong
  <2>1. UNCHANGED <<report_time, report_channel, synced, last, hours, report_reconcile, then, wire, witnessed, report_edits, failed>>
        /\ report_pc = "sent" /\ report_pc' \in {"answered", "refused"} /\ unsure' \in BOOLEAN
    BY <1>7 DEF Report!TakesSync, Report!TakesSong, Report!Reply, RequestShape
  <2>2. api'.held = api.held /\ api'.meta \in Report!Meta /\ api'.song \in BOOLEAN
    BY <1>7 DEF Report!TakesSync, Report!TakesSong, Report!Meta, RequestShape, ReportShape, ReportInv, ReportTyped
  <2> QED
    BY <2>1, <2>2 DEF ReportShape, RequestShape
<1>8. CASE Report!TakesReport
  <2>1. UNCHANGED <<report_time, report_channel, synced, last, hours, report_reconcile, then, wire, witnessed, report_edits, failed, unsure>>
        /\ report_pc = "sent" /\ wire.kind = "report" /\ report_pc' \in {"answered", "refused"}
        /\ \/ api' = api
           \/ api' = [api EXCEPT !.held = {m \in @ : \A n \in wire.metrics : n.period # m.period} \cup wire.metrics]
    BY <1>8 DEF Report!TakesReport, Report!Reply
  <2>2. wire.metrics \subseteq Report!Metric
    <3> SUFFICES ASSUME NEW m \in wire.metrics PROVE m \in Report!Metric
      OBVIOUS
    <3>1. m.period \in Report!Period /\ m = Report!Wired(m.period)
      BY <2>1 DEF ReportInv, WireIsTrue
    <3>2. PICK h \in Report!Period : h = m.period /\ hours[h].observed \in 0..Hour /\ hours[h].peak \in BOOLEAN
      BY <3>1, ObservedInHour DEF ReportInv, ReportTyped, HourRow
    <3> QED
      BY <3>1, <3>2 DEF Report!Wired, Report!Metric
  <2>3. api'.held \subseteq Report!Metric /\ api'.meta = api.meta /\ api'.song = api.song
    BY <2>1, <2>2 DEF ReportInv, ReportTyped, ReportShape
  <2> QED
    BY <2>1, <2>3 DEF ReportShape, RequestShape
<1> QED
  BY <1>1, <1>2, <1>3, <1>4, <1>5, <1>6, <1>7, <1>8 DEF Report!Next, Report!Reports, Report!Takes

LEMMA ReportTypes == ASSUME ReportBounds, ReportInv, ReportShape, RequestShape PROVE Report!TypeOK
<1>1. \A h \in Report!Period : hours[h] \in HourRow /\ hours[h].observed \in 0..Hour /\ hours[h].until \in Report!Ticks
  BY ObservedInHour DEF ReportInv, ReportTyped, ReportShape
<1>2. \A h \in Report!Period : hours[h] \in [there: BOOLEAN, observed: 0..Hour, until: Report!Ticks, peak: BOOLEAN, sent: BOOLEAN]
  BY <1>1 DEF HourRow
<1>3. hours \in [Report!Period -> [there: BOOLEAN, observed: 0..Hour, until: Report!Ticks, peak: BOOLEAN, sent: BOOLEAN]]
  BY <1>2 DEF ReportInv, ReportTyped
<1>4. witnessed \subseteq Report!Ticks
  BY DEF ReportShape, Report!Ticks, ReportBounds
<1> QED
  BY <1>3, <1>4 DEF Report!TypeOK, ReportShape, RequestShape

(* The identity: the central API registers once for each time it is asked   *)
(* to, so its numbers are below what the administrators asked for.          *)
CentralBounds == MaxAsks \in Nat /\ MaxCentralFaults \in Nat
Intentions == [activation : 0..MaxAsks, due : Central!Due]
CentralRow ==
  /\ reg \in {"unconfigured", "activation_queued", "enrolling", "pending", "retry_registration",
             "registration_uncertain", "enrolled", "credentials_rejected"}
  /\ inst \in 0..Central!Token /\ state \in Intentions
CentralServer ==
  /\ central_file \in [kind : {"none", "attempted", "token", "identity"}, id : 0..Central!Token]
  /\ server \in [registered : 0..MaxAsks, enrolled : BOOLEAN, owner : 0..MaxAsks, beats : BOOLEAN]
  /\ central_check \in [status : {"idle", "queued", "checking", "succeeded", "failed"}, beat : BOOLEAN]
CentralReporter ==
  /\ rep.mem \in Intentions /\ rep.got \in 0..Central!Token
  /\ rep.first \in BOOLEAN /\ rep.manual \in BOOLEAN /\ rep.beat \in BOOLEAN
CentralCounts == asks \in 0..MaxAsks /\ allowed \in 0..asks /\ central_faults \in 0..MaxCentralFaults
CentralShape == CentralRow /\ CentralServer /\ CentralReporter /\ CentralCounts

LEMMA DueLater ==
  ASSUME NEW s \in Intentions, NEW n \in Central!Names, NEW v \in {"due", "later", "backoff", "blocked"}
  PROVE  [s EXCEPT !.due[n] = v] \in Intentions
BY DEF Intentions, Central!Due

LEMMA DueNow == [n \in Central!Names |-> "due"] \in Central!Due
BY DEF Central!Due

LEMMA CentralShapes == ASSUME CentralBounds, Central!Init PROVE CentralShape
<1> USE DEF CentralBounds, Central!Init
<1>1. CentralRow /\ CentralCounts
  BY DueNow DEF CentralRow, CentralCounts, Intentions, Central!Token
<1>2. CentralServer
  BY DEF CentralServer, Central!NoFile, Central!Token
<1>3. CentralReporter
  BY DueNow DEF CentralReporter, Intentions, Central!Token, Central!Down, Central!Asleep
<1> QED
  BY <1>1, <1>2, <1>3 DEF CentralShape

LEMMA CentralCounted == ASSUME CentralBounds, CentralCounts, Central!Next PROVE CentralCounts'
<1>0. asks \in Nat /\ asks <= MaxAsks /\ allowed \in Nat /\ allowed <= asks /\ central_faults \in Nat
      /\ central_faults <= MaxCentralFaults
  BY DEF CentralBounds, CentralCounts
<1>1. CASE asks < MaxAsks /\ asks' = asks + 1 /\ UNCHANGED central_faults /\ allowed' \in {allowed, allowed + 1}
  BY <1>0, <1>1 DEF CentralBounds, CentralCounts
<1>2. CASE Central!Works \/ Central!Breaks
  BY <1>0, <1>2 DEF CentralBounds, CentralCounts, Central!Works, Central!Breaks
<1>3. CASE Central!Configure \/ Central!AcknowledgeRetry \/ Central!QueueActivation \/ Central!RetryConnection
           \/ Central!QueueCheck \/ Central!RecoverCredential
  <2>1. asks < MaxAsks /\ asks' = asks + 1 /\ UNCHANGED central_faults /\ allowed' \in {allowed, allowed + 1}
    BY <1>3 DEF Central!Configure, Central!AcknowledgeRetry, Central!QueueActivation, Central!RetryConnection,
         Central!QueueCheck, Central!RecoverCredential, Central!Asks
  <2> QED
    BY <1>1, <2>1
<1>4. CASE Central!TimePasses \/ Central!Dies \/ Central!Reporter
  <2>1. Central!Works \/ Central!Breaks
    BY <1>4 DEF Central!TimePasses, Central!Dies, Central!Reporter, Central!Starts, Central!Interrupted,
         Central!BeginsCheck, Central!BeginsTick, Central!Probe, Central!Register, Central!Uncertain, Central!Registering,
         Central!Enrolling, Central!Enrolled, Central!WritesCredential, Central!CommitsIdentity, Central!Activate,
         Central!Claims, Central!License, Central!Licensed, Central!Report, Central!Ends
  <2> QED
    BY <1>2, <2>1
<1> QED
  BY <1>3, <1>4 DEF Central!Next

LEMMA CentralShapeKept == ASSUME CentralBounds, CentralInv, CentralInv', CentralShape, Central!Next PROVE CentralShape'
<1>c. CentralCounts'
  BY CentralCounted DEF CentralShape
<1>r. server'.registered \in 0..MaxAsks
  <2> DEFINE n == server'.registered
             m == OnItsWay'
  <2>1. n \in Nat /\ n + m <= allowed' /\ m \in Nat /\ allowed' \in Nat
    BY DEF CentralInv, CentralTypes, NothingUnasked, OnItsWay, Unspent
  <2>2. asks' \in Nat /\ asks' <= MaxAsks /\ allowed' <= asks'
    BY <1>c DEF CentralCounts, CentralBounds
  <2> HIDE DEF m
  <2> QED
    BY <2>1, <2>2 DEF CentralBounds
<1>1. CASE Central!Configure \/ Central!AcknowledgeRetry \/ Central!QueueCheck
  <2>1. UNCHANGED <<inst, state, central_file, server, rep>> /\ reg' \in {reg, "pending", "retry_registration"}
        /\ central_check' \in {central_check, [status |-> "queued", beat |-> FALSE]}
    BY <1>1 DEF Central!Configure, Central!AcknowledgeRetry, Central!QueueCheck, Central!Asks, Central!row
  <2>2. CentralRow' /\ CentralReporter'
    BY <2>1 DEF CentralShape, CentralRow, CentralReporter
  <2>3. CentralServer'
    <3>1. central_check' \in [status : {"idle", "queued", "checking", "succeeded", "failed"}, beat : BOOLEAN]
      <4> DEFINE Checks == [status : {"idle", "queued", "checking", "succeeded", "failed"}, beat : BOOLEAN]
      <4>1. [status |-> "queued", beat |-> FALSE] \in Checks
        OBVIOUS
      <4>2. central_check \in Checks
        BY DEF CentralShape, CentralServer
      <4> HIDE DEF Checks
      <4>3. central_check' \in Checks
        BY <2>1, <4>1, <4>2
      <4> QED
        BY <4>3 DEF Checks
    <3> QED
      BY <2>1, <3>1 DEF CentralShape, CentralServer
  <2> QED
    BY <1>c, <2>2, <2>3 DEF CentralShape
<1>2. CASE Central!QueueActivation
  <2>1. UNCHANGED <<inst, central_check, central_file, server, rep>> /\ reg' \in {reg, "activation_queued"}
        /\ state' = [activation |-> asks', due |-> [state.due EXCEPT !["claim"] = "due"]]
    BY <1>2 DEF Central!QueueActivation, Central!Asks
  <2>2. state' \in Intentions
    <3>1. [state.due EXCEPT !["claim"] = "due"] \in Central!Due
      BY DEF CentralShape, CentralRow, Intentions, Central!Due
    <3> QED
      BY <1>c, <2>1, <3>1 DEF Intentions, CentralCounts
  <2> QED
    BY <1>c, <2>1, <2>2 DEF CentralShape, CentralRow, CentralServer, CentralReporter
<1>3. CASE Central!RetryConnection
  <2>1. UNCHANGED <<inst, central_check, central_file, server, rep>> /\ reg' \in {reg, "enrolled"}
        /\ state' = [state EXCEPT !.due = [n \in Central!Names |-> "due"]]
    BY <1>3 DEF Central!RetryConnection, Central!Asks
  <2>2. state' \in Intentions
    BY <2>1, DueNow DEF CentralShape, CentralRow, Intentions
  <2> QED
    BY <1>c, <2>1, <2>2 DEF CentralShape, CentralRow, CentralServer, CentralReporter
<1>4. CASE Central!RecoverCredential
  <2>1. PICK i \in 1..Central!Token : central_file' = Central!Identity(i) /\ inst' = i
    BY <1>4 DEF Central!RecoverCredential
  <2>2. UNCHANGED <<central_check, server, rep>> /\ reg' = "enrolled"
        /\ state' = [state EXCEPT !.due = [n \in Central!Names |-> "due"]]
    BY <1>4 DEF Central!RecoverCredential
  <2>3. state' \in Intentions
    BY <2>2, DueNow DEF CentralShape, CentralRow, Intentions
  <2>4. i \in 0..Central!Token
    BY DEF CentralBounds, Central!Token
  <2> QED
    BY <1>c, <2>1, <2>2, <2>3, <2>4 DEF CentralShape, CentralRow, CentralServer, CentralReporter, Central!Identity
<1>5. CASE Central!TimePasses \/ Central!Probe
  <2>1. UNCHANGED <<reg, inst, central_file, server, central_check>> /\ (rep' = rep \/ \E pc \in {"register", "end"} : Central!Goes(pc))
    BY <1>5 DEF Central!TimePasses, Central!Probe, Central!Outside
  <2>2. state' \in Intentions
    <3>1. CASE Central!TimePasses
      <4>1. PICK n \in Central!Names : state' = [state EXCEPT !.due[n] = "due"]
        BY <3>1 DEF Central!TimePasses
      <4> QED
        BY <4>1, DueLater DEF CentralShape, CentralRow
    <3>2. CASE Central!Probe
      <4> DEFINE a == [state EXCEPT !.due["report"] = "due"]
                 b == [a EXCEPT !.due["enrollment"] = "due"]
                 c == [b EXCEPT !.due["claim"] = "due"]
      <4>1. state' = state \/ state' = [state EXCEPT !.due["report"] = "due", !.due["enrollment"] = "due", !.due["claim"] = "due"]
        BY <3>2 DEF Central!Probe
      <4>2. state \in Intentions
        BY DEF CentralShape, CentralRow
      <4>3. [state EXCEPT !.due["report"] = "due", !.due["enrollment"] = "due", !.due["claim"] = "due"] \in Intentions
        BY <4>2 DEF Intentions, Central!Due
      <4> QED
        BY <4>1, <4>2, <4>3
    <3> QED
      BY <1>5, <3>1, <3>2
  <2>3. CentralReporter'
    BY <2>1 DEF CentralShape, CentralReporter, Central!Goes, CentralInv, CentralTypes
  <2> QED
    BY <1>c, <2>1, <2>2, <2>3 DEF CentralShape, CentralRow, CentralServer
<1>6. CASE Central!Starts \/ Central!Dies \/ Central!Interrupted \/ Central!BeginsCheck \/ Central!BeginsTick \/ Central!Ends
  <2>1. UNCHANGED <<reg, inst, state, central_file, server>>
    BY <1>6 DEF Central!Starts, Central!Dies, Central!Interrupted, Central!BeginsCheck, Central!BeginsTick, Central!Ends, Central!NoRow,
        Central!row, Central!Outside
  <2>2. central_check' \in [status : {"idle", "queued", "checking", "succeeded", "failed"}, beat : BOOLEAN]
    BY <1>6 DEF Central!Starts, Central!Dies, Central!Interrupted, Central!BeginsCheck, Central!BeginsTick, Central!Ends, CentralShape,
        CentralServer, CentralReporter
  <2>3. CentralReporter'
    <3>1. CASE rep' = rep \/ Central!BeginsCheck \/ Central!BeginsTick
      BY <3>1 DEF Central!BeginsCheck, Central!BeginsTick, Central!Goes, CentralShape, CentralReporter, CentralInv, CentralTypes
    <3>2. CASE rep' # rep /\ ~Central!BeginsCheck /\ ~Central!BeginsTick
      <4>1. /\ rep'.mem = [activation |-> 0, due |-> [n \in Central!Names |-> "due"]] /\ rep'.got = 0
            /\ rep'.first \in {TRUE, FALSE, rep.first} /\ rep'.manual = FALSE /\ rep'.beat = FALSE
        BY <1>6, <3>2 DEF Central!Starts, Central!Dies, Central!Interrupted, Central!Ends, Central!Asleep, Central!Down
      <4>2. 0 \in 0..MaxAsks /\ 0 \in 0..Central!Token
        BY DEF CentralBounds, Central!Token
      <4>3. rep'.mem \in Intentions
        BY <4>1, <4>2, DueNow DEF Intentions
      <4> QED
        BY <4>1, <4>2, <4>3 DEF CentralShape, CentralReporter
    <3> QED
      BY <3>1, <3>2
  <2> QED
    BY <1>c, <2>1, <2>2, <2>3 DEF CentralShape, CentralRow, CentralServer
<1>7. CASE Central!Register \/ Central!Uncertain \/ Central!Enrolling \/ Central!WritesCredential \/ Central!CommitsIdentity
  <2>0. /\ rep'.mem = rep.mem /\ rep'.got = rep.got /\ rep'.first = rep.first /\ rep'.manual = rep.manual
        /\ rep'.beat = rep.beat
    BY <1>7 DEF CentralInv, CentralTypes, Central!Goes, Central!Register, Central!KnowsIdentity, Central!CannotRegister,
       Central!Enroll, Central!Attempt, Central!Marked, Central!Uncertain, Central!Enrolling, Central!WritesCredential,
       Central!CommitsIdentity
  <2>1. UNCHANGED <<state, server, central_check>>
    BY <1>7 DEF Central!Register, Central!KnowsIdentity, Central!CannotRegister, Central!Enroll, Central!Attempt, Central!Enrols, Central!Marked,
       Central!Uncertain, Central!Enrolling, Central!WritesCredential, Central!CommitsIdentity, Central!NoRow, Central!row, Central!Outside
  <2>2. CentralReporter'
    BY <2>0 DEF CentralShape, CentralReporter
  <2>3. reg' \in {reg, "enrolled", "registration_uncertain", "enrolling"} /\ inst' \in {inst, central_file.id, rep.got}
        /\ central_file' \in {central_file, Central!TokenFile, Central!Marker, Central!Identity(rep.got)}
    BY <1>7 DEF Central!Register, Central!KnowsIdentity, Central!CannotRegister, Central!Enroll, Central!Attempt, Central!Enrols, Central!Marked,
       Central!Uncertain, Central!Enrolling, Central!WritesCredential, Central!CommitsIdentity, Central!NoRow, Central!row, Central!Outside
  <2>4. CentralRow'
    BY <2>1, <2>3 DEF CentralShape, CentralRow, CentralServer, CentralReporter
  <2>5. CentralServer'
    BY <2>1, <2>3 DEF CentralShape, CentralServer, CentralReporter, Central!TokenFile, Central!Marker, Central!Identity, CentralBounds, Central!Token
  <2> QED
    BY <1>c, <2>2, <2>4, <2>5 DEF CentralShape
<1>8. CASE Central!Registering
  <2>1. UNCHANGED <<reg, inst, state, central_file, central_check>>
    BY <1>8 DEF Central!Registering, Central!NoRow, Central!row
  <2>2. server' \in [registered : 0..MaxAsks, enrolled : BOOLEAN, owner : 0..MaxAsks, beats : BOOLEAN]
    <3>1. server' = server \/ server' = [server EXCEPT !.registered = server.registered + 1]
      BY <1>8 DEF Central!Registering
    <3>2. server \in [registered : 0..MaxAsks, enrolled : BOOLEAN, owner : 0..MaxAsks, beats : BOOLEAN]
      BY DEF CentralShape, CentralServer
    <3> QED
      BY <1>r, <3>1, <3>2
  <2>3. CentralReporter'
    <3>1. rep' = [rep EXCEPT !.pc = "credential", !.got = server'.registered] \/ rep' = [rep EXCEPT !.pc = "end"]
      BY <1>8 DEF Central!Registering, Central!Goes
    <3>2. server'.registered \in 0..Central!Token
      BY <1>r DEF CentralBounds, Central!Token
    <3> QED
      BY <3>1, <3>2 DEF CentralShape, CentralReporter, CentralInv, CentralTypes
  <2> QED
    BY <1>c, <2>1, <2>2, <2>3 DEF CentralShape, CentralRow, CentralServer
<1>9. CASE Central!Enrolled
  <2>1. UNCHANGED <<inst, central_file, central_check>> /\ reg' \in {reg, "credentials_rejected"}
    BY <1>9 DEF Central!Enrolled
  <2>2. state' = state \/ \E to \in {"backoff", "blocked"} : state' = [state EXCEPT !.due["enrollment"] = to]
    BY <1>9 DEF Central!Enrolled
  <2>3. state' \in Intentions
    BY <2>2, DueLater DEF CentralShape, CentralRow, Central!Names
  <2>4. \E e \in BOOLEAN : server' = [server EXCEPT !.enrolled = e]
    BY <1>9 DEF Central!Enrolled, CentralShape, CentralServer
  <2>5. CentralServer'
    BY <2>1, <2>4 DEF CentralShape, CentralServer
  <2>6. CentralReporter'
    <3>1. rep' = [rep EXCEPT !.pc = "credential", !.got = Central!Token] \/ rep' = [rep EXCEPT !.pc = "end"]
      BY <1>9 DEF Central!Enrolled, Central!Goes
    <3>2. Central!Token \in 0..Central!Token
      BY DEF CentralBounds, Central!Token
    <3> QED
      BY <3>1, <3>2 DEF CentralShape, CentralReporter, CentralInv, CentralTypes
  <2> QED
    BY <1>c, <2>1, <2>3, <2>5, <2>6 DEF CentralShape, CentralRow
<1>10. CASE Central!Activate
  <2>1. UNCHANGED <<reg, inst, state, central_file, server, central_check>>
        /\ (rep' = [rep EXCEPT !.pc = "claim", !.mem = state] \/ rep' = [rep EXCEPT !.pc = "license"])
    BY <1>10 DEF Central!Activate, Central!Reads, Central!Goes, Central!NoRow, Central!row, Central!Outside
  <2>2. CentralReporter'
    BY <2>1 DEF CentralShape, CentralReporter, CentralRow, CentralInv, CentralTypes
  <2> QED
    BY <1>c, <2>1, <2>2 DEF CentralShape, CentralRow, CentralServer
<1>11. CASE Central!Claims
  <2>1. UNCHANGED <<inst, central_file, central_check>> /\ reg' \in {reg, "credentials_rejected"} /\ \E pc \in {"license", "end"} : Central!Goes(pc)
    BY <1>11 DEF Central!Claims
  <2>2. server' = server \/ \E a \in {server.owner, rep.mem.activation} : server' = [server EXCEPT !.owner = a]
    BY <1>11 DEF Central!Claims, Central!Base, CentralInv, CentralTypes
  <2>3. CentralServer'
    BY <2>1, <2>2 DEF CentralShape, CentralServer, CentralReporter, Intentions
  <2>4. CentralReporter'
    BY <2>1 DEF CentralShape, CentralReporter, Central!Goes, CentralInv, CentralTypes
  <2>5. state' \in Intentions
    <3>1. rep.mem \in Intentions /\ 0 \in 0..MaxAsks
      BY DEF CentralShape, CentralReporter, CentralBounds
    <3>2. \/ state' = [activation |-> 0,
                     due |-> [rep.mem.due EXCEPT !["claim"] = "due", !["license"] = "due", !["report"] = "due"]]
          \/ state' = [activation |-> 0, due |-> [rep.mem.due EXCEPT !["claim"] = "blocked"]]
          \/ \E to \in {"backoff", "blocked"} : state' = [rep.mem EXCEPT !.due["claim"] = to]
      BY <1>11 DEF Central!Claims, Central!Base, Central!Answered
    <3>3. [rep.mem.due EXCEPT !["claim"] = "due", !["license"] = "due", !["report"] = "due"] \in Central!Due
          /\ [rep.mem.due EXCEPT !["claim"] = "blocked"] \in Central!Due
      BY <3>1 DEF Intentions, Central!Due
    <3>4. \A to \in {"backoff", "blocked"} : [rep.mem EXCEPT !.due["claim"] = to] \in Intentions
      BY <3>1, DueLater DEF Central!Names
    <3> QED
      BY <3>1, <3>2, <3>3, <3>4 DEF Intentions
  <2> QED
    BY <1>c, <2>1, <2>3, <2>4, <2>5 DEF CentralShape, CentralRow
<1>12. CASE Central!License
  <2> DEFINE now == [state EXCEPT !.due = IF rep.manual \/ rep.first THEN Central!Sooner(@) ELSE @]
  <2>1. UNCHANGED <<reg, inst, central_file, server, central_check>> /\ state' = now
        /\ rep' = [rep EXCEPT !.mem = now, !.first = FALSE,
                   !.pc = IF now.due["license"] = "due" THEN "licensed" ELSE Central!AfterLicense(now)]
    BY <1>12 DEF Central!License, Central!Outside
  <2>2. now \in Intentions
    <3>1. state \in Intentions
      BY DEF CentralShape, CentralRow
    <3>2. Central!Sooner(state.due) \in Central!Due
      BY <3>1 DEF Intentions, Central!Due, Central!Sooner
    <3> QED
      BY <3>1, <3>2 DEF Intentions
  <2> HIDE DEF now
  <2>3. CentralReporter'
    BY <2>1, <2>2 DEF CentralShape, CentralReporter, CentralInv, CentralTypes
  <2> QED
    BY <1>c, <2>1, <2>2, <2>3 DEF CentralShape, CentralRow, CentralServer
<1>13. CASE Central!Licensed \/ Central!Report
  <2>1. UNCHANGED <<inst, central_file, central_check>> /\ reg' \in {reg, "credentials_rejected"}
        /\ (server' = server \/ server' = [server EXCEPT !.beats = TRUE])
    BY <1>13 DEF Central!Licensed, Central!Report, Central!Outside
  <2>2. \E n \in Central!Names, v \in {"due", "later", "backoff", "blocked"}, s \in {state, rep.mem} : state' = [s EXCEPT !.due[n] = v]
    BY <1>13 DEF Central!Licensed, Central!Report, Central!Base, Central!Names
  <2>3. state' \in Intentions
    <3>1. PICK n \in Central!Names, v \in {"due", "later", "backoff", "blocked"}, s \in {state, rep.mem} : state' = [s EXCEPT !.due[n] = v]
      BY <2>2
    <3>2. s \in Intentions
      BY DEF CentralShape, CentralRow, CentralReporter
    <3> QED
      BY <3>1, <3>2, DueLater
  <2>4. /\ rep'.mem \in {rep.mem, state'} /\ rep'.got = rep.got /\ rep'.first = rep.first
        /\ rep'.manual = rep.manual /\ rep'.beat \in {rep.beat, TRUE}
    BY <1>13 DEF CentralInv, CentralTypes, Central!Licensed, Central!Report, Central!Goes, Central!Answers
  <2>5. CentralReporter'
    BY <2>3, <2>4 DEF CentralShape, CentralReporter, CentralInv, CentralTypes
  <2>6. CentralServer'
    BY <2>1 DEF CentralShape, CentralServer
  <2> QED
    BY <1>c, <2>1, <2>3, <2>5, <2>6 DEF CentralShape, CentralRow
<1> QED
  BY <1>1, <1>2, <1>3, <1>4, <1>5, <1>6, <1>7, <1>8, <1>9, <1>10, <1>11, <1>12, <1>13 DEF Central!Next, Central!Reporter

LEMMA CentralTyped == ASSUME CentralBounds, CentralShape PROVE Central!TypeOK
BY DEF CentralBounds, CentralShape, CentralRow, CentralServer, CentralReporter, CentralCounts, Central!TypeOK, Intentions

(* A song and its file. *)
JobStates == Media!Waiting \cup {"none", "accepted", "duplicate", "rejected", "error"}
MediaPlaces == staged \subseteq Upload /\ media_lock \in Upload \cup {"none"} /\ media_job \in [Upload -> JobStates]
MediaMarks ==
  /\ media_song.tries \in 0..3 /\ media_song.cue \in {"none", "found", "operator"}
  /\ (cancel = "open" => media_row) /\ (media_song.deleted => media_song.there)

LEMMA MediaShapes == ASSUME Media!Init PROVE MediaPlaces /\ MediaMarks
BY DEF Media!Init, Media!NoSong, MediaPlaces, MediaMarks, JobStates

LEMMA MediaPlacesKept == ASSUME MediaPlaces, Media!Next PROVE MediaPlaces'
<1> USE DEF MediaPlaces, Media!workspace
<1>1. CASE \/ Media!Browser /\ UNCHANGED Media!workspace
           \/ Media!Plays \/ Media!AutomationDies \/ Media!Automation \/ Media!Broadcast
  BY <1>1 DEF Media!Plays, Media!AutomationDies, Media!Automation, Media!Pick, Media!Commit, Media!HandOff, Media!Clear,
       Media!Acknowledge, Media!Auto, Media!Broadcast, Media!Switch, Media!Follow
<1>2. ASSUME NEW u \in Upload, Media!Stage(u) \/ Media!StageCommits(u) \/ Media!StageFails(u) PROVE MediaPlaces'
  <2>1. media_job' = media_job /\ staged' \subseteq staged \cup {u} /\ media_lock' \in {u, "none"}
    BY <1>2 DEF Media!Stage, Media!StageCommits, Media!StageFails
  <2> QED
    BY <2>1
<1>3. ASSUME NEW u \in Upload,
             \/ Media!DirectUpload(u) \/ Media!Dismiss(u) \/ Media!RetryJob(u) \/ Media!RetryPreparation(u) \/ Media!Save(u)
             \/ Media!Finalize(u)
      PROVE  MediaPlaces'
  <2>1. media_lock' = media_lock /\ staged' \subseteq staged \cup {u}
        /\ (media_job' = media_job \/ media_job' = [media_job EXCEPT ![u] = "pending"])
    BY <1>3 DEF Media!DirectUpload, Media!Dismiss, Media!RetryJob, Media!RetryPreparation, Media!Save, Media!Finalize,
         Media!Edits
  <2>2. "pending" \in JobStates
    BY DEF JobStates, Media!Waiting
  <2> QED
    BY <2>1, <2>2
<1>4. CASE Media!Browser
  <2>1. CASE \/ Media!WeekPasses \/ Media!Disable \/ Media!EnableNow \/ Media!Decommission \/ Media!SaveAudio
             \/ Media!RequestAnalysis \/ (\E kind \in {"verify", "enable"} : Media!QueueCheck(kind)) \/ Media!QueueDelete
             \/ Media!RetryDelete
    <3>1. UNCHANGED <<staged, media_job, media_lock>>
      BY <2>1 DEF Media!WeekPasses, Media!Disable, Media!EnableNow, Media!Decommission, Media!SaveAudio,
           Media!RequestAnalysis, Media!QueueCheck, Media!QueueDelete, Media!RetryDelete, Media!OnSong
    <3> QED
      BY <3>1
  <2> QED
    BY <1>2, <1>3, <1>4, <2>1 DEF Media!Browser
<1>5. ASSUME NEW u \in Upload,
             \/ Media!ClaimIngest(u) \/ Media!Recovered(u) \/ Media!Duplicate(u) \/ Media!IngestCommits(u)
             \/ Media!IngestSettles(u) \/ Media!Tidy(u)
             \/ (\E outcome \in {"rejected", "error"} : Media!IngestFails(u, outcome))
             \/ Media!Prepare(u) \/ Media!Prepared(u) \/ Media!PreparationBreaks(u) \/ Media!PreparationFails(u)
      PROVE  MediaPlaces'
  <2>1. media_lock' = media_lock /\ staged' \subseteq staged
        /\ (media_job' = media_job \/ \E v \in JobStates : media_job' = [media_job EXCEPT ![u] = v])
    BY <1>5 DEF JobStates, Media!Waiting, Media!ClaimIngest, Media!Recovered, Media!Duplicate, Media!IngestCommits,
         Media!IngestSettles, Media!Tidy, Media!IngestFails, Media!Prepare, Media!Prepared, Media!PreparationBreaks,
         Media!PreparationFails, Media!Settles, Media!Draft, Media!Stays
  <2> QED
    BY <2>1
<1>6. CASE Media!Worker
  <2>1. CASE \/ \E requested \in BOOLEAN : Media!Analyse(requested)
             \/ Media!Analysed \/ Media!AnalysisFails \/ Media!ClaimErase \/ Media!ClaimCheck \/ Media!Verified
             \/ (\E state_ \in {"rejected", "error"} : Media!CheckFails(state_)) \/ Media!EraseFiles \/ Media!EraseFails
    <3>1. UNCHANGED <<staged, media_job, media_lock>>
      BY <2>1 DEF Media!Analyse, Media!Analysed, Media!AnalysisFails, Media!ClaimErase, Media!ClaimCheck, Media!Verified,
           Media!CheckFails, Media!Checked, Media!EraseFiles, Media!EraseFails, Media!Stays
    <3> QED
      BY <3>1
  <2>2. CASE Media!Erased
    BY <2>2 DEF Media!Erased
  <2> QED
    BY <1>5, <1>6, <2>1, <2>2 DEF Media!Worker
<1>7. CASE Media!CleanUp \/ Media!CleanUpBreaks
  <2>1. UNCHANGED <<media_job, media_lock>> /\ staged' \subseteq staged
    BY <1>7 DEF Media!CleanUp, Media!CleanUpBreaks
  <2> QED
    BY <2>1
<1>8. CASE Media!Dies
  <2>1. UNCHANGED <<staged, media_lock>> /\ media_job' = [u \in Upload |-> Media!Again(media_job[u])]
    BY <1>8 DEF Media!Dies
  <2> QED
    BY <2>1 DEF Media!Again, JobStates, Media!Waiting
<1> QED
  BY <1>1, <1>4, <1>6, <1>7, <1>8 DEF Media!Next

LEMMA MediaMarksKept == ASSUME MediaInv, MediaMarks, Media!Next PROVE MediaMarks'
<1> USE DEF MediaMarks
<1>1. CASE UNCHANGED <<media_song, cancel, media_row>>
  BY <1>1
<1>2. ASSUME media_song'.there = media_song.there, media_song'.deleted = media_song.deleted,
             media_song'.tries \in {0, media_song.tries} \/ (media_song.tries < 3 /\ media_song'.tries = media_song.tries + 1),
             media_song'.cue \in {media_song.cue, "operator", "found"}, UNCHANGED <<cancel, media_row>>
      PROVE  MediaMarks'
  BY <1>2
<1>3. ASSUME NEW u \in Upload,
             \/ Media!Stage(u) \/ Media!StageCommits(u) \/ Media!StageFails(u) \/ Media!DirectUpload(u) \/ Media!Dismiss(u)
             \/ Media!RetryJob(u) \/ Media!RetryPreparation(u) \/ Media!Save(u) \/ Media!Finalize(u)
             \/ Media!ClaimIngest(u) \/ Media!Recovered(u) \/ Media!Duplicate(u) \/ Media!Tidy(u)
             \/ (\E outcome \in {"rejected", "error"} : Media!IngestFails(u, outcome))
             \/ Media!Prepare(u) \/ Media!Prepared(u) \/ Media!PreparationBreaks(u) \/ Media!PreparationFails(u)
      PROVE  MediaMarks'
  <2>1. UNCHANGED <<media_song, cancel, media_row>>
    BY <1>3 DEF Media!Stage, Media!StageCommits, Media!StageFails, Media!DirectUpload, Media!Dismiss, Media!RetryJob,
         Media!RetryPreparation, Media!Save, Media!Finalize, Media!ClaimIngest, Media!Recovered, Media!Duplicate,
         Media!Tidy, Media!IngestFails, Media!Prepare, Media!Prepared, Media!PreparationBreaks, Media!PreparationFails,
         Media!Edits, Media!Asks, Media!Settles, Media!Draft, Media!catalog, Media!playback
  <2> QED
    BY <1>1, <2>1
<1>4. CASE \/ Media!WeekPasses \/ (\E kind \in {"verify", "enable"} : Media!QueueCheck(kind)) \/ Media!RetryDelete
           \/ Media!Pick \/ Media!HandOff \/ Media!Clear \/ Media!Plays \/ Media!AutomationDies \/ Media!Broadcast
           \/ Media!ClaimErase \/ Media!ClaimCheck \/ (\E state_ \in {"rejected", "error"} : Media!CheckFails(state_))
           \/ Media!EraseFiles \/ Media!EraseFails \/ Media!CleanUp \/ Media!CleanUpBreaks
  <2>1. UNCHANGED <<media_song, cancel, media_row>>
    BY <1>4 DEF Media!WeekPasses, Media!QueueCheck, Media!RetryDelete, Media!Pick, Media!HandOff, Media!Clear, Media!Plays,
         Media!Broadcast, Media!Switch, Media!Follow, Media!AutomationDies, Media!ClaimErase, Media!ClaimCheck, Media!CheckFails, Media!Checked, Media!EraseFiles,
         Media!EraseFails, Media!CleanUp, Media!CleanUpBreaks, Media!Asks, Media!Auto, Media!Stays, Media!catalog,
         Media!playback
  <2> QED
    BY <1>1, <2>1
<1>5. CASE \/ Media!Disable \/ Media!EnableNow \/ Media!Decommission \/ Media!SaveAudio \/ Media!RequestAnalysis
  <2>1. /\ media_song'.there = media_song.there /\ media_song'.deleted = media_song.deleted
        /\ media_song'.tries \in {0, media_song.tries}
        /\ media_song'.cue \in {media_song.cue, "operator", "found"} /\ UNCHANGED <<cancel, media_row>>
    BY <1>5 DEF Media!Disable, Media!EnableNow, Media!Decommission, Media!SaveAudio, Media!RequestAnalysis, Media!OnSong,
         Media!Asks, Media!playback, MediaInv, MediaTypes
  <2> QED
    BY <1>2, <2>1
<1>6. ASSUME NEW requested \in BOOLEAN, Media!Analyse(requested) PROVE MediaMarks'
  <2>1. /\ media_song'.there = media_song.there /\ media_song'.deleted = media_song.deleted
        /\ media_song.tries < 3 /\ media_song'.tries = media_song.tries + 1
        /\ media_song'.cue = media_song.cue /\ UNCHANGED <<cancel, media_row>>
    BY <1>6 DEF Media!Analyse, Media!Due, Media!Attempts, Media!Stays, Media!playback, MediaInv, MediaTypes
  <2> QED
    BY <1>2, <2>1
<1>7. CASE Media!Analysed \/ Media!AnalysisFails \/ Media!Verified \/ Media!Dies
  <2>1. /\ media_song'.there = media_song.there /\ media_song'.deleted = media_song.deleted
        /\ media_song'.tries = media_song.tries
        /\ media_song'.cue \in {media_song.cue, "found"} /\ UNCHANGED <<cancel, media_row>>
    BY <1>7 DEF Media!Analysed, Media!Measured, Media!AnalysisFails, Media!Verified, Media!Checked, Media!Dies,
         Media!Stays, Media!playback, MediaInv, MediaTypes
  <2> QED
    BY <1>2, <2>1
<1>8. ASSUME NEW u \in Upload, Media!IngestSettles(u) PROVE MediaMarks'
  <2>1. /\ media_song'.there = media_song.there /\ media_song'.deleted = media_song.deleted
        /\ media_song'.tries = media_song.tries
        /\ media_song'.cue = media_song.cue /\ UNCHANGED <<cancel, media_row>>
    BY <1>8 DEF Media!IngestSettles, Media!Settles, Media!playback, MediaInv, MediaTypes
  <2> QED
    BY <1>2, <2>1
<1>9. ASSUME NEW u \in Upload, Media!IngestCommits(u) PROVE MediaMarks'
  BY <1>9 DEF Media!IngestCommits, Media!Stays, Media!playback, Media!NoSong
<1>10. CASE Media!QueueDelete
  <2>1. media_song' = [media_song EXCEPT !.on = FALSE, !.auto = FALSE, !.asked = FALSE, !.retired = TRUE, !.deleted = TRUE]
        /\ media_song.there /\ media_row' = media_row /\ cancel' = IF media_row /\ cancel = "none" THEN "open" ELSE cancel
    BY <1>10 DEF Media!QueueDelete, Media!Condemned, Media!Shown
  <2>2. media_song'.there = media_song.there /\ media_song'.tries = media_song.tries /\ media_song'.cue = media_song.cue
    BY <2>1 DEF MediaInv, MediaTypes
  <2> QED
    BY <2>1, <2>2
<1>11. CASE Media!Erased
  <2>1. media_song' = Media!NoSong /\ cancel' = (IF media_song.there THEN "none" ELSE cancel)
    BY <1>11 DEF Media!Erased
  <2>2. cancel' # "open"
    BY <2>1 DEF MediaInv, CancellationStands, Condemned
  <2> QED
    BY <2>1, <2>2 DEF Media!NoSong
<1>12. CASE Media!Commit \/ Media!Acknowledge
  BY <1>12 DEF Media!Commit, Media!Acknowledge, Media!Auto, Media!catalog
<1> QED
  BY <1>3, <1>4, <1>5, <1>6, <1>7, <1>8, <1>9, <1>10, <1>11, <1>12
     DEF Media!Next, Media!Browser, Media!Worker, Media!Automation

LEMMA MediaTyped == ASSUME MediaPlaces, MediaMarks PROVE Media!TypeOK
BY DEF MediaPlaces, MediaMarks, Media!TypeOK, JobStates, Media!Attempts

(* Drafts: what an attempt was ordered with is a credential that there was. *)
ProductionShape ==
  /\ \A d \in ProducerDraft : attempt[d].key <= key
  /\ production_aged \subseteq ProducerDraft /\ production_work.of \in ProducerDraft \cup {"none"}
  /\ ingest.of \in ProducerDraft \cup {"none"}

LEMMA ProductionShapes == ASSUME Production!Init PROVE ProductionShape
BY DEF Production!Init, ProductionShape, Production!NoTry, Production!Resting, Production!Unoccupied

LEMMA ProductionShapeKept == ASSUME ProductionInv, ProductionShape, Production!Next PROVE ProductionShape'
<1> USE DEF Production!rows, Production!Orders, Production!Breaks, Production!Sound, Production!Outside, Production!Ingesting
<1>0. key \in Nat /\ attempt \in [ProducerDraft -> AttemptRow]
      /\ production_work = [pc |-> production_work.pc, of |-> production_work.of, old |-> production_work.old]
  BY DEF ProductionInv, ProductionTypes, AttemptType, WorkType
<1>k. ASSUME \A d \in ProducerDraft : attempt'[d].key = attempt[d].key, key' \in {key, key + 1},
             production_aged' \subseteq ProducerDraft, production_work'.of \in ProducerDraft \cup {"none"},
             ingest'.of \in ProducerDraft \cup {"none"}
      PROVE  ProductionShape'
  BY <1>0, <1>k DEF ProductionShape, AttemptRow
<1>1. CASE Production!Reconcile \/ Production!CleanUpReads \/ Production!CleanUpCommits \/ Production!NoClaim
  <2>1. UNCHANGED <<attempt, key, ingest>>
    BY <1>1 DEF Production!Reconcile, Production!CleanUpReads, Production!CleanUpCommits, Production!NoClaim
  <2>2. production_aged' \subseteq production_aged
    BY <1>1 DEF Production!Reconcile, Production!CleanUpReads, Production!CleanUpCommits, Production!NoClaim
  <2>3. production_work'.of = "none"
    <3>1. CASE Production!Reconcile
      BY <1>0, <3>1 DEF Production!Reconcile, Production!Goes
    <3>2. CASE Production!CleanUpReads
      BY <3>2 DEF Production!CleanUpReads
    <3>3. CASE Production!CleanUpCommits
      BY <3>3 DEF Production!CleanUpCommits, Production!Resting
    <3>4. CASE Production!NoClaim
      BY <3>4 DEF Production!NoClaim, Production!Resting
    <3> QED
      BY <1>1, <3>1, <3>2, <3>3, <3>4
  <2> QED
    BY <1>k, <2>1, <2>2, <2>3 DEF ProductionShape
<1>2. ASSUME NEW d \in ProducerDraft,
             Production!Claim(d) \/ Production!Begins(d) \/ Production!Publish(d) \/ Production!AttemptFails(d)
      PROVE  ProductionShape'
  <2>1. UNCHANGED <<key, ingest>>
    BY <1>2 DEF Production!Claim, Production!Begins, Production!Publish, Production!Complete, Production!AttemptFails
  <2>2. production_aged' \subseteq production_aged
    BY <1>2 DEF Production!Claim, Production!Begins, Production!Publish, Production!Complete, Production!AttemptFails
  <2>4. production_work'.of = d \/ production_work'.of = "none"
    <3>1. CASE Production!Claim(d)
      BY <1>0, <3>1 DEF Production!Claim, Production!Goes
    <3>2. CASE Production!Begins(d)
      BY <1>0, <3>2 DEF Production!Begins, Production!Goes
    <3>3. CASE Production!Publish(d) \/ Production!AttemptFails(d)
      BY <3>3 DEF Production!Publish, Production!Complete, Production!AttemptFails, Production!Resting
    <3> QED
      BY <1>2, <3>1, <3>2, <3>3
  <2>3. \A e \in ProducerDraft : attempt'[e].key = attempt[e].key
    BY <1>0, <1>2 DEF Production!Claim, Production!Begins, Production!Publish, Production!Complete, Production!AttemptFails, AttemptRow
  <2> QED
    BY <1>k, <2>1, <2>2, <2>3, <2>4 DEF ProductionShape
<1>3. CASE Production!Erases \/ (\E outcome \in {"complete", "failed"} : Production!Analyses(outcome))
  <2>1. UNCHANGED <<attempt, key, ingest, production_aged, production_work>>
    BY <1>3 DEF Production!Erases, Production!Analyses
  <2> QED
    BY <1>k, <2>1 DEF ProductionShape
<1>4. ASSUME NEW d \in ProducerDraft,
             \/ Production!IngestClaims(d) \/ Production!IngestCommits(d) \/ Production!IngestReuses(d)
             \/ Production!IngestSettles(d) \/ \E outcome \in {"rejected", "error"} : Production!IngestFails(d, outcome)
      PROVE  ProductionShape'
  <2>1. UNCHANGED <<attempt, key, production_aged, production_work>>
    BY <1>4 DEF Production!IngestClaims, Production!IngestCommits, Production!IngestReuses, Production!IngestSettles,
         Production!IngestFails, Production!Finishes
  <2>2. ingest'.of = d \/ ingest'.of = "none"
    <3>1. CASE Production!IngestClaims(d)
      <4>1. ingest' = [of |-> d, in |-> FALSE]
        BY <3>1, Zenon DEF Production!IngestClaims
      <4> QED
        BY <4>1
    <3>2. CASE Production!IngestCommits(d)
      <4>1. ingest' = [of |-> d, in |-> TRUE]
        BY <3>2, Zenon DEF Production!IngestCommits
      <4> QED
        BY <4>1
    <3>3. CASE \/ Production!IngestReuses(d) \/ Production!IngestSettles(d)
               \/ \E outcome \in {"rejected", "error"} : Production!IngestFails(d, outcome)
      <4>1. ingest' = [of |-> "none", in |-> FALSE]
        BY <3>3, Zenon DEF Production!IngestReuses, Production!IngestSettles, Production!IngestFails, Production!Finishes,
             Production!Unoccupied
      <4> QED
        BY <4>1
    <3> QED
      BY <1>4, <3>1, <3>2, <3>3
  <2> QED
    BY <1>k, <2>1, <2>2 DEF ProductionShape
<1>5. CASE Production!SaveCredential \/ Production!Decommission \/ Production!DeleteSong \/ (\E may \in BOOLEAN : Production!Grant(may))
  <2>1. UNCHANGED <<attempt, production_aged, production_work, ingest>> /\ key' \in {key, key + 1}
    BY <1>5 DEF Production!SaveCredential, Production!Decommission, Production!DeleteSong, Production!Grant, Production!Library
  <2> QED
    BY <1>k, <2>1 DEF ProductionShape
<1>6. ASSUME NEW d \in ProducerDraft, Production!Delete(d) \/ Production!WeekPasses(d) PROVE ProductionShape'
  <2>1. UNCHANGED <<attempt, key, production_work, ingest>> /\ production_aged' \subseteq production_aged \cup {d}
    BY <1>6 DEF Production!Delete, Production!WeekPasses
  <2> QED
    BY <1>k, <2>1 DEF ProductionShape
<1>7. ASSUME NEW d \in ProducerDraft, NEW action \in Production!Action, Production!Enqueue(d, action) PROVE ProductionShape'
  <2>1. UNCHANGED <<key, production_work, ingest>> /\ production_aged' \subseteq production_aged
        /\ attempt' = [attempt EXCEPT ![d] = [status |-> "pending", action |-> action, key |-> key, calls |-> 0]]
    BY <1>7 DEF Production!Enqueue
  <2>2. \A e \in ProducerDraft : attempt'[e].key = attempt[e].key \/ attempt'[e].key = key
    BY <1>0, <2>1
  <2> QED
    BY <1>0, <2>1, <2>2 DEF ProductionShape
<1>8. CASE Production!WorkerDies \/ Production!IngestDies
  <2>1. UNCHANGED <<key, production_aged>> /\ production_work'.of \in {production_work.of, "none"} /\ ingest'.of \in {ingest.of, "none"}
    BY <1>8 DEF Production!WorkerDies, Production!IngestDies, Production!Resting, Production!Unoccupied
  <2>2. \A e \in ProducerDraft : attempt'[e].key = attempt[e].key
    BY <1>0, <1>8 DEF Production!WorkerDies, Production!IngestDies, Production!Interrupted, AttemptRow
  <2> QED
    BY <1>k, <2>1, <2>2 DEF ProductionShape
<1> QED
  BY <1>1, <1>2, <1>3, <1>4, <1>5, <1>6, <1>7, <1>8 DEF Production!Next, Production!Worker, Production!Ingest, Production!Browser

LEMMA ProductionTyped == ASSUME ProductionInv, ProductionShape PROVE Production!TypeOK
<1>1. \A d \in ProducerDraft : attempt[d] \in AttemptRow /\ production_draft[d] \in DraftRow /\ key \in Nat
  BY DEF ProductionInv, ProductionTypes, AttemptType, DraftType
<1>2. \A d \in ProducerDraft : attempt[d].key \in 0..key
  BY <1>1 DEF ProductionShape, AttemptRow
<1> QED
  BY <1>1, <1>2 DEF ProductionShape, Production!TypeOK, DraftRow

(* A station: what waits or is applied is a setting, so is every backup;    *)
(* a unit plays an encoder and a processor, perhaps of two settings.        *)
RowShape     == stations_row.status \in Stations!Busy \cup {"ready", "failed"} /\ stations_row.desired \in {"running", "stopped"}
ListingShape ==
  /\ listing = [status |-> listing.status, pending |-> listing.pending, enabled |-> listing.enabled]
  /\ listing.status \in Stations!Busy \cup {"ready", "failed"}
StreamShape  ==
  /\ stream.status \in Stations!Busy \cup {"ready", "failed"} /\ stream.active \in Stations!Settings
  /\ stream.status \in Stations!Busy => stream.pending \in Stations!Settings
FilesShape   ==
  /\ stations_files.config \in Stations!Settings \cup {<<>>} /\ stations_files.mount \in {"none", "0", "1"}
  /\ \A b \in stations_files.saved : b[2] \in Stations!Settings
UnitShape    == unit.on => unit.sound \in Stations!Sounds
LockShape    == stations_lock \in Stations!Proc \cup {"none"}
StationShape == RowShape /\ ListingShape /\ StreamShape /\ FilesShape /\ UnitShape /\ LockShape

LEMMA StationShapes == ASSUME Stations!Init PROVE StationShape
<1> USE DEF Stations!Init
<1>1. RowShape /\ ListingShape /\ StreamShape
  BY DEF RowShape, ListingShape, StreamShape, Stations!Busy, Stations!Settings
<1>2. FilesShape /\ UnitShape /\ LockShape
  BY DEF FilesShape, UnitShape, LockShape, Stations!None
<1> QED
  BY <1>1, <1>2 DEF StationShape

LEMMA LockKept == ASSUME LockShape, Stations!Next PROVE LockShape'
<1> USE DEF Stations!Asks, Stations!jobs, Stations!Keeps, Stations!Takes, Stations!Releases, Stations!Still, Stations!Command,
            Stations!None, Stations!Proc, LockShape
<1>1. CASE Stations!Browser
  BY <1>1 DEF Stations!Browser, Stations!RequestBroadcast, Stations!QueueListing, Stations!QueueSettings, Stations!RequestDelete, Stations!Retry
<1>2. CASE \/ Stations!BeginBroadcast \/ Stations!Report \/ Stations!SwitchUnit \/ Stations!SwitchFails
           \/ Stations!Tell \/ Stations!TellFails \/ Stations!Install \/ Stations!Finish \/ Stations!RestoreFails
           \/ Stations!ApplyListing \/ Stations!ListingFails \/ Stations!AudioRefused \/ Stations!BeginAudio
           \/ Stations!Commit \/ Stations!AudioFails \/ Stations!BeginListing \/ Stations!Listed \/ Stations!Unlisted
           \/ Stations!Wakes \/ Stations!NoBroadcast \/ Stations!Await \/ Stations!NoAudio \/ Stations!InstallFails
           \/ Stations!Hear \/ Stations!CommitFails \/ Stations!NoListing \/ Stations!Restore
  BY <1>2 DEF Stations!BeginBroadcast, Stations!Report, Stations!SwitchUnit, Stations!SwitchFails, Stations!Tell,
       Stations!TellFails, Stations!Install, Stations!Finish, Stations!RestoreFails,
       Stations!ApplyListing, Stations!ListingFails, Stations!AudioRefused, Stations!BeginAudio,
       Stations!Commit, Stations!AudioFails, Stations!BeginListing, Stations!Listed,
       Stations!Unlisted, Stations!Wakes, Stations!NoBroadcast, Stations!Await, Stations!NoAudio,
       Stations!InstallFails, Stations!Hear, Stations!CommitFails, Stations!NoListing,
       Stations!Restore
<1>3. ASSUME NEW p \in Stations!Proc, Stations!Lifecycle(p) PROVE LockShape'
  BY <1>3 DEF Stations!Lifecycle, Stations!NoLifecycle, Stations!BeginLifecycle, Stations!Render, Stations!RenderFails,
       Stations!Provisioned, Stations!StopUnit, Stations!StopFails, Stations!Unlink,
       Stations!UnlinkFails, Stations!Delete, Stations!CreateFails, Stations!DeleteFails
<1>4. CASE \/ Stations!CliStart \/ Stations!CliWaits \/ Stations!CliStopped \/ Stations!CliDisabled \/ Stations!CliEnable
           \/ Stations!CliDelete \/ Stations!CliRetry \/ Stations!CliCreate \/ Stations!CliStarts \/ Stations!CliGivesUp
           \/ Stations!CliRestart \/ Stations!CliRender
           \/ \E disable \in BOOLEAN : Stations!CliStop(disable) \/ Stations!CliStops(disable)
  BY <1>4 DEF Stations!CliStart, Stations!CliWaits, Stations!CliStopped, Stations!CliDisabled, Stations!CliEnable,
       Stations!CliDelete, Stations!CliRetry, Stations!CliCreate, Stations!CliStarts,
       Stations!CliGivesUp, Stations!CliRestart, Stations!CliRender, Stations!CliProcess,
       Stations!CliStop, Stations!CliStops
<1>5. CASE Stations!EngineDies \/ Stations!Reboot \/ \E p \in Stations!Proc : Stations!Dies(p)
  BY <1>5 DEF Stations!EngineDies, Stations!Reboot, Stations!Dies
<1> QED
  BY <1>1, <1>2, <1>3, <1>4, <1>5 DEF Stations!Next, Stations!Timer, Stations!Operator

(* Each part of the shape is kept by the actions that write it, and these   *)
(* write no other.                                                          *)
LEMMA RowWritten ==
  ASSUME RowType, RowShape,
         \/ \E on \in BOOLEAN : Stations!RequestBroadcast(on)
         \/ Stations!RequestDelete \/ Stations!Retry \/ Stations!BeginBroadcast \/ Stations!Report
         \/ Stations!CliWaits \/ Stations!CliStopped \/ Stations!CliDisabled \/ Stations!CliEnable
         \/ Stations!CliDelete \/ Stations!CliRetry \/ Stations!CliCreate
         \/ \E p \in Stations!Proc : Stations!Provisioned(p) \/ Stations!Delete(p) \/ Stations!CreateFails(p) \/ Stations!DeleteFails(p)
  PROVE  RowShape' /\ UNCHANGED <<stream, listing, stations_files, unit>>
<1> USE DEF Stations!stored, Stations!machine, Stations!Asks, Stations!Fault, Stations!Still, Stations!Command
<1> DEFINE Kept == UNCHANGED <<stream, listing, stations_files, unit>>
<1>0. stations_row = [life |-> stations_row.life, enabled |-> stations_row.enabled, desired |-> stations_row.desired,
                      status |-> stations_row.status, rev |-> stations_row.rev]
  BY DEF RowType
<1>1. ASSUME NEW on \in BOOLEAN, Stations!RequestBroadcast(on) PROVE RowShape' /\ Kept
  BY <1>0, <1>1 DEF Stations!RequestBroadcast, RowShape, Stations!Busy
<1>2. CASE Stations!RequestDelete
  BY <1>0, <1>2 DEF Stations!RequestDelete, Stations!Condemned, RowShape, Stations!Busy
<1>3. CASE Stations!Retry
  BY <1>0, <1>3 DEF Stations!Retry, Stations!Retried, RowShape, Stations!Busy
<1>4. CASE Stations!BeginBroadcast
  BY <1>0, <1>4 DEF Stations!BeginBroadcast, RowShape, Stations!Busy
<1>5. CASE Stations!Report
  BY <1>0, <1>5 DEF Stations!Report, RowShape, Stations!Busy
<1>6. CASE Stations!CliWaits
  BY <1>0, <1>6 DEF Stations!CliWaits, RowShape, Stations!Busy
<1>7. CASE Stations!CliStopped
  BY <1>0, <1>7 DEF Stations!CliStopped, RowShape, Stations!Busy
<1>8. CASE Stations!CliDisabled
  BY <1>0, <1>8 DEF Stations!CliDisabled, RowShape, Stations!Busy
<1>9. CASE Stations!CliEnable
  BY <1>0, <1>9 DEF Stations!CliEnable, RowShape, Stations!Busy
<1>10. CASE Stations!CliDelete
  BY <1>0, <1>10 DEF Stations!CliDelete, Stations!CliProcess, Stations!Condemned, RowShape, Stations!Busy
<1>11. CASE Stations!CliRetry
  BY <1>0, <1>11 DEF Stations!CliRetry, Stations!CliProcess, Stations!Retried, RowShape, Stations!Busy
<1>12. CASE Stations!CliCreate
  BY <1>0, <1>12 DEF Stations!CliCreate, Stations!CliProcess, RowShape, Stations!Busy
<1>13. ASSUME NEW p \in Stations!Proc, Stations!Provisioned(p) PROVE RowShape' /\ Kept
  BY <1>0, <1>13 DEF Stations!Provisioned, RowShape, Stations!Busy
<1>14. ASSUME NEW p \in Stations!Proc, Stations!Delete(p) PROVE RowShape' /\ Kept
  BY <1>0, <1>14 DEF Stations!Delete, RowShape, Stations!Busy
<1>15. ASSUME NEW p \in Stations!Proc, Stations!CreateFails(p) PROVE RowShape' /\ Kept
  BY <1>0, <1>15 DEF Stations!CreateFails, RowShape, Stations!Busy
<1>16. ASSUME NEW p \in Stations!Proc, Stations!DeleteFails(p) PROVE RowShape' /\ Kept
  BY <1>0, <1>16 DEF Stations!DeleteFails, RowShape, Stations!Busy
<1> QED
  BY <1>1, <1>2, <1>3, <1>4, <1>5, <1>6, <1>7, <1>8, <1>9, <1>10, <1>11, <1>12, <1>13, <1>14, <1>15, <1>16

LEMMA ListingWritten ==
  ASSUME ListingShape, Stations!BeginListing \/ Stations!Listed \/ Stations!Unlisted \/ \E on \in BOOLEAN : Stations!QueueListing(on)
  PROVE  ListingShape' /\ UNCHANGED <<stations_row, stream, stations_files, unit>>
<1> USE DEF Stations!stored, Stations!machine, Stations!Asks, Stations!Fault, Stations!Still, Stations!Command
<1>1. CASE Stations!BeginListing
  BY <1>1 DEF Stations!BeginListing, ListingShape, Stations!Busy
<1>2. CASE Stations!Listed
  BY <1>2 DEF Stations!Listed, ListingShape, Stations!Busy
<1>3. CASE Stations!Unlisted
  BY <1>3 DEF Stations!Unlisted, ListingShape, Stations!Busy
<1>4. CASE \E on \in BOOLEAN : Stations!QueueListing(on)
  BY <1>4 DEF Stations!QueueListing, ListingShape, Stations!Busy
<1> QED
  BY <1>1, <1>2, <1>3, <1>4

LEMMA StreamWritten ==
  ASSUME StationInv, StreamShape,
         \/ Stations!AudioRefused \/ Stations!BeginAudio \/ Stations!Commit \/ Stations!AudioFails
         \/ \E values \in Stations!Settings : Stations!QueueSettings(values)
  PROVE  StreamShape' /\ UNCHANGED <<stations_row, listing, stations_files, unit>>
<1> USE DEF Stations!stored, Stations!machine, Stations!Asks, Stations!Fault, Stations!Still, Stations!Command
<1>0. stream = [status |-> stream.status, rev |-> stream.rev, pending |-> stream.pending, active |-> stream.active]
  BY DEF StationInv, StationTyped, StreamType
<1>1. CASE Stations!AudioRefused
  BY <1>0, <1>1 DEF Stations!AudioRefused, StreamShape, Stations!Busy
<1>2. CASE Stations!BeginAudio
  BY <1>0, <1>2 DEF Stations!BeginAudio, StreamShape, Stations!Busy
<1>3. CASE Stations!Commit
  <2>1. stream.status = "applying"
    BY <1>3 DEF StationInv, Places, Timer, Stations!Commit, Stations!Goes
  <2> QED
    BY <1>0, <1>3, <2>1 DEF Stations!Commit, StreamShape, Stations!Busy
<1>4. CASE Stations!AudioFails
  BY <1>0, <1>4 DEF Stations!AudioFails, StreamShape, Stations!Busy
<1>5. ASSUME NEW values \in Stations!Settings, Stations!QueueSettings(values) PROVE StreamShape' /\ UNCHANGED <<stations_row, listing, stations_files, unit>>
  BY <1>0, <1>5 DEF Stations!QueueSettings, StreamShape, Stations!Busy
<1> QED
  BY <1>1, <1>2, <1>3, <1>4, <1>5

LEMMA SavedTyped == ASSUME FilesShape, Stations!Backup # {} PROVE Stations!Saved \in Stations!Settings
<1>1. (CHOOSE b \in Stations!Backup : TRUE) \in Stations!Backup
  BY Zenon
<1>2. (CHOOSE b \in Stations!Backup : TRUE) \in stations_files.saved
  BY <1>1 DEF Stations!Backup
<1> QED
  BY <1>2 DEF FilesShape, Stations!Saved

LEMMA FilesWritten ==
  ASSUME StationInv, StreamShape, FilesShape,
         \/ Stations!Install \/ Stations!Finish \/ Stations!RestoreFails \/ Stations!ApplyListing \/ Stations!ListingFails
         \/ Stations!CliRender
         \/ \E p \in Stations!Proc : Stations!Render(p) \/ Stations!RenderFails(p) \/ Stations!Unlink(p) \/ Stations!UnlinkFails(p)
  PROVE  FilesShape' /\ UNCHANGED <<stations_row, stream, listing, unit>>
<1> USE DEF Stations!stored, Stations!machine, Stations!Asks, Stations!Fault, Stations!Still, Stations!Command
<1> DEFINE Kept == UNCHANGED <<stations_row, stream, listing, unit>>
<1>0. /\ stations_files = [config |-> stations_files.config, saved |-> stations_files.saved,
                           secret |-> stations_files.secret, mount |-> stations_files.mount]
      /\ stream.active \in Stations!Settings
  BY DEF StationInv, StationTyped, FilesType, StreamShape
<1>1. CASE Stations!Install
  <2>1. stream.pending \in Stations!Settings /\ Kept /\ stations_files.config \in Stations!Settings
    BY <1>1 DEF StationInv, Places, Timer, Stations!Install, StreamShape, FilesShape, Stations!Busy
  <2>2. \/ stations_files'.saved = stations_files.saved
        \/ stations_files'.saved = stations_files.saved \cup {<<stream.rev, stations_files.config>>}
    BY <1>0, <1>1 DEF Stations!Install
  <2>3. stations_files'.config = stream.pending /\ stations_files'.mount = stations_files.mount
    BY <1>0, <1>1 DEF Stations!Install
  <2> HIDE DEF Stations!Settings
  <2> QED
    BY <2>1, <2>2, <2>3 DEF FilesShape
<1>2. CASE Stations!Finish
  BY <1>0, <1>2 DEF Stations!Finish, FilesShape
<1>3. CASE Stations!RestoreFails
  <2>1. Stations!Saved \in Stations!Settings
    BY <1>3, SavedTyped DEF Stations!RestoreFails
  <2> QED
    BY <1>0, <1>3, <2>1 DEF Stations!RestoreFails, FilesShape
<1>4. CASE Stations!ApplyListing
  BY <1>0, <1>4 DEF Stations!ApplyListing, Stations!Public, FilesShape
<1>5. CASE Stations!ListingFails
  BY <1>0, <1>5 DEF Stations!ListingFails, Stations!Public, FilesShape
<1>6. CASE Stations!CliRender
  <2>1. held["cli"].settings = stream.active
    BY <1>6 DEF StationInv, Places, Cli, Stations!CliRender, Stations!Goes
  <2> QED
    BY <1>0, <1>6, <2>1 DEF Stations!CliRender, Stations!Rendered, FilesShape
<1>7. ASSUME NEW p \in Stations!Proc, Stations!Render(p) PROVE FilesShape' /\ Kept
  BY <1>0, <1>7 DEF Stations!Render, Stations!Rendered, FilesShape
<1>8. ASSUME NEW p \in Stations!Proc, Stations!RenderFails(p) PROVE FilesShape' /\ Kept
  BY <1>0, <1>8 DEF Stations!RenderFails, Stations!Rendered, FilesShape
<1>9. ASSUME NEW p \in Stations!Proc, Stations!Unlink(p) PROVE FilesShape' /\ Kept
  BY <1>0, <1>9 DEF Stations!Unlink, Stations!Unlinked, Stations!None, FilesShape
<1>10. ASSUME NEW p \in Stations!Proc, Stations!UnlinkFails(p) PROVE FilesShape' /\ Kept
  BY <1>0, <1>10 DEF Stations!UnlinkFails, Stations!Unlinked, Stations!None, FilesShape
<1> QED
  BY <1>1, <1>2, <1>3, <1>4, <1>5, <1>6, <1>7, <1>8, <1>9, <1>10

LEMMA SettingsSound ==
  /\ \A x \in Stations!Settings : x \in Stations!Sounds /\ x[2] \in {1, 2}
  /\ \A x \in Stations!Sounds, n \in {1, 2} : <<x[1], n>> \in Stations!Sounds
<1>1. \A x \in Stations!Settings : x \in Stations!Sounds /\ x[2] \in {1, 2}
  BY DEF Stations!Settings, Stations!Sounds
<1>2. \A x \in Stations!Sounds, n \in {1, 2} : <<x[1], n>> \in Stations!Sounds
  BY DEF Stations!Sounds
<1> QED
  BY <1>1, <1>2

LEMMA UnitWritten ==
  ASSUME StationInv, StreamShape, FilesShape, UnitShape,
         \/ Stations!EngineDies \/ Stations!Reboot \/ Stations!SwitchUnit \/ Stations!SwitchFails \/ Stations!Tell \/ Stations!TellFails
         \/ Stations!CliStarts \/ Stations!CliGivesUp \/ Stations!CliRestart
         \/ \E disable \in BOOLEAN : Stations!CliStops(disable)
         \/ \E p \in Stations!Proc : Stations!StopUnit(p) \/ Stations!StopFails(p)
  PROVE  UnitShape' /\ UNCHANGED <<stations_row, stream, listing, stations_files>>
<1> USE DEF Stations!stored, Stations!machine, Stations!Asks, Stations!Fault, Stations!Still, Stations!Command
<1> DEFINE Kept == UNCHANGED <<stations_row, stream, listing, stations_files>>
<1>0. /\ unit = [on |-> unit.on, boot |-> unit.boot, sound |-> unit.sound] /\ unit.on \in BOOLEAN
      /\ stations_files.config \in Stations!Settings \cup {<<>>}
  BY DEF StationInv, StationTyped, UnitType, FilesShape
<1>r. Stations!Restarted.on => Stations!Restarted.sound \in Stations!Sounds
  BY <1>0, SettingsSound DEF Stations!Restarted
<1>s. Stations!Started.on => Stations!Started.sound \in Stations!Sounds
  BY <1>0, SettingsSound DEF Stations!Started, UnitShape
<1>t. Stations!Stopped.on = FALSE
  BY DEF Stations!Stopped
<1>1. CASE Stations!EngineDies \/ Stations!CliRestart
  BY <1>r, <1>1 DEF Stations!EngineDies, Stations!CliRestart, UnitShape
<1>2. CASE Stations!Reboot
  BY <1>0, <1>2, SettingsSound DEF Stations!Reboot, UnitShape
<1>3. CASE Stations!SwitchUnit \/ Stations!CliStarts
  BY <1>s, <1>t, <1>3 DEF Stations!SwitchUnit, Stations!CliStarts, UnitShape
<1>4. CASE Stations!SwitchFails
  BY <1>0, <1>4 DEF Stations!SwitchFails, UnitShape
<1>5. CASE Stations!Tell
  <2>1. stream.pending \in Stations!Settings
    BY <1>5 DEF StationInv, Places, Timer, Stations!Tell, StreamShape, Stations!Busy
  <2>2. unit' = Stations!Restarted \/ unit' = unit \/ (unit.on /\ unit' = Stations!Told(stream.pending))
    BY <1>5 DEF Stations!Tell
  <2>3. unit.on => Stations!Told(stream.pending).sound \in Stations!Sounds
    <3>1. Stations!Told(stream.pending).sound = <<unit.sound[1], stream.pending[2]>>
      BY <1>0 DEF Stations!Told
    <3> QED
      BY <2>1, <3>1, SettingsSound DEF UnitShape
  <2>4. UnitShape'
    BY <1>0, <1>r, <2>2, <2>3 DEF UnitShape
  <2> QED
    BY <1>5, <2>4 DEF Stations!Tell
<1>6. CASE Stations!TellFails
  BY <1>0, <1>6 DEF Stations!TellFails, UnitShape
<1>7. CASE Stations!CliGivesUp \/ \E disable \in BOOLEAN : Stations!CliStops(disable)
  BY <1>t, <1>7 DEF Stations!CliGivesUp, Stations!CliStops, UnitShape
<1>8. ASSUME NEW p \in Stations!Proc, Stations!StopUnit(p) \/ Stations!StopFails(p) PROVE UnitShape' /\ Kept
  BY <1>0, <1>t, <1>8 DEF Stations!StopUnit, Stations!StopFails, UnitShape
<1> QED
  BY <1>1, <1>2, <1>3, <1>4, <1>5, <1>6, <1>7, <1>8

LEMMA StationShapeKept == ASSUME StationInv, StationShape, Stations!Next PROVE StationShape'
<1> USE DEF StationShape
<1>1. LockShape'
  BY LockKept
<1>2. ASSUME UNCHANGED stations_row PROVE RowShape'
  BY <1>2 DEF RowShape
<1>3. ASSUME UNCHANGED listing PROVE ListingShape'
  BY <1>3 DEF ListingShape
<1>4. ASSUME UNCHANGED stream PROVE StreamShape'
  BY <1>4 DEF StreamShape
<1>5. ASSUME UNCHANGED stations_files PROVE FilesShape'
  BY <1>5 DEF FilesShape
<1>6. ASSUME UNCHANGED unit PROVE UnitShape'
  BY <1>6 DEF UnitShape
<1>7. CASE \/ Stations!Wakes \/ Stations!NoBroadcast \/ Stations!Await \/ Stations!NoAudio \/ Stations!InstallFails
           \/ Stations!Hear \/ Stations!CommitFails \/ Stations!NoListing \/ Stations!CliStart
           \/ (\E disable \in BOOLEAN : Stations!CliStop(disable))
           \/ \E p \in Stations!Proc : Stations!NoLifecycle(p) \/ Stations!BeginLifecycle(p) \/ Stations!Dies(p)
  <2>1. UNCHANGED <<stations_row, stream, listing, stations_files, unit>>
    BY <1>7 DEF Stations!stored, Stations!machine, Stations!Asks, Stations!Fault, Stations!Still, Stations!Command, Stations!Wakes, Stations!NoBroadcast, Stations!Await, Stations!NoAudio, Stations!InstallFails,
       Stations!Hear, Stations!CommitFails, Stations!NoListing, Stations!CliStart, Stations!CliStop,
       Stations!NoLifecycle, Stations!BeginLifecycle, Stations!Dies
  <2> QED
    BY <1>1, <1>2, <1>3, <1>4, <1>5, <1>6, <2>1
<1>8. CASE Stations!Restore
  <2>1. UNCHANGED <<stations_row, stream, listing>>
    BY <1>8 DEF Stations!Restore, Stations!stored
  <2>2. FilesShape' /\ UnitShape'
    <3>0. /\ stations_files = [config |-> stations_files.config, saved |-> stations_files.saved,
                               secret |-> stations_files.secret, mount |-> stations_files.mount]
          /\ unit = [on |-> unit.on, boot |-> unit.boot, sound |-> unit.sound]
      BY DEF StationInv, StationTyped, FilesType, UnitType
    <3>1. CASE Stations!Backup = {}
      BY <1>5, <1>6, <1>8, <3>1 DEF Stations!Restore, Stations!machine
    <3>2. CASE Stations!Backup # {}
      <4>1. Stations!Saved \in Stations!Settings /\ stream.active \in Stations!Settings
        BY <3>2, SavedTyped DEF StreamShape
      <4>2. \/ stations_files' = Stations!Restored
            \/ stations_files' = [stations_files EXCEPT !.config = Stations!Saved]
        BY <1>8, <3>2 DEF Stations!Restore
      <4>3. FilesShape'
        BY <3>0, <4>1, <4>2 DEF FilesShape, Stations!Restored
      <4>4. \/ unit' = unit \/ (unit.on /\ unit' = Stations!Told(stream.active))
            \/ unit' = [unit EXCEPT !.on = TRUE, !.sound = Stations!Saved]
        BY <1>8, <3>2 DEF Stations!Restore
      <4>5. unit.on => Stations!Told(stream.active).sound \in Stations!Sounds
        <5>1. Stations!Told(stream.active).sound = <<unit.sound[1], stream.active[2]>>
          BY <3>0 DEF Stations!Told
        <5> QED
          BY <4>1, <5>1, SettingsSound DEF UnitShape
      <4>6. UnitShape'
        BY <3>0, <4>1, <4>4, <4>5, SettingsSound DEF UnitShape
      <4> QED
        BY <4>3, <4>6
    <3> QED
      BY <3>1, <3>2
  <2> QED
    BY <1>1, <1>2, <1>3, <1>4, <2>1, <2>2
<1>9. ASSUME RowShape', UNCHANGED <<stream, listing, stations_files, unit>> PROVE StationShape'
  BY <1>1, <1>3, <1>4, <1>5, <1>6, <1>9
<1>10. ASSUME ListingShape', UNCHANGED <<stations_row, stream, stations_files, unit>> PROVE StationShape'
  BY <1>1, <1>2, <1>4, <1>5, <1>6, <1>10
<1>11. ASSUME StreamShape', UNCHANGED <<stations_row, listing, stations_files, unit>> PROVE StationShape'
  BY <1>1, <1>2, <1>3, <1>5, <1>6, <1>11
<1>12. ASSUME FilesShape', UNCHANGED <<stations_row, stream, listing, unit>> PROVE StationShape'
  BY <1>1, <1>2, <1>3, <1>4, <1>6, <1>12
<1>13. ASSUME UnitShape', UNCHANGED <<stations_row, stream, listing, stations_files>> PROVE StationShape'
  BY <1>1, <1>2, <1>3, <1>4, <1>5, <1>13
<1>14. CASE Stations!Browser
  BY <1>9, <1>10, <1>11, <1>14, RowWritten, ListingWritten, StreamWritten DEF Stations!Browser, StationInv, StationTyped
<1>15. ASSUME NEW p \in Stations!Proc, Stations!Lifecycle(p) PROVE StationShape'
  BY <1>7, <1>9, <1>12, <1>13, <1>15, RowWritten, FilesWritten, UnitWritten DEF Stations!Lifecycle, StationInv, StationTyped
<1>16. CASE Stations!Timer
  BY <1>7, <1>8, <1>9, <1>10, <1>11, <1>12, <1>13, <1>15, <1>16, RowWritten, ListingWritten, StreamWritten, FilesWritten, UnitWritten
     DEF Stations!Timer, StationInv, StationTyped, Stations!Proc
<1>17. CASE Stations!Operator
  BY <1>7, <1>9, <1>12, <1>13, <1>15, <1>17, RowWritten, FilesWritten, UnitWritten
     DEF Stations!Operator, StationInv, StationTyped, Stations!Proc
<1>18. CASE Stations!EngineDies \/ Stations!Reboot \/ \E p \in Stations!Proc : Stations!Dies(p)
  BY <1>7, <1>13, <1>18, UnitWritten
<1> QED
  BY <1>14, <1>16, <1>17, <1>18 DEF Stations!Next

LEMMA StationTypesOK == ASSUME StationInv, StationShape PROVE Stations!TypeOK
BY DEF StationInv, StationTyped, RowType, StationShape, RowShape, ListingShape, StreamShape, FilesShape, UnitShape, LockShape,
       Stations!TypeOK, Stations!Gone, Stations!None
=============================================================================

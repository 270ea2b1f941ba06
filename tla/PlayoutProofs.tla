--------------------------- MODULE PlayoutProofs ---------------------------
(***************************************************************************)
(* Theorems about Playout, for every set of decisions, every page and      *)
(* queue size and every number and kind of faults.                         *)
(***************************************************************************)
EXTENDS Playout, TLAPS, SequenceTheorems, FiniteSetTheorems

USE KindAssumption, BoundAssumption DEF FaultKinds

(* The decision a push is about, and the room the refill loop still has.   *)
CurPending ==
  pc \in {"push", "ack"} =>
    /\ cur \in Decisions /\ status[cur] \in {"selected", "submitting"}
    /\ phase = "refill" => room > 0

(* Each loop runs in its own phase. *)
PhaseOK ==
  /\ pc \in {"stock", "resolve", "manual"} => phase = "manual"
  /\ pc = "fill" => phase = "refill"

(* Only lines of a log are ever applied, and only decisions the engine     *)
(* rendered are in a log.                                                  *)
LinesAired == Elements(log) \subseteq told /\ Elements(batch) \subseteq told

IInv == TypeOK /\ PhaseOK /\ CurPending /\ LinesAired /\ StartedWasAired

----------------------------------------------------------------------------
LEMMA ElementsOfTail ==
  ASSUME NEW S, NEW s \in Seq(S), s # <<>>
  PROVE  /\ Head(s) \in S /\ Head(s) \in Elements(s)
         /\ Tail(s) \in Seq(S) /\ Elements(Tail(s)) \subseteq Elements(s)
<1>1. Head(s) \in S /\ Tail(s) \in Seq(S)
  BY HeadTailProperties
<1>2. Len(s) \in Nat /\ Len(s) >= 1 /\ Head(s) = s[1] /\ DOMAIN s = 1 .. Len(s)
  OBVIOUS
<1>3. Len(Tail(s)) = Len(s) - 1 /\ \A i \in 1 .. Len(Tail(s)) : Tail(s)[i] = s[i + 1]
  BY HeadTailProperties
<1>4. DOMAIN Tail(s) = 1 .. (Len(s) - 1)
  BY <1>1, <1>3
<1> QED
  BY <1>1, <1>2, <1>3, <1>4 DEF Elements

LEMMA ElementsOfAppend ==
  ASSUME NEW S, NEW s \in Seq(S), NEW e \in S
  PROVE  Append(s, e) \in Seq(S) /\ Elements(Append(s, e)) = Elements(s) \cup {e}
<1>1. /\ Append(s, e) \in Seq(S) /\ Len(Append(s, e)) = Len(s) + 1
      /\ \A i \in 1 .. Len(s) : Append(s, e)[i] = s[i]
      /\ Append(s, e)[Len(s) + 1] = e
  BY AppendProperties
<1>2. Len(s) \in Nat /\ DOMAIN s = 1 .. Len(s) /\ DOMAIN Append(s, e) = 1 .. (Len(s) + 1)
  BY <1>1
<1> QED
  BY <1>1, <1>2 DEF Elements

LEMMA ElementsOfSubSeq ==
  ASSUME NEW S, NEW s \in Seq(S), NEW m \in Nat, NEW n \in Nat, m >= 1, n <= Len(s)
  PROVE  SubSeq(s, m, n) \in Seq(S) /\ Elements(SubSeq(s, m, n)) \subseteq Elements(s)
<1>1. \A i \in m .. n : i \in 1 .. Len(s) /\ s[i] \in S
  BY ElementOfSeq
<1>2. /\ SubSeq(s, m, n) \in Seq(S)
      /\ Len(SubSeq(s, m, n)) = IF m <= n THEN n - m + 1 ELSE 0
      /\ \A i \in 1 .. n - m + 1 : SubSeq(s, m, n)[i] = s[m + i - 1]
  BY <1>1, SubSeqProperties
<1>3. DOMAIN SubSeq(s, m, n) = 1 .. Len(SubSeq(s, m, n)) /\ DOMAIN s = 1 .. Len(s)
  BY <1>2
<1>4. ASSUME NEW i \in DOMAIN SubSeq(s, m, n)
      PROVE  SubSeq(s, m, n)[i] \in Elements(s)
  <2>1. i \in 1 .. n - m + 1 /\ m + i - 1 \in DOMAIN s
    BY <1>2, <1>3
  <2> QED
    BY <2>1, <1>2 DEF Elements
<1> QED
  BY <1>2, <1>4 DEF Elements

LEMMA EmptyElements == Elements(<<>>) = {}
  BY DEF Elements

LEMMA ElementsType == ASSUME NEW S, NEW s \in Seq(S) PROVE Elements(s) \subseteq S
  BY ElementOfSeq DEF Elements

LEMMA LiveType == ASSUME EngineOK PROVE /\ LiveOn("program") \subseteq Request
                                        /\ Live \subseteq Request
<1>1. ASSUME NEW b \in Buses PROVE LiveOn(b) \subseteq Request
  <2>1. queue[b] \in Seq(Request) /\ onair[b] \in Request \cup {NoRequest}
    BY DEF EngineOK
  <2> QED
    BY <2>1, ElementsType DEF LiveOn
<1> QED
  BY <1>1 DEF Live, Buses

(* What collect() reads is a piece of the log. *)
LEMMA FreshBatch ==
  ASSUME EngineOK, WorkerOK
  PROVE  /\ From \in Nat /\ To \in Nat
         /\ SubSeq(log, From + 1, To) \in Seq(Decisions)
         /\ Elements(SubSeq(log, From + 1, To)) \subseteq Elements(log)
<1>1. log \in Seq(Decisions) /\ Len(log) \in Nat /\ reader.pos \in Nat
  BY DEF EngineOK, WorkerOK
<1>2. From \in Nat /\ To \in Nat /\ To <= Len(log)
  BY <1>1 DEF From, To
<1> QED
  BY <1>1, <1>2, ElementsOfSubSeq

(* An accepted push keeps the engine well formed and counts once. *)
LEMMA AcceptType ==
  ASSUME EngineOK, HistoryOK, NEW d \in Decisions, Accept(d), faults' \in 0..MaxFault
  PROVE  EngineOK' /\ HistoryOK'
<1>1. /\ Bus(d) \in Buses /\ [id |-> nextRid, dec |-> d] \in Request
      /\ queue[Bus(d)] \in Seq(Request)
  BY DEF EngineOK, Bus, Buses, Request
<1>2. Append(queue[Bus(d)], [id |-> nextRid, dec |-> d]) \in Seq(Request)
  BY <1>1, AppendProperties
<1>3. queue' \in [Buses -> Seq(Request)]
  BY <1>1, <1>2 DEF Accept, EngineOK
<1>4. nextRid' \in Nat \ {0} /\ UNCHANGED <<up, epoch, onair, confirmed, log>>
  BY DEF Accept, EngineOK
<1>5. EngineOK'
  BY <1>3, <1>4 DEF EngineOK
<1>6. accepted' \in [Decisions -> Nat] /\ UNCHANGED <<told, dropped>>
  BY DEF Accept, HistoryOK
<1> QED
  BY <1>5, <1>6 DEF HistoryOK

(* Adopting a request found in an inventory yields a request id.           *)
LEMMA RidOfType ==
  ASSUME NEW requests \in SUBSET Request, NEW d \in Decs(requests)
  PROVE  RidOf(d, requests) \in Nat
  BY DEF Decs, RidOf, Request

----------------------------------------------------------------------------
LEMMA InitIInv == Init => IInv
<1> SUFFICES ASSUME Init PROVE IInv
  OBVIOUS
<1>1. DbOK
  BY DEF Init, DbOK, Statuses, Reasons
<1>2. EngineOK
  <2>1. <<>> \in Seq(Request) /\ <<>> \in Seq(Decisions)
    BY EmptySeq
  <2>2. queue \in [Buses -> Seq(Request)] /\ log \in Seq(Decisions)
    BY <2>1 DEF Init
  <2>3. onair \in [Buses -> Request \cup {NoRequest}]
    BY DEF Init
  <2>4. confirmed \in [Buses -> Decisions \cup {NoDecision}]
    BY DEF Init
  <2>5. up = TRUE /\ epoch = 1 /\ nextRid = 1
    BY DEF Init
  <2> QED
    BY <2>2, <2>3, <2>4, <2>5 DEF EngineOK
<1>3. WorkerOK
  BY EmptySeq DEF Init, WorkerOK
<1>4. HistoryOK
  <2>1. MaxFault \in Nat /\ 0 \in 0..MaxFault
    BY BoundAssumption
  <2>2. faults \in 0..MaxFault
    BY <2>1 DEF Init
  <2>3. told \subseteq Decisions /\ dropped \subseteq Decisions
    BY DEF Init
  <2>4. accepted \in [Decisions -> Nat]
    BY DEF Init
  <2> QED
    BY <2>2, <2>3, <2>4 DEF HistoryOK
<1>5. PhaseOK /\ CurPending /\ LinesAired /\ StartedWasAired
  BY EmptyElements DEF Init, PhaseOK, CurPending, LinesAired, StartedWasAired
<1> QED
  BY <1>1, <1>2, <1>3, <1>4, <1>5 DEF IInv, TypeOK

LEMMA NextIInv == IInv /\ [Next]_vars => IInv'
<1> SUFFICES ASSUME IInv, [Next]_vars PROVE IInv'
  OBVIOUS
<1> USE DEF IInv, TypeOK, dbVars, engineVars, memVars, history
<1>1. CASE Collect
  <2>a. /\ batch' \in Seq(Decisions) /\ Elements(batch') \subseteq Elements(log)
        /\ reader' \in [file: Nat, pos: Nat]
    <3>1. CASE log = <<>>
      BY <1>1, <3>1, EmptySeq, EmptyElements DEF Collect
    <3>2. CASE log # <<>>
      <4>1. batch' = SubSeq(log, From + 1, To) /\ reader' = [file |-> epoch, pos |-> To]
        BY <1>1, <3>2 DEF Collect
      <4>2. epoch \in Nat
        BY DEF EngineOK
      <4> QED
        BY <4>1, <4>2, FreshBatch
    <3> QED
      BY <3>1, <3>2
  <2>1. DbOK'
    BY <1>1, <2>a DEF Collect, DbOK, WorkerOK, Statuses, Reasons
  <2>2. EngineOK'
    BY <1>1, <2>a DEF Collect, EngineOK
  <2>3. WorkerOK'
    BY <1>1, <2>a DEF Collect, WorkerOK
  <2>4. HistoryOK'
    BY <1>1, <2>a DEF Collect, HistoryOK
  <2>5. PhaseOK'
    BY <1>1, <2>a DEF Collect, PhaseOK
  <2>6. CurPending'
    BY <1>1, <2>a DEF Collect, CurPending, DbOK, PhaseOK
  <2>7. LinesAired'
    BY <1>1, <2>a, EmptyElements DEF Collect, LinesAired
  <2>8. StartedWasAired'
    BY <1>1, <2>a DEF Collect, StartedWasAired, DbOK
  <2> QED
    BY <2>1, <2>2, <2>3, <2>4, <2>5, <2>6, <2>7, <2>8
<1>2. CASE Record
  <2>a. /\ Head(batch) \in Decisions /\ Head(batch) \in told /\ Tail(batch) \in Seq(Decisions)
        /\ Elements(Tail(batch)) \subseteq Elements(batch)
    BY <1>2, ElementsOfTail DEF Record, WorkerOK, LinesAired
  <2>b. batch' \in {<<>>, Tail(batch)} /\ <<>> \in Seq(Decisions)
    BY <1>2, EmptySeq DEF Record, AbortTick
  <2>1. DbOK'
    <3>1. CASE sock' = [sock EXCEPT ![Head(batch)] = epoch] \/ sock' = sock
      <4>1. sock' \in [Decisions -> Nat] /\ UNCHANGED rid
        <5>1. sock \in [Decisions -> Nat] /\ epoch \in Nat
          BY DEF DbOK, EngineOK
        <5> QED
          BY <1>2, <3>1, <5>1, <2>a DEF Record
      <4>2. status' \in [Decisions -> Statuses] /\ reason' \in [Decisions -> Reasons]
        BY <1>2, <2>a DEF Record, Started, DbOK, Statuses, Reasons
      <4> QED
        BY <4>1, <4>2 DEF DbOK
    <3> QED
      BY <1>2, <3>1 DEF Record
  <2>2. EngineOK'
    BY <1>2, <2>a, <2>b DEF Record, AbortTick, Started, EngineOK
  <2>3. WorkerOK'
    <3>1. CASE AbortTick /\ UNCHANGED <<reader, missing>>
      BY <3>1, <2>b DEF AbortTick, WorkerOK
    <3>2. CASE batch' = Tail(batch) /\ UNCHANGED <<phase, pc, cur, got, reader, seen, ident, complete,
                                                  missing, room>>
      BY <3>2, <2>a DEF WorkerOK
    <3> QED
      BY <1>2, <3>1, <3>2 DEF Record
  <2>4. HistoryOK'
    BY <1>2, <2>a, <2>b DEF Record, AbortTick, Started, HistoryOK
  <2>5. PhaseOK'
    BY <1>2, <2>a, <2>b DEF Record, AbortTick, Started, PhaseOK
  <2>6. CurPending'
    BY <1>2, <2>a, <2>b DEF Record, AbortTick, Started, CurPending, DbOK, PhaseOK
  <2>7. LinesAired'
    BY <1>2, <2>a, <2>b, EmptyElements DEF Record, AbortTick, Started, LinesAired
  <2>8. StartedWasAired'
    BY <1>2, <2>a, <2>b DEF Record, AbortTick, Started, StartedWasAired, DbOK
  <2> QED
    BY <2>1, <2>2, <2>3, <2>4, <2>5, <2>6, <2>7, <2>8
<1>3. CASE Recorded
  <2>1. DbOK'
    BY <1>3 DEF Recorded, DbOK, WorkerOK, Statuses, Reasons
  <2>2. EngineOK'
    BY <1>3 DEF Recorded, EngineOK
  <2>3. WorkerOK'
    BY <1>3 DEF Recorded, WorkerOK
  <2>4. HistoryOK'
    BY <1>3 DEF Recorded, HistoryOK
  <2>5. PhaseOK'
    BY <1>3 DEF Recorded, PhaseOK
  <2>6. CurPending'
    BY <1>3 DEF Recorded, CurPending, DbOK, PhaseOK
  <2>7. LinesAired'
    BY <1>3, EmptyElements DEF Recorded, LinesAired
  <2>8. StartedWasAired'
    BY <1>3 DEF Recorded, StartedWasAired, DbOK
  <2> QED
    BY <2>1, <2>2, <2>3, <2>4, <2>5, <2>6, <2>7, <2>8
<1>4. CASE Inventory
  <2>a. Live \subseteq Request /\ LiveOn("program") \subseteq Request
    BY LiveType
  <2>1. DbOK'
    BY <1>4, <2>a DEF Inventory, ReadEngine, DbOK, WorkerOK, Statuses, Reasons
  <2>2. EngineOK'
    BY <1>4, <2>a DEF Inventory, ReadEngine, EngineOK
  <2>3. WorkerOK'
    BY <1>4, <2>a DEF Inventory, ReadEngine, WorkerOK, EngineOK
  <2>4. HistoryOK'
    BY <1>4, <2>a DEF Inventory, ReadEngine, HistoryOK, Fault
  <2>5. PhaseOK'
    BY <1>4, <2>a DEF Inventory, ReadEngine, PhaseOK
  <2>6. CurPending'
    BY <1>4, <2>a DEF Inventory, ReadEngine, CurPending, DbOK, PhaseOK
  <2>7. LinesAired'
    BY <1>4, <2>a, EmptyElements DEF Inventory, ReadEngine, LinesAired
  <2>8. StartedWasAired'
    BY <1>4, <2>a DEF Inventory, ReadEngine, StartedWasAired, DbOK
  <2> QED
    BY <2>1, <2>2, <2>3, <2>4, <2>5, <2>6, <2>7, <2>8
<1>5. CASE TakeStock
  <2>a. Live \subseteq Request /\ LiveOn("program") \subseteq Request
    BY LiveType
  <2>1. DbOK'
    BY <1>5, <2>a DEF TakeStock, ReadEngine, DbOK, WorkerOK, Statuses, Reasons
  <2>2. EngineOK'
    BY <1>5, <2>a DEF TakeStock, ReadEngine, EngineOK
  <2>3. WorkerOK'
    BY <1>5, <2>a DEF TakeStock, ReadEngine, WorkerOK, EngineOK
  <2>4. HistoryOK'
    BY <1>5, <2>a DEF TakeStock, ReadEngine, HistoryOK, Fault
  <2>5. PhaseOK'
    BY <1>5, <2>a DEF TakeStock, ReadEngine, PhaseOK
  <2>6. CurPending'
    BY <1>5, <2>a DEF TakeStock, ReadEngine, CurPending, DbOK, PhaseOK
  <2>7. LinesAired'
    BY <1>5, <2>a, EmptyElements DEF TakeStock, ReadEngine, LinesAired
  <2>8. StartedWasAired'
    BY <1>5, <2>a DEF TakeStock, ReadEngine, StartedWasAired, DbOK
  <2> QED
    BY <2>1, <2>2, <2>3, <2>4, <2>5, <2>6, <2>7, <2>8
<1>6. CASE Unavailable
  <2>1. DbOK'
    BY <1>6, EmptySeq DEF Unavailable, AbortTick, DbOK, WorkerOK, Statuses, Reasons
  <2>2. EngineOK'
    BY <1>6, EmptySeq DEF Unavailable, AbortTick, EngineOK
  <2>3. WorkerOK'
    BY <1>6, EmptySeq DEF Unavailable, AbortTick, WorkerOK
  <2>4. HistoryOK'
    BY <1>6, EmptySeq DEF Unavailable, AbortTick, HistoryOK
  <2>5. PhaseOK'
    BY <1>6, EmptySeq DEF Unavailable, AbortTick, PhaseOK
  <2>6. CurPending'
    BY <1>6, EmptySeq DEF Unavailable, AbortTick, CurPending, DbOK, PhaseOK
  <2>7. LinesAired'
    BY <1>6, EmptyElements, EmptySeq DEF Unavailable, AbortTick, LinesAired
  <2>8. StartedWasAired'
    BY <1>6, EmptySeq DEF Unavailable, AbortTick, StartedWasAired, DbOK
  <2> QED
    BY <2>1, <2>2, <2>3, <2>4, <2>5, <2>6, <2>7, <2>8
<1>7. CASE Reconcile
  <2>a. \A d \in FoundLeader : RidOf(d, seen) \in Nat
    BY RidOfType DEF FoundLeader, WorkerOK
  <2>b. Len(queue["program"]) \in Nat
    BY DEF EngineOK, Buses
  <2>1. DbOK'
    BY <1>7, <2>a, <2>b DEF Reconcile, Judged, DbOK, WorkerOK, Statuses, Reasons
  <2>2. EngineOK'
    BY <1>7, <2>a, <2>b DEF Reconcile, Judged, EngineOK
  <2>3. WorkerOK'
    <3>1. missing' \in [Decisions -> {"no", "open", "closed"}]
      BY <1>7 DEF Reconcile, Judged, WorkerOK
    <3>2. room' \in Nat
      <4>1. TargetDepth \in Nat
        BY BoundAssumption
      <4>2. room' = IF phase = "refill" /\ Len(queue["program"]) < TargetDepth
                    THEN TargetDepth - Len(queue["program"]) ELSE 0
        BY <1>7, Zenon DEF Reconcile, Judged
      <4> QED
        BY <2>b, <4>1, <4>2
    <3> QED
      BY <1>7, <3>1, <3>2 DEF Reconcile, Judged, WorkerOK
  <2>4. HistoryOK'
    BY <1>7, <2>a, <2>b DEF Reconcile, Judged, HistoryOK
  <2>5. PhaseOK'
    BY <1>7 DEF Reconcile, Judged, PhaseOK, WorkerOK
  <2>6. CurPending'
    BY <1>7, <2>a, <2>b DEF Reconcile, Judged, CurPending, DbOK, PhaseOK
  <2>7. LinesAired'
    BY <1>7, <2>a, <2>b, EmptyElements DEF Reconcile, Judged, LinesAired
  <2>8. StartedWasAired'
    BY <1>7, <2>a, <2>b DEF Reconcile, Judged, StartedWasAired, DbOK
  <2> QED
    BY <2>1, <2>2, <2>3, <2>4, <2>5, <2>6, <2>7, <2>8
<1>8. CASE Resolve
  <2>a. \A d \in Adopted : RidOf(d, seen) \in Nat
    BY RidOfType DEF Adopted, WorkerOK
  <2>1. DbOK'
    BY <1>8, <2>a DEF Resolve, DbOK, WorkerOK, Statuses, Reasons
  <2>2. EngineOK'
    BY <1>8, <2>a DEF Resolve, EngineOK
  <2>3. WorkerOK'
    BY <1>8, <2>a DEF Resolve, WorkerOK
  <2>4. HistoryOK'
    BY <1>8, <2>a DEF Resolve, HistoryOK
  <2>5. PhaseOK'
    BY <1>8, <2>a DEF Resolve, PhaseOK
  <2>6. CurPending'
    BY <1>8, <2>a DEF Resolve, CurPending, DbOK, PhaseOK
  <2>7. LinesAired'
    BY <1>8, <2>a, EmptyElements DEF Resolve, LinesAired
  <2>8. StartedWasAired'
    BY <1>8, <2>a DEF Resolve, StartedWasAired, DbOK
  <2> QED
    BY <2>1, <2>2, <2>3, <2>4, <2>5, <2>6, <2>7, <2>8
<1>9. CASE ManualDone
  <2>1. DbOK'
    BY <1>9 DEF ManualDone, DbOK, WorkerOK, Statuses, Reasons
  <2>2. EngineOK'
    BY <1>9 DEF ManualDone, EngineOK
  <2>3. WorkerOK'
    BY <1>9 DEF ManualDone, WorkerOK
  <2>4. HistoryOK'
    BY <1>9 DEF ManualDone, HistoryOK
  <2>5. PhaseOK'
    BY <1>9 DEF ManualDone, PhaseOK
  <2>6. CurPending'
    BY <1>9 DEF ManualDone, CurPending, DbOK, PhaseOK
  <2>7. LinesAired'
    BY <1>9, EmptyElements DEF ManualDone, LinesAired
  <2>8. StartedWasAired'
    BY <1>9 DEF ManualDone, StartedWasAired, DbOK
  <2> QED
    BY <2>1, <2>2, <2>3, <2>4, <2>5, <2>6, <2>7, <2>8
<1>10. CASE FillDone
  <2>1. DbOK'
    BY <1>10 DEF FillDone, DbOK, WorkerOK, Statuses, Reasons
  <2>2. EngineOK'
    BY <1>10 DEF FillDone, EngineOK
  <2>3. WorkerOK'
    BY <1>10 DEF FillDone, WorkerOK
  <2>4. HistoryOK'
    BY <1>10 DEF FillDone, HistoryOK
  <2>5. PhaseOK'
    BY <1>10 DEF FillDone, PhaseOK
  <2>6. CurPending'
    BY <1>10 DEF FillDone, CurPending, DbOK, PhaseOK
  <2>7. LinesAired'
    BY <1>10, EmptyElements DEF FillDone, LinesAired
  <2>8. StartedWasAired'
    BY <1>10 DEF FillDone, StartedWasAired, DbOK
  <2> QED
    BY <2>1, <2>2, <2>3, <2>4, <2>5, <2>6, <2>7, <2>8
<1>11. CASE Push
  <2>a. cur \in Decisions /\ faults' \in 0..MaxFault
    BY <1>11 DEF Push, CurPending, HistoryOK
  <2>b. EngineOK' /\ HistoryOK'
    BY <1>11, <2>a, AcceptType DEF Push
  <2>c. UNCHANGED <<log, told>>
    BY <1>11 DEF Push, Accept
  <2>1. DbOK'
    BY <1>11, <2>a, <2>b, <2>c DEF Push, DbOK, WorkerOK, Statuses, Reasons
  <2>2. EngineOK'
    BY <2>b
  <2>3. WorkerOK'
    BY <1>11 DEF Push, WorkerOK, EngineOK
  <2>4. HistoryOK'
    BY <2>b
  <2>5. PhaseOK'
    BY <1>11, <2>a, <2>b, <2>c DEF Push, PhaseOK
  <2>6. CurPending'
    BY <1>11, <2>a, <2>b, <2>c DEF Push, CurPending, DbOK, PhaseOK
  <2>7. LinesAired'
    BY <1>11, <2>a, <2>b, <2>c, EmptyElements DEF Push, LinesAired
  <2>8. StartedWasAired'
    BY <1>11, <2>a, <2>b, <2>c DEF Push, StartedWasAired, DbOK
  <2> QED
    BY <2>1, <2>2, <2>3, <2>4, <2>5, <2>6, <2>7, <2>8
<1>12. CASE PushRefused
  <2>1. DbOK'
    BY <1>12 DEF PushRefused, PushError, DbOK, WorkerOK, Statuses, Reasons
  <2>2. EngineOK'
    BY <1>12 DEF PushRefused, PushError, EngineOK
  <2>3. WorkerOK'
    BY <1>12 DEF PushRefused, PushError, WorkerOK
  <2>4. HistoryOK'
    BY <1>12 DEF PushRefused, PushError, HistoryOK
  <2>5. PhaseOK'
    BY <1>12 DEF PushRefused, PushError, PhaseOK
  <2>6. CurPending'
    BY <1>12 DEF PushRefused, PushError, CurPending, DbOK, PhaseOK
  <2>7. LinesAired'
    BY <1>12, EmptyElements DEF PushRefused, PushError, LinesAired
  <2>8. StartedWasAired'
    BY <1>12 DEF PushRefused, PushError, StartedWasAired, DbOK
  <2> QED
    BY <2>1, <2>2, <2>3, <2>4, <2>5, <2>6, <2>7, <2>8
<1>13. CASE PushUnanswered
  <2>a. cur \in Decisions /\ faults' \in 0..MaxFault
    BY <1>13 DEF PushUnanswered, Fault, CurPending, HistoryOK
  <2>b. EngineOK' /\ HistoryOK'
    BY <1>13, <2>a, AcceptType DEF PushUnanswered
  <2>c. UNCHANGED <<log, told>>
    BY <1>13 DEF PushUnanswered, Accept
  <2>1. DbOK'
    BY <1>13, <2>a, <2>b, <2>c DEF PushUnanswered, PushError, Fault, DbOK, WorkerOK, Statuses, Reasons
  <2>2. EngineOK'
    BY <2>b
  <2>3. WorkerOK'
    BY <1>13, <2>a, <2>b, <2>c DEF PushUnanswered, PushError, Fault, WorkerOK
  <2>4. HistoryOK'
    BY <2>b
  <2>5. PhaseOK'
    BY <1>13, <2>a, <2>b, <2>c DEF PushUnanswered, PushError, Fault, PhaseOK
  <2>6. CurPending'
    BY <1>13, <2>a, <2>b, <2>c DEF PushUnanswered, PushError, Fault, CurPending, DbOK, PhaseOK
  <2>7. LinesAired'
    BY <1>13, <2>a, <2>b, <2>c, EmptyElements DEF PushUnanswered, PushError, Fault, LinesAired
  <2>8. StartedWasAired'
    BY <1>13, <2>a, <2>b, <2>c DEF PushUnanswered, PushError, Fault, StartedWasAired, DbOK
  <2> QED
    BY <2>1, <2>2, <2>3, <2>4, <2>5, <2>6, <2>7, <2>8
<1>14. CASE Ack
  <2>1. DbOK'
    BY <1>14 DEF Ack, AckIdentity, DbOK, WorkerOK, Statuses, Reasons, EngineOK
  <2>2. EngineOK'
    BY <1>14 DEF Ack, AckIdentity, EngineOK
  <2>3. WorkerOK'
    BY <1>14 DEF Ack, AckIdentity, WorkerOK, CurPending
  <2>4. HistoryOK'
    BY <1>14 DEF Ack, AckIdentity, HistoryOK
  <2>5. PhaseOK'
    BY <1>14 DEF Ack, PhaseOK, WorkerOK
  <2>6. CurPending'
    BY <1>14 DEF Ack, AckIdentity, CurPending, DbOK, PhaseOK
  <2>7. LinesAired'
    BY <1>14, EmptyElements DEF Ack, AckIdentity, LinesAired
  <2>8. StartedWasAired'
    BY <1>14 DEF Ack, AckIdentity, StartedWasAired, DbOK, CurPending
  <2> QED
    BY <2>1, <2>2, <2>3, <2>4, <2>5, <2>6, <2>7, <2>8
<1>15. CASE AckNoSocket
  <2>1. DbOK'
    BY <1>15 DEF AckNoSocket, PushError, DbOK, WorkerOK, Statuses, Reasons
  <2>2. EngineOK'
    BY <1>15 DEF AckNoSocket, PushError, EngineOK
  <2>3. WorkerOK'
    BY <1>15 DEF AckNoSocket, PushError, WorkerOK
  <2>4. HistoryOK'
    BY <1>15 DEF AckNoSocket, PushError, HistoryOK
  <2>5. PhaseOK'
    BY <1>15 DEF AckNoSocket, PushError, PhaseOK
  <2>6. CurPending'
    BY <1>15 DEF AckNoSocket, PushError, CurPending, DbOK, PhaseOK
  <2>7. LinesAired'
    BY <1>15, EmptyElements DEF AckNoSocket, PushError, LinesAired
  <2>8. StartedWasAired'
    BY <1>15 DEF AckNoSocket, PushError, StartedWasAired, DbOK
  <2> QED
    BY <2>1, <2>2, <2>3, <2>4, <2>5, <2>6, <2>7, <2>8
<1>16. CASE EngineStart
  <2>1. DbOK'
    BY <1>16 DEF EngineStart, DbOK, WorkerOK, Statuses, Reasons
  <2>2. EngineOK'
    BY <1>16 DEF EngineStart, EngineOK
  <2>3. WorkerOK'
    BY <1>16 DEF EngineStart, WorkerOK
  <2>4. HistoryOK'
    BY <1>16 DEF EngineStart, HistoryOK
  <2>5. PhaseOK'
    BY <1>16 DEF EngineStart, PhaseOK
  <2>6. CurPending'
    BY <1>16 DEF EngineStart, CurPending, DbOK, PhaseOK
  <2>7. LinesAired'
    BY <1>16, EmptyElements DEF EngineStart, LinesAired
  <2>8. StartedWasAired'
    BY <1>16 DEF EngineStart, StartedWasAired, DbOK
  <2> QED
    BY <2>1, <2>2, <2>3, <2>4, <2>5, <2>6, <2>7, <2>8
<1>17. CASE RecordFault
  <2>a. Elements(batch) \subseteq Decisions
    BY ElementsType DEF WorkerOK
  <2>1. DbOK'
    BY <1>17, <2>a DEF RecordFault, AbortTick, Fault, DbOK, WorkerOK, Statuses, Reasons
  <2>2. EngineOK'
    BY <1>17, <2>a DEF RecordFault, AbortTick, Fault, EngineOK
  <2>3. WorkerOK'
    BY <1>17, <2>a, EmptySeq DEF RecordFault, AbortTick, Fault, WorkerOK
  <2>4. HistoryOK'
    BY <1>17, <2>a DEF RecordFault, AbortTick, Fault, HistoryOK
  <2>5. PhaseOK'
    BY <1>17, <2>a DEF RecordFault, AbortTick, Fault, PhaseOK
  <2>6. CurPending'
    BY <1>17, <2>a DEF RecordFault, AbortTick, Fault, CurPending, DbOK, PhaseOK
  <2>7. LinesAired'
    BY <1>17, <2>a, EmptyElements DEF RecordFault, AbortTick, Fault, LinesAired
  <2>8. StartedWasAired'
    BY <1>17, <2>a DEF RecordFault, AbortTick, Fault, StartedWasAired, DbOK
  <2> QED
    BY <2>1, <2>2, <2>3, <2>4, <2>5, <2>6, <2>7, <2>8
<1>18. CASE AckFault
  <2>1. DbOK'
    BY <1>18 DEF AckFault, AbortTick, Fault, DbOK, WorkerOK, Statuses, Reasons
  <2>2. EngineOK'
    BY <1>18 DEF AckFault, AbortTick, Fault, EngineOK
  <2>3. WorkerOK'
    BY <1>18, EmptySeq DEF AckFault, AbortTick, Fault, WorkerOK
  <2>4. HistoryOK'
    BY <1>18 DEF AckFault, AbortTick, Fault, HistoryOK
  <2>5. PhaseOK'
    BY <1>18 DEF AckFault, AbortTick, Fault, PhaseOK
  <2>6. CurPending'
    BY <1>18 DEF AckFault, AbortTick, Fault, CurPending, DbOK, PhaseOK
  <2>7. LinesAired'
    BY <1>18, EmptyElements DEF AckFault, AbortTick, Fault, LinesAired
  <2>8. StartedWasAired'
    BY <1>18 DEF AckFault, AbortTick, Fault, StartedWasAired, DbOK
  <2> QED
    BY <2>1, <2>2, <2>3, <2>4, <2>5, <2>6, <2>7, <2>8
<1>19. CASE WorkerCrash
  <2>1. DbOK'
    BY <1>19 DEF WorkerCrash, AbortTick, Fault, DbOK, WorkerOK, Statuses, Reasons
  <2>2. EngineOK'
    BY <1>19 DEF WorkerCrash, AbortTick, Fault, EngineOK
  <2>3. WorkerOK'
    BY <1>19, EmptySeq DEF WorkerCrash, AbortTick, Fault, WorkerOK
  <2>4. HistoryOK'
    BY <1>19 DEF WorkerCrash, AbortTick, Fault, HistoryOK
  <2>5. PhaseOK'
    BY <1>19 DEF WorkerCrash, AbortTick, Fault, PhaseOK
  <2>6. CurPending'
    BY <1>19 DEF WorkerCrash, AbortTick, Fault, CurPending, DbOK, PhaseOK
  <2>7. LinesAired'
    BY <1>19, EmptyElements DEF WorkerCrash, AbortTick, Fault, LinesAired
  <2>8. StartedWasAired'
    BY <1>19 DEF WorkerCrash, AbortTick, Fault, StartedWasAired, DbOK
  <2> QED
    BY <2>1, <2>2, <2>3, <2>4, <2>5, <2>6, <2>7, <2>8
<1>30. CASE ReconcileCut
  <2>a. \A d \in FoundLeader : RidOf(d, seen) \in Nat
    BY RidOfType DEF FoundLeader, WorkerOK
  <2>1. DbOK'
    BY <1>30, <2>a DEF ReconcileCut, Judged, AbortTick, Fault, DbOK, WorkerOK, Statuses, Reasons
  <2>2. EngineOK'
    BY <1>30, <2>a DEF ReconcileCut, Judged, AbortTick, Fault, EngineOK
  <2>3. WorkerOK'
    BY <1>30, <2>a, EmptySeq DEF ReconcileCut, Judged, AbortTick, Fault, WorkerOK
  <2>4. HistoryOK'
    BY <1>30 DEF ReconcileCut, AbortTick, Fault, HistoryOK
  <2>5. PhaseOK'
    BY <1>30, <2>a DEF ReconcileCut, Judged, AbortTick, Fault, PhaseOK
  <2>6. CurPending'
    BY <1>30, <2>a DEF ReconcileCut, Judged, AbortTick, Fault, CurPending, DbOK, PhaseOK
  <2>7. LinesAired'
    BY <1>30, <2>a, EmptyElements DEF ReconcileCut, Judged, AbortTick, Fault, LinesAired
  <2>8. StartedWasAired'
    BY <1>30, <2>a DEF ReconcileCut, Judged, AbortTick, Fault, StartedWasAired, DbOK
  <2> QED
    BY <2>1, <2>2, <2>3, <2>4, <2>5, <2>6, <2>7, <2>8
<1>20. CASE EngineStop
  <2>a. <<>> \in Seq(Request) /\ <<>> \in Seq(Decisions)
    BY EmptySeq
  <2>1. DbOK'
    BY <1>20, <2>a DEF EngineStop, Fault, DbOK, WorkerOK, Statuses, Reasons
  <2>2. EngineOK'
    BY <1>20, <2>a DEF EngineStop, Fault, EngineOK
  <2>3. WorkerOK'
    BY <1>20, <2>a DEF EngineStop, Fault, WorkerOK
  <2>4. HistoryOK'
    BY <1>20, <2>a DEF EngineStop, Fault, HistoryOK
  <2>5. PhaseOK'
    BY <1>20, <2>a DEF EngineStop, Fault, PhaseOK
  <2>6. CurPending'
    BY <1>20, <2>a DEF EngineStop, Fault, CurPending, DbOK, PhaseOK
  <2>7. LinesAired'
    BY <1>20, <2>a, EmptyElements DEF EngineStop, Fault, LinesAired
  <2>8. StartedWasAired'
    BY <1>20, <2>a DEF EngineStop, Fault, StartedWasAired, DbOK
  <2> QED
    BY <2>1, <2>2, <2>3, <2>4, <2>5, <2>6, <2>7, <2>8
<1>21. ASSUME NEW x \in Decisions, Refuse(x) PROVE IInv'
  <2>1. DbOK'
    BY <1>21 DEF Refuse, Ready, DbOK, WorkerOK, Statuses, Reasons
  <2>2. EngineOK'
    BY <1>21 DEF Refuse, Ready, EngineOK
  <2>3. WorkerOK'
    BY <1>21 DEF Refuse, Ready, WorkerOK
  <2>4. HistoryOK'
    BY <1>21 DEF Refuse, Ready, HistoryOK
  <2>5. PhaseOK'
    BY <1>21 DEF Refuse, Ready, PhaseOK
  <2>6. CurPending'
    BY <1>21 DEF Refuse, Ready, CurPending, DbOK, PhaseOK
  <2>7. LinesAired'
    BY <1>21, EmptyElements DEF Refuse, Ready, LinesAired
  <2>8. StartedWasAired'
    BY <1>21 DEF Refuse, Ready, StartedWasAired, DbOK
  <2> QED
    BY <2>1, <2>2, <2>3, <2>4, <2>5, <2>6, <2>7, <2>8
<1>22. ASSUME NEW x \in Decisions, Submit(x) PROVE IInv'
  <2>1. DbOK'
    BY <1>22 DEF Submit, Ready, DbOK, WorkerOK, Statuses, Reasons
  <2>2. EngineOK'
    BY <1>22 DEF Submit, Ready, EngineOK
  <2>3. WorkerOK'
    BY <1>22 DEF Submit, Ready, WorkerOK
  <2>4. HistoryOK'
    BY <1>22 DEF Submit, Ready, HistoryOK
  <2>5. PhaseOK'
    BY <1>22 DEF Submit, Ready, PhaseOK
  <2>6. CurPending'
    BY <1>22 DEF Submit, Ready, CurPending, DbOK, PhaseOK
  <2>7. LinesAired'
    BY <1>22, EmptyElements DEF Submit, Ready, LinesAired
  <2>8. StartedWasAired'
    BY <1>22 DEF Submit, Ready, StartedWasAired, DbOK
  <2> QED
    BY <2>1, <2>2, <2>3, <2>4, <2>5, <2>6, <2>7, <2>8
<1>23. ASSUME NEW x \in Decisions, Select(x) PROVE IInv'
  <2>1. DbOK'
    BY <1>23 DEF Select, Candidates, DbOK, WorkerOK, Statuses, Reasons
  <2>2. EngineOK'
    BY <1>23 DEF Select, Candidates, EngineOK
  <2>3. WorkerOK'
    BY <1>23 DEF Select, Candidates, WorkerOK
  <2>4. HistoryOK'
    BY <1>23 DEF Select, Candidates, HistoryOK
  <2>5. PhaseOK'
    BY <1>23 DEF Select, Candidates, PhaseOK
  <2>6. CurPending'
    BY <1>23 DEF Select, Candidates, CurPending, DbOK, PhaseOK
  <2>7. LinesAired'
    BY <1>23, EmptyElements DEF Select, Candidates, LinesAired
  <2>8. StartedWasAired'
    BY <1>23 DEF Select, Candidates, StartedWasAired, DbOK
  <2> QED
    BY <2>1, <2>2, <2>3, <2>4, <2>5, <2>6, <2>7, <2>8
<1>24. ASSUME NEW x \in Decisions, WebQueue(x) PROVE IInv'
  <2>1. DbOK'
    BY <1>24 DEF WebQueue, DbOK, WorkerOK, Statuses, Reasons
  <2>2. EngineOK'
    BY <1>24 DEF WebQueue, EngineOK
  <2>3. WorkerOK'
    BY <1>24 DEF WebQueue, WorkerOK
  <2>4. HistoryOK'
    BY <1>24 DEF WebQueue, HistoryOK
  <2>5. PhaseOK'
    BY <1>24 DEF WebQueue, PhaseOK
  <2>6. CurPending'
    BY <1>24 DEF WebQueue, CurPending, DbOK, PhaseOK
  <2>7. LinesAired'
    BY <1>24, EmptyElements DEF WebQueue, LinesAired
  <2>8. StartedWasAired'
    BY <1>24 DEF WebQueue, StartedWasAired, DbOK
  <2> QED
    BY <2>1, <2>2, <2>3, <2>4, <2>5, <2>6, <2>7, <2>8
<1>25. ASSUME NEW x \in Decisions, WindowCloses(x) PROVE IInv'
  <2>1. DbOK'
    BY <1>25 DEF WindowCloses, DbOK, WorkerOK, Statuses, Reasons
  <2>2. EngineOK'
    BY <1>25 DEF WindowCloses, EngineOK
  <2>3. WorkerOK'
    BY <1>25 DEF WindowCloses, WorkerOK
  <2>4. HistoryOK'
    BY <1>25 DEF WindowCloses, HistoryOK
  <2>5. PhaseOK'
    BY <1>25 DEF WindowCloses, PhaseOK
  <2>6. CurPending'
    BY <1>25 DEF WindowCloses, CurPending, DbOK, PhaseOK
  <2>7. LinesAired'
    BY <1>25, EmptyElements DEF WindowCloses, LinesAired
  <2>8. StartedWasAired'
    BY <1>25 DEF WindowCloses, StartedWasAired, DbOK
  <2> QED
    BY <2>1, <2>2, <2>3, <2>4, <2>5, <2>6, <2>7, <2>8
<1>26. ASSUME NEW x \in Buses, EngineNext(x) PROVE IInv'
  <2>a. Head(queue[x]) \in Request /\ Tail(queue[x]) \in Seq(Request)
    BY <1>26, HeadTailProperties DEF EngineNext, EngineOK
  <2>1. DbOK'
    BY <1>26, <2>a DEF EngineNext, DbOK, WorkerOK, Statuses, Reasons
  <2>2. EngineOK'
    BY <1>26, <2>a DEF EngineNext, EngineOK
  <2>3. WorkerOK'
    BY <1>26, <2>a DEF EngineNext, WorkerOK
  <2>4. HistoryOK'
    BY <1>26, <2>a DEF EngineNext, HistoryOK
  <2>5. PhaseOK'
    BY <1>26, <2>a DEF EngineNext, PhaseOK
  <2>6. CurPending'
    BY <1>26, <2>a DEF EngineNext, CurPending, DbOK, PhaseOK
  <2>7. LinesAired'
    BY <1>26, <2>a, EmptyElements DEF EngineNext, LinesAired
  <2>8. StartedWasAired'
    BY <1>26, <2>a DEF EngineNext, StartedWasAired, DbOK
  <2> QED
    BY <2>1, <2>2, <2>3, <2>4, <2>5, <2>6, <2>7, <2>8
<1>27. ASSUME NEW x \in Buses, EngineConfirm(x) PROVE IInv'
  <2>a. onair[x].dec \in Decisions
    BY <1>27 DEF EngineConfirm, EngineOK, Request
  <2>b. log' \in Seq(Decisions) /\ Elements(log') = Elements(log) \cup {onair[x].dec}
    BY <1>27, <2>a, ElementsOfAppend DEF EngineConfirm, EngineOK
  <2>1. DbOK'
    BY <1>27, <2>a, <2>b DEF EngineConfirm, DbOK, WorkerOK, Statuses, Reasons
  <2>2. EngineOK'
    BY <1>27, <2>a, <2>b DEF EngineConfirm, EngineOK
  <2>3. WorkerOK'
    BY <1>27, <2>a, <2>b DEF EngineConfirm, WorkerOK
  <2>4. HistoryOK'
    BY <1>27, <2>a, <2>b DEF EngineConfirm, HistoryOK
  <2>5. PhaseOK'
    BY <1>27, <2>a, <2>b DEF EngineConfirm, PhaseOK
  <2>6. CurPending'
    BY <1>27, <2>a, <2>b DEF EngineConfirm, CurPending, DbOK, PhaseOK
  <2>7. LinesAired'
    BY <1>27, <2>a, <2>b, EmptyElements DEF EngineConfirm, LinesAired
  <2>8. StartedWasAired'
    BY <1>27, <2>a, <2>b DEF EngineConfirm, StartedWasAired, DbOK
  <2> QED
    BY <2>1, <2>2, <2>3, <2>4, <2>5, <2>6, <2>7, <2>8
<1>28. ASSUME NEW x \in Buses, EngineEnd(x) PROVE IInv'
  <2>1. DbOK'
    BY <1>28 DEF EngineEnd, DbOK, WorkerOK, Statuses, Reasons
  <2>2. EngineOK'
    BY <1>28 DEF EngineEnd, EngineOK
  <2>3. WorkerOK'
    BY <1>28 DEF EngineEnd, WorkerOK
  <2>4. HistoryOK'
    BY <1>28 DEF EngineEnd, HistoryOK
  <2>5. PhaseOK'
    BY <1>28 DEF EngineEnd, PhaseOK
  <2>6. CurPending'
    BY <1>28 DEF EngineEnd, CurPending, DbOK, PhaseOK
  <2>7. LinesAired'
    BY <1>28, EmptyElements DEF EngineEnd, LinesAired
  <2>8. StartedWasAired'
    BY <1>28 DEF EngineEnd, StartedWasAired, DbOK
  <2> QED
    BY <2>1, <2>2, <2>3, <2>4, <2>5, <2>6, <2>7, <2>8
<1>29. CASE UNCHANGED vars
  BY <1>29 DEF vars, DbOK, EngineOK, WorkerOK, HistoryOK, PhaseOK, CurPending, LinesAired,
     StartedWasAired
<1> QED
  BY <1>1, <1>2, <1>3, <1>4, <1>5, <1>6, <1>7, <1>8, <1>9, <1>10, <1>11, <1>12, <1>13, <1>14, <1>15, <1>16, <1>17, <1>18, <1>19, <1>20, <1>21, <1>22, <1>23, <1>24, <1>25, <1>26, <1>27, <1>28, <1>29, <1>30
     DEF Next, Worker, Engine, Faults, Manually, Refill, Handoff

----------------------------------------------------------------------------
LEMMA Invariance == Spec => []IInv
<1>1. Init => IInv
  BY InitIInv
<1>2. IInv /\ [Next]_vars => IInv'
  BY NextIInv
<1> QED
  BY <1>1, <1>2, PTL DEF Spec

(* Every variable keeps its type whatever the faults: in particular the    *)
(* room of the refill loop never goes below zero and an inventory only     *)
(* ever names requests.                                                    *)
THEOREM TypeCorrect == Spec => []TypeOK
<1>1. IInv => TypeOK
  BY DEF IInv
<1> QED
  BY <1>1, Invariance, PTL

(* playback_started never invents an airplay: a row is marked started only *)
(* for a decision some engine rendered, under any number of worker deaths, *)
(* engine restarts, lost answers and failed transactions.                  *)
THEOREM NoInventedAirplay == Spec => []StartedWasAired
<1>1. IInv => StartedWasAired
  BY DEF IInv
<1> QED
  BY <1>1, Invariance, PTL

----------------------------------------------------------------------------
(* What any step may do to a row: it never becomes new again, and a        *)
(* confirmed start is never taken back.                                    *)
RowMoves ==
  \A d \in Decisions : /\ status'[d] = "none" => status[d] = "none"
                       /\ status[d] = "started" => status'[d] = "started"

(* A failed push concerns a row that is still open. *)
LEMMA FailedPushMoves ==
  ASSUME IInv, pc \in {"push", "ack"}, PushError
  PROVE  RowMoves
  BY DEF IInv, TypeOK, DbOK, CurPending, PushError, RowMoves

(* What both ends of reconcile_requests have in common: the leaders are    *)
(* judged, and the queued rows as far as the pass got.                     *)
Judges ==
  /\ \E lost \in {Severed \cup Vanished, {}} : Judged(lost)
  /\ pc = "reconcile" /\ pc' \in {"stock", "fill", "collect"} /\ seen' = {} /\ ident' = 0
  /\ UNCHANGED <<engineVars, history>>

LEMMA BothJudge == ASSUME Reconcile \/ ReconcileCut PROVE Judges
<1>1. CASE Reconcile
  BY <1>1 DEF Reconcile, Judges
<1>2. CASE ReconcileCut
  BY <1>2 DEF ReconcileCut, AbortTick, Judges
<1> QED
  BY <1>1, <1>2

LEMMA StepMoves == IInv /\ [Next]_vars => RowMoves
<1> SUFFICES ASSUME IInv, [Next]_vars PROVE RowMoves
  OBVIOUS
<1>1. status \in [Decisions -> Statuses]
  BY DEF IInv, TypeOK, DbOK
<1>2. ASSUME UNCHANGED status PROVE RowMoves
  BY <1>2 DEF RowMoves
<1>3. ASSUME NEW d \in Decisions, WebQueue(d) PROVE RowMoves
  BY <1>1, <1>3 DEF WebQueue, RowMoves
<1>4. CASE Record
  BY <1>1, <1>2, <1>4 DEF Record, Started, Confirmable, dbVars, RowMoves
<1>5. CASE Reconcile \/ ReconcileCut
  <2> PICK lost \in {Severed \cup Vanished, {}} : Judged(lost)
    BY <1>5, BothJudge DEF Judges
  <2>1. FoundLeader \cup ExpiredLeader \cup LostLeader \subseteq Untracked
    BY DEF FoundLeader, ExpiredLeader, LostLeader
  <2>2. \A d \in Untracked : status[d] \in {"selected", "submitting", "failed"}
    BY DEF Untracked
  <2>3. \A d \in lost : status[d] = "queued"
    BY DEF Severed, Vanished, Absent, Queued
  <2> QED
    BY <1>1, <2>1, <2>2, <2>3 DEF Judged, RowMoves
<1>6. CASE Resolve
  BY <1>1, <1>6 DEF Resolve, Adopted, Submitting, RowMoves
<1>7. ASSUME NEW d \in Decisions, Refuse(d) \/ Submit(d) PROVE RowMoves
  BY <1>1, <1>7 DEF Refuse, Submit, Ready, RowMoves
<1>8. ASSUME NEW d \in Decisions, Select(d) PROVE RowMoves
  BY <1>1, <1>8 DEF Select, Candidates, RowMoves
<1>9. CASE PushRefused \/ PushUnanswered \/ AckNoSocket
  BY <1>9, FailedPushMoves DEF PushRefused, PushUnanswered, AckNoSocket
<1>10. CASE Ack
  BY <1>1, <1>10 DEF Ack, IInv, CurPending, RowMoves
<1>11. CASE Collect \/ Recorded \/ Inventory \/ TakeStock \/ Unavailable \/ ManualDone
            \/ FillDone \/ Push
  BY <1>2, <1>11 DEF Collect, Recorded, Inventory, TakeStock, ReadEngine, Unavailable,
     ManualDone, FillDone, Push, dbVars
<1>12. CASE RecordFault \/ AckFault \/ WorkerCrash \/ EngineStop
  BY <1>2, <1>12 DEF RecordFault, AckFault, WorkerCrash, EngineStop, dbVars
<1>13. CASE EngineStart
  BY <1>2, <1>13 DEF EngineStart, dbVars
<1>14. ASSUME NEW b \in Buses, EngineNext(b) \/ EngineConfirm(b) \/ EngineEnd(b)
       PROVE  RowMoves
  BY <1>2, <1>14 DEF EngineNext, EngineConfirm, EngineEnd, dbVars
<1>15. ASSUME NEW d \in Decisions, WindowCloses(d) PROVE RowMoves
  BY <1>2, <1>15 DEF WindowCloses, dbVars
<1>16. CASE UNCHANGED vars
  BY <1>2, <1>16 DEF vars, dbVars
<1> QED
  BY <1>3, <1>4, <1>5, <1>6, <1>7, <1>8, <1>9, <1>10, <1>11, <1>12, <1>13, <1>14, <1>15, <1>16
     DEF Next, Worker, Engine, Faults, Manually, Refill, Handoff

(* A confirmed start is durable: whatever crashes, restarts, is lost or is *)
(* answered late, no later step of any party takes it back.                *)
THEOREM ConfirmedStartIsFinal == Spec => StartedIsFinal
<1>1. IInv /\ [Next]_vars => \A d \in Decisions : status[d] = "started" => status'[d] = "started"
  BY StepMoves DEF RowMoves
<1> QED
  BY <1>1, Invariance, PTL DEF Spec, StartedIsFinal

----------------------------------------------------------------------------
(* The worker's own choices: songs and attempts at a leader.  A row that   *)
(* was not chosen yet, or whose push has not happened yet, reached no      *)
(* engine; this is what makes "at most once" inductive.                    *)
Automatic == Routine \cup Leader
FirstAttempt ==
  /\ \A d \in Automatic : status[d] = "none" => accepted[d] = 0
  /\ pc = "push" /\ cur \in Automatic => accepted[cur] = 0
  /\ RefillSubmitsOnce

(* A step that hands nothing over and begins no push. *)
Quiet == accepted' = accepted /\ (pc' # "push" \/ (pc' = pc /\ cur' = cur))

LEMMA QuietStep == IInv /\ FirstAttempt /\ RowMoves /\ Quiet => FirstAttempt'
  BY DEF FirstAttempt, RowMoves, Quiet, RefillSubmitsOnce, Automatic, Decisions

(* The push itself: the engine counts the row that was pending. *)
LEMMA PushStep ==
  ASSUME IInv, FirstAttempt, RowMoves, pc = "push", Accept(cur), pc' # "push"
  PROVE  FirstAttempt'
<1>1. cur \in Decisions /\ status[cur] # "none"
  BY DEF IInv, CurPending
<1>2. accepted \in [Decisions -> Nat]
  BY DEF IInv, TypeOK, HistoryOK
<1>3. \A d \in Decisions : accepted'[d] = IF d = cur THEN accepted[d] + 1 ELSE accepted[d]
  BY <1>1, <1>2 DEF Accept
<1>4. RefillSubmitsOnce'
  BY <1>1, <1>2, <1>3 DEF FirstAttempt, RefillSubmitsOnce, Automatic, Decisions
<1>5. \A d \in Automatic : status'[d] = "none" => accepted'[d] = 0
  BY <1>1, <1>3 DEF FirstAttempt, RowMoves, Automatic, Decisions
<1> QED
  BY <1>4, <1>5 DEF FirstAttempt

LEMMA FirstAttemptStep == IInv /\ FirstAttempt /\ [Next]_vars => FirstAttempt'
<1> SUFFICES ASSUME IInv, FirstAttempt, [Next]_vars PROVE FirstAttempt'
  OBVIOUS
<1>0. RowMoves
  BY StepMoves
<1>1. ASSUME Quiet PROVE FirstAttempt'
  BY <1>0, <1>1, QuietStep
<1>2. CASE Push
  BY <1>0, <1>2, PushStep DEF Push
<1>3. CASE PushUnanswered
  <2>1. pc' # "push"
    BY <1>3 DEF PushUnanswered, PushError
  <2> QED
    BY <1>0, <1>3, <2>1, PushStep DEF PushUnanswered
<1>4. ASSUME NEW d \in Decisions, Select(d) PROVE FirstAttempt'
  <2>1. cur' = d /\ accepted' = accepted /\ status[d] = "none"
    BY <1>4 DEF Select, Candidates, history
  <2> QED
    BY <1>0, <2>1 DEF FirstAttempt, RowMoves, RefillSubmitsOnce, Automatic, Decisions
<1>5. ASSUME NEW d \in Decisions, Submit(d) PROVE FirstAttempt'
  <2>1. cur' = d /\ accepted' = accepted /\ d \notin Automatic
    BY <1>5 DEF Submit, Ready, Automatic, history
  <2> QED
    BY <1>0, <2>1 DEF FirstAttempt, RowMoves, RefillSubmitsOnce, Automatic, Decisions
<1>6. CASE PushRefused \/ AckNoSocket
  BY <1>1, <1>6 DEF PushRefused, AckNoSocket, PushError, Quiet, history
<1>7. CASE Record \/ Reconcile \/ Resolve \/ Ack
  BY <1>1, <1>7 DEF Record, AbortTick, Reconcile, Judged, Resolve, Ack, Quiet, history
<1>8. CASE Collect \/ Recorded \/ Inventory \/ TakeStock \/ Unavailable \/ ManualDone \/ FillDone
  BY <1>1, <1>8 DEF Collect, Recorded, Inventory, TakeStock, ReadEngine, Unavailable,
     AbortTick, ManualDone, FillDone, Quiet, history
<1>9. CASE Faults
  BY <1>1, <1>9 DEF Faults, RecordFault, AckFault, ReconcileCut, WorkerCrash, EngineStop, AbortTick, Quiet,
     history, memVars
<1>10. CASE EngineStart
  BY <1>1, <1>10 DEF EngineStart, Quiet, history, memVars
<1>11. ASSUME NEW b \in Buses, EngineNext(b) \/ EngineConfirm(b) \/ EngineEnd(b)
       PROVE  FirstAttempt'
  BY <1>1, <1>11 DEF EngineNext, EngineConfirm, EngineEnd, Quiet, history, memVars
<1>12. ASSUME NEW d \in Decisions, WebQueue(d) \/ Refuse(d) \/ WindowCloses(d)
       PROVE  FirstAttempt'
  BY <1>1, <1>12 DEF WebQueue, Refuse, WindowCloses, Quiet, history, memVars
<1>13. CASE UNCHANGED vars
  BY <1>1, <1>13 DEF vars, Quiet, history, memVars
<1> QED
  BY <1>2, <1>3, <1>4, <1>5, <1>6, <1>7, <1>8, <1>9, <1>10, <1>11, <1>12, <1>13
     DEF Next, Worker, Engine, Manually, Refill, Handoff

(* The refill loop hands each of its selections to an engine at most once, *)
(* however often an answer, a commit, the worker or the engine is lost.    *)
THEOREM AutomaticSubmittedOnce == Spec => []RefillSubmitsOnce
<1>1. ASSUME Init PROVE FirstAttempt
  <2>1. \A d \in Routine \cup Leader : accepted[d] = 0
    BY <1>1 DEF Init, Decisions
  <2>2. pc # "push"
    BY <1>1 DEF Init
  <2> QED
    BY <2>1, <2>2 DEF FirstAttempt, RefillSubmitsOnce, Automatic
<1>2. IInv /\ FirstAttempt /\ [Next]_vars => FirstAttempt'
  BY FirstAttemptStep
<1>3. FirstAttempt => RefillSubmitsOnce
  BY DEF FirstAttempt
<1> QED
  BY <1>1, <1>2, <1>3, Invariance, PTL DEF Spec

----------------------------------------------------------------------------
(* Request ids.  Each engine counts from 1, so an id means something only  *)
(* together with the identity of the engine that gave it out.              *)

(* Id i can, in the running engine, only be a request of decision d.       *)
Names(i, d) == i < nextRid /\ \A r \in Live : r.id = i => r.dec = d

IdsOK ==
  /\ \A r \in Live : r.id < nextRid
  /\ \A r, s \in Live : r.id = s.id => r.dec = s.dec
  /\ ident <= epoch /\ \A d \in Decisions : sock[d] <= epoch
SeenOK == ident = epoch => \A s \in seen : Names(s.id, s.dec)
AckOK  == pc = "ack" /\ phase = "manual" /\ ident = epoch => Names(got, cur)
RowsOK == \A d \in Manual : status[d] = "queued" /\ sock[d] = epoch => Names(rid[d], d)

IdInv == IdsOK /\ SeenOK /\ AckOK /\ RowsOK

(* Each loop pushes its own kind of row. *)
LoopOK == pc \in {"push", "ack"} /\ phase = "refill" => cur \in Automatic

LEMMA LoopStep == IInv /\ LoopOK /\ [Next]_vars => LoopOK'
<1> SUFFICES ASSUME IInv, LoopOK, [Next]_vars PROVE LoopOK'
  OBVIOUS
<1> USE DEF LoopOK
<1>1. CASE Push
  BY <1>1 DEF Push
<1>2. ASSUME NEW d \in Decisions, Select(d) PROVE LoopOK'
  BY <1>2 DEF Select, Candidates, Automatic
<1>3. ASSUME NEW d \in Decisions, Submit(d) PROVE LoopOK'
  BY <1>3 DEF Submit, IInv, PhaseOK
<1>4. CASE PushRefused \/ PushUnanswered \/ AckNoSocket
  BY <1>4 DEF PushRefused, PushUnanswered, AckNoSocket, PushError
<1>5. CASE Record \/ Reconcile \/ Resolve \/ Ack
  BY <1>5 DEF Record, AbortTick, Reconcile, Resolve, Ack
<1>6. CASE Collect \/ Recorded \/ Inventory \/ TakeStock \/ Unavailable \/ ManualDone \/ FillDone
  BY <1>6 DEF Collect, Recorded, Inventory, TakeStock, ReadEngine, Unavailable, AbortTick,
     ManualDone, FillDone
<1>7. CASE Faults
  BY <1>7 DEF Faults, RecordFault, AckFault, ReconcileCut, WorkerCrash, EngineStop, AbortTick, memVars
<1>8. CASE EngineStart
  BY <1>8 DEF EngineStart, memVars
<1>9. ASSUME NEW b \in Buses, EngineNext(b) \/ EngineConfirm(b) \/ EngineEnd(b) PROVE LoopOK'
  BY <1>9 DEF EngineNext, EngineConfirm, EngineEnd, memVars
<1>10. ASSUME NEW d \in Decisions, WebQueue(d) \/ Refuse(d) \/ WindowCloses(d) PROVE LoopOK'
  BY <1>10 DEF WebQueue, Refuse, WindowCloses, memVars
<1>11. CASE UNCHANGED vars
  BY <1>11 DEF vars, memVars
<1> QED
  BY <1>1, <1>2, <1>3, <1>4, <1>5, <1>6, <1>7, <1>8, <1>9, <1>10, <1>11
     DEF Next, Worker, Engine, Manually, Refill, Handoff

(* What an engine holds only shrinks, except by an accepted push. *)
LEMMA NextShrinks ==
  ASSUME EngineOK, NEW b \in Buses, EngineNext(b)
  PROVE  \A c \in Buses : LiveOn(c)' \subseteq LiveOn(c)
<1>1. /\ queue \in [Buses -> Seq(Request)] /\ queue[b] \in Seq(Request) /\ queue[b] # <<>>
      /\ onair' = [onair EXCEPT ![b] = Head(queue[b])] /\ onair \in [Buses -> Request \cup {NoRequest}]
      /\ queue' = [queue EXCEPT ![b] = Tail(queue[b])]
  BY DEF EngineNext, EngineOK
<1>2. Head(queue[b]) \in Elements(queue[b]) /\ Elements(Tail(queue[b])) \subseteq Elements(queue[b])
  BY <1>1, ElementsOfTail
<1>3. ASSUME NEW c \in Buses PROVE LiveOn(c)' \subseteq LiveOn(c)
  <2>1. CASE c = b
    <3>1. queue'[c] = Tail(queue[b]) /\ onair'[c] = Head(queue[b])
      BY <1>1, <2>1
    <3> QED
      BY <1>2, <2>1, <3>1 DEF LiveOn
  <2>2. CASE c # b
    <3>1. queue'[c] = queue[c] /\ onair'[c] = onair[c]
      BY <1>1, <2>2
    <3> QED
      BY <3>1 DEF LiveOn
  <2> QED
    BY <2>1, <2>2
<1> QED
  BY <1>3

LEMMA EndShrinks ==
  ASSUME EngineOK, NEW b \in Buses, EngineEnd(b)
  PROVE  \A c \in Buses : LiveOn(c)' \subseteq LiveOn(c)
<1>1. ASSUME NEW c \in Buses PROVE LiveOn(c)' \subseteq LiveOn(c)
  <2>1. queue'[c] = queue[c] /\ onair'[c] \in {onair[c], NoRequest}
    BY DEF EngineEnd, EngineOK
  <2> QED
    BY <2>1 DEF LiveOn
<1> QED
  BY <1>1

LEMMA StopKeepsLive == ASSUME EngineStop PROVE Live' = {}
<1>1. ASSUME NEW b \in Buses PROVE LiveOn(b)' = {}
  <2>1. queue'[b] = <<>> /\ onair'[b] = NoRequest
    BY DEF EngineStop
  <2> QED
    BY <2>1, EmptyElements DEF LiveOn
<1> QED
  BY <1>1 DEF Live

LEMMA AcceptAddsOne ==
  ASSUME EngineOK, NEW d \in Decisions, Accept(d)
  PROVE  Live' \subseteq Live \cup {[id |-> nextRid, dec |-> d]}
<1> DEFINE new == [id |-> nextRid, dec |-> d]
<1>1. /\ Bus(d) \in Buses /\ new \in Request /\ queue \in [Buses -> Seq(Request)]
      /\ queue' = [queue EXCEPT ![Bus(d)] = Append(queue[Bus(d)], new)] /\ onair' = onair
  BY DEF EngineOK, Bus, Buses, Request, Accept
<1>2. queue[Bus(d)] \in Seq(Request)
  BY <1>1
<1>3. Elements(Append(queue[Bus(d)], new)) = Elements(queue[Bus(d)]) \cup {new}
  BY <1>1, <1>2, ElementsOfAppend
<1>4. ASSUME NEW c \in Buses PROVE LiveOn(c)' \subseteq LiveOn(c) \cup {new}
  <2>1. CASE c = Bus(d)
    <3>1. queue'[c] = Append(queue[Bus(d)], new)
      BY <1>1, <2>1
    <3> QED
      BY <1>1, <1>3, <2>1, <3>1 DEF LiveOn
  <2>2. CASE c # Bus(d)
    <3>1. queue'[c] = queue[c]
      BY <1>1, <2>2
    <3> QED
      BY <1>1, <3>1 DEF LiveOn
  <2> QED
    BY <2>1, <2>2
<1> HIDE DEF new
<1>5. Live' \subseteq Live \cup {new}
  BY <1>4 DEF Live
<1> QED
  BY <1>5 DEF new

(* A step under which the engine takes no new request and no row of a      *)
(* person gets a request id.                                               *)
EngineKept == Live' \subseteq Live /\ nextRid' = nextRid /\ epoch' = epoch
RowsKept ==
  /\ \A d \in Decisions : sock'[d] <= epoch
  /\ \A d \in Manual : status'[d] = "queued" =>
       status[d] = "queued" /\ rid'[d] = rid[d] /\ sock'[d] = sock[d]
SightKept == /\ ident' = 0 \/ ident' = ident
             /\ seen' = {} \/ seen' = seen
             /\ pc' = "ack" => pc = "ack" /\ phase' = phase /\ cur' = cur /\ got' = got

LEMMA KeepsIds == IInv /\ IdInv /\ EngineKept /\ RowsKept /\ SightKept => IdInv'
<1> SUFFICES ASSUME IInv, IdInv, EngineKept, RowsKept, SightKept PROVE IdInv'
  OBVIOUS
<1>1. epoch \in Nat \ {0} /\ ident \in Nat
  BY DEF IInv, TypeOK, EngineOK, WorkerOK
<1>2. \A i, d : Names(i, d) => Names(i, d)'
  BY DEF EngineKept, Names
<1>3. IdsOK'
  BY <1>1 DEF IdInv, IdsOK, EngineKept, RowsKept, SightKept
<1>4. SeenOK'
  BY <1>1, <1>2 DEF IdInv, SeenOK, EngineKept, SightKept
<1>5. AckOK'
  BY <1>1, <1>2 DEF IdInv, AckOK, EngineKept, SightKept
<1>6. RowsOK'
  BY <1>2 DEF IdInv, RowsOK, EngineKept, RowsKept
<1> QED
  BY <1>3, <1>4, <1>5, <1>6 DEF IdInv

(* The exchange of a push: the new request gets an id no other has.        *)
LEMMA PushIds ==
  ASSUME IInv, IdInv, pc = "push", Accept(cur), UNCHANGED <<rid, sock, seen, ident>>,
         \A d \in Manual : status'[d] = "queued" => status[d] = "queued",
         pc' = "ack" => got' = nextRid /\ cur' = cur /\ phase' = phase
  PROVE  IdInv'
<1> DEFINE new == [id |-> nextRid, dec |-> cur]
<1>1. /\ cur \in Decisions /\ nextRid \in Nat \ {0} /\ epoch \in Nat \ {0} /\ EngineOK
      /\ Live \subseteq Request
  BY LiveType DEF IInv, CurPending, TypeOK, EngineOK
<1>2. Live' \subseteq Live \cup {new} /\ new.id = nextRid /\ new.dec = cur
  BY <1>1, AcceptAddsOne
<1>3. nextRid' = nextRid + 1 /\ epoch' = epoch
  BY DEF Accept
<1>4. \A r \in Live : r.id \in Nat /\ r.id < nextRid
  BY <1>1 DEF IdInv, IdsOK, Request
<1> HIDE DEF new
<1>5. ASSUME NEW i \in Nat, NEW d, Names(i, d) PROVE Names(i, d)'
  <2>1. i < nextRid /\ i < nextRid'
    BY <1>1, <1>3, <1>5 DEF Names
  <2> QED
    BY <1>2, <1>5, <2>1 DEF Names
<1>6. ASSUME NEW i, NEW d, i = nextRid, d = cur PROVE Names(i, d)'
  <2>1. i < nextRid'
    BY <1>1, <1>3, <1>6
  <2> QED
    BY <1>2, <1>4, <1>6, <2>1 DEF Names
<1>7. IdsOK'
  <2>1. \A r \in Live' : r.id < nextRid'
    BY <1>1, <1>2, <1>3, <1>4
  <2>2. \A r, s \in Live' : r.id = s.id => r.dec = s.dec
    BY <1>2, <1>4 DEF IdInv, IdsOK
  <2> QED
    BY <1>3, <2>1, <2>2 DEF IdInv, IdsOK
<1>8. SeenOK'
  <2>1. \A s \in seen : s.id \in Nat
    BY DEF IInv, TypeOK, WorkerOK, Request
  <2> QED
    BY <1>3, <1>5, <2>1 DEF IdInv, SeenOK
<1>9. AckOK'
  <2> SUFFICES ASSUME pc' = "ack" PROVE Names(got, cur)'
    BY DEF AckOK
  <2>1. got' = nextRid /\ cur' = cur
    OBVIOUS
  <2> QED
    BY <1>6, <2>1
<1>10. RowsOK'
  <2>1. \A d \in Manual : rid[d] \in Nat
    BY DEF IInv, TypeOK, DbOK, Decisions
  <2> QED
    BY <1>3, <1>5, <2>1 DEF IdInv, RowsOK
<1> QED
  BY <1>7, <1>8, <1>9, <1>10 DEF IdInv

LEMMA SightIds ==
  ASSUME IInv, IdInv, Inventory \/ TakeStock
  PROVE  IdInv'
<1>1. /\ ident' = epoch /\ seen' \subseteq Live /\ pc' # "ack"
      /\ UNCHANGED <<dbVars, engineVars>>
  BY DEF Inventory, TakeStock, ReadEngine, Live, Buses
<1>2. Live' = Live /\ epoch \in Nat
  BY <1>1 DEF Live, LiveOn, engineVars, IInv, TypeOK, EngineOK
<1>3. \A i, d : Names(i, d)' <=> Names(i, d)
  BY <1>1, <1>2 DEF Names, engineVars
<1>4. \A s \in seen' : Names(s.id, s.dec)
  BY <1>1 DEF IdInv, IdsOK, Names
<1>5. IdsOK'
  BY <1>1, <1>2 DEF IdInv, IdsOK, dbVars, engineVars
<1>6. SeenOK' /\ AckOK' /\ RowsOK'
  BY <1>1, <1>3, <1>4 DEF IdInv, SeenOK, AckOK, RowsOK, dbVars, engineVars
<1> QED
  BY <1>5, <1>6 DEF IdInv

(* The two places where a row of a person gets an id: the acknowledgement, *)
(* and the adoption of a request found by its annotation.                  *)
LEMMA AckIds == ASSUME IInv, IdInv, LoopOK, Ack PROVE IdInv'
<1>1. /\ pc = "ack" /\ pc' # "ack" /\ cur \in Decisions /\ epoch \in Nat /\ ident \in Nat
      /\ rid' = [rid EXCEPT ![cur] = got] /\ sock' = [sock EXCEPT ![cur] = AckIdentity]
      /\ status' = [status EXCEPT ![cur] = "queued"]
      /\ UNCHANGED <<engineVars, phase, seen, ident>>
  BY DEF Ack, IInv, CurPending, TypeOK, EngineOK, WorkerOK
<1>2. Live' = Live
  BY <1>1 DEF Live, LiveOn, engineVars
<1>3. \A i, d : Names(i, d)' <=> Names(i, d)
  BY <1>1, <1>2 DEF Names, engineVars
<1>4. /\ rid \in [Decisions -> Nat] /\ sock \in [Decisions -> Nat] /\ status \in [Decisions -> Statuses]
      /\ AckIdentity <= epoch
  BY <1>1 DEF IInv, TypeOK, DbOK, IdInv, IdsOK, AckIdentity
<1>5. IdsOK'
  BY <1>1, <1>2, <1>4 DEF IdInv, IdsOK, engineVars
<1>6. SeenOK' /\ AckOK'
  BY <1>1, <1>3 DEF IdInv, SeenOK, AckOK, engineVars
<1>7. ASSUME NEW d \in Manual, status'[d] = "queued", sock'[d] = epoch'
      PROVE  Names(rid[d], d)'
  <2>1. CASE d = cur
    <3>1. phase = "manual" => ident = epoch
      BY <1>1, <1>4, <1>7, <2>1 DEF AckIdentity, engineVars
    <3>2. phase = "manual"
      BY <1>1, <2>1 DEF LoopOK, Automatic, IInv, TypeOK, WorkerOK
    <3> QED
      BY <1>1, <1>3, <1>4, <2>1, <3>1, <3>2 DEF IdInv, AckOK
  <2>2. CASE d # cur
    BY <1>1, <1>3, <1>4, <1>7, <2>2 DEF IdInv, RowsOK, Decisions, engineVars
  <2> QED
    BY <2>1, <2>2
<1> QED
  BY <1>5, <1>6, <1>7 DEF IdInv, RowsOK

LEMMA ResolveIds == ASSUME IInv, IdInv, Resolve PROVE IdInv'
<1>1. /\ pc' = "manual" /\ seen' = {} /\ epoch \in Nat /\ ident \in Nat
      /\ UNCHANGED <<engineVars, phase, ident>>
      /\ rid' = [d \in Decisions |-> IF d \in Adopted THEN RidOf(d, seen) ELSE rid[d]]
      /\ sock' = [d \in Decisions |-> IF d \in Adopted THEN ident ELSE sock[d]]
      /\ status' = [d \in Decisions |->
           IF d \in Adopted THEN "queued" ELSE IF d \in Submitting THEN "selected" ELSE status[d]]
  BY DEF Resolve, IInv, TypeOK, EngineOK, WorkerOK
<1>2. Live' = Live
  BY <1>1 DEF Live, LiveOn, engineVars
<1>3. \A i, d : Names(i, d)' <=> Names(i, d)
  BY <1>1, <1>2 DEF Names, engineVars
<1>4. IdsOK'
  BY <1>1, <1>2 DEF IdInv, IdsOK, engineVars
<1>5. SeenOK' /\ AckOK'
  BY <1>1 DEF SeenOK, AckOK
<1>6. ASSUME NEW d \in Manual, status'[d] = "queued", sock'[d] = epoch'
      PROVE  Names(rid[d], d)'
  <2>1. d \in Decisions
    BY DEF Decisions
  <2>2. CASE d \in Adopted
    <3>1. d \in Decs(seen) /\ ident = epoch /\ rid'[d] = RidOf(d, seen)
      BY <1>1, <1>6, <2>1, <2>2 DEF Adopted, engineVars
    <3>2. PICK r \in seen : r.dec = d /\ r.id = RidOf(d, seen)
      BY <3>1 DEF Decs, RidOf
    <3> QED
      BY <1>3, <3>1, <3>2 DEF IdInv, SeenOK
  <2>3. CASE d \notin Adopted
    BY <1>1, <1>3, <1>6, <2>1, <2>3 DEF IdInv, RowsOK, engineVars
  <2> QED
    BY <2>2, <2>3
<1> QED
  BY <1>4, <1>5, <1>6 DEF IdInv, RowsOK

(* A new engine: no id it will give out was stored under its identity.     *)
LEMMA StartIds == ASSUME IInv, IdInv, Live = {}, EngineStart PROVE IdInv'
<1>1. /\ epoch' = epoch + 1 /\ epoch \in Nat /\ ident' = ident /\ ident \in Nat
      /\ UNCHANGED <<dbVars, queue, onair, pc>>
  BY DEF EngineStart, IInv, TypeOK, EngineOK, WorkerOK, memVars
<1>2. Live' = {}
  BY <1>1 DEF Live, LiveOn
<1>3. \A d \in Decisions : sock'[d] <= epoch /\ sock[d] \in Nat
  BY <1>1 DEF IdInv, IdsOK, dbVars, IInv, TypeOK, DbOK
<1>4. IdsOK'
  BY <1>1, <1>2, <1>3 DEF IdInv, IdsOK, dbVars
<1>5. ident' # epoch'
  BY <1>1 DEF IdInv, IdsOK
<1>6. SeenOK' /\ AckOK'
  BY <1>5 DEF SeenOK, AckOK
<1>7. RowsOK'
  BY <1>1, <1>3 DEF RowsOK, Decisions, dbVars
<1> QED
  BY <1>4, <1>6, <1>7 DEF IdInv

(* A stopped engine holds nothing. *)
Stopped == ~up => Live = {}

LEMMA StoppedStep == IInv /\ Stopped /\ [Next]_vars => Stopped'
<1> SUFFICES ASSUME IInv, Stopped, [Next]_vars PROVE Stopped'
  OBVIOUS
<1> USE DEF Stopped
<1>1. ASSUME UNCHANGED <<up, queue, onair>> PROVE Stopped'
  BY <1>1 DEF Live, LiveOn
<1>2. ASSUME up, up' = up PROVE Stopped'
  BY <1>2
<1>3. CASE Push \/ PushUnanswered
  BY <1>2, <1>3 DEF Push, PushUnanswered, Accept
<1>4. ASSUME NEW d \in Decisions, Select(d) \/ Submit(d) PROVE Stopped'
  BY <1>1, <1>4 DEF Select, Submit, engineVars
<1>5. CASE PushRefused \/ AckNoSocket \/ Ack
  BY <1>1, <1>5 DEF PushRefused, AckNoSocket, Ack, engineVars
<1>6. CASE Record \/ Reconcile \/ Resolve
  BY <1>1, <1>6 DEF Record, Reconcile, Resolve, engineVars
<1>7. CASE Collect \/ Recorded \/ Inventory \/ TakeStock \/ Unavailable \/ ManualDone \/ FillDone
  BY <1>1, <1>7 DEF Collect, Recorded, Inventory, TakeStock, ReadEngine, Unavailable,
     ManualDone, FillDone, engineVars
<1>8. CASE RecordFault \/ AckFault \/ WorkerCrash \/ ReconcileCut
  BY <1>1, <1>8 DEF RecordFault, AckFault, WorkerCrash, ReconcileCut, engineVars
<1>9. CASE EngineStop
  BY <1>9, StopKeepsLive
<1>10. CASE EngineStart
  BY <1>10 DEF EngineStart
<1>11. ASSUME NEW b \in Buses, EngineNext(b) \/ EngineConfirm(b) \/ EngineEnd(b) PROVE Stopped'
  BY <1>2, <1>11 DEF EngineNext, EngineConfirm, EngineEnd
<1>12. ASSUME NEW d \in Decisions, WebQueue(d) \/ Refuse(d) \/ WindowCloses(d) PROVE Stopped'
  BY <1>1, <1>12 DEF WebQueue, Refuse, WindowCloses, engineVars
<1>13. CASE UNCHANGED vars
  BY <1>1, <1>13 DEF vars, engineVars
<1> QED
  BY <1>3, <1>4, <1>5, <1>6, <1>7, <1>8, <1>9, <1>10, <1>11, <1>12, <1>13
     DEF Next, Worker, Engine, Faults, Manually, Refill, Handoff

LEMMA SameLive == ASSUME UNCHANGED engineVars PROVE EngineKept
<1>1. Live' = Live
  BY DEF Live, LiveOn, engineVars
<1> QED
  BY <1>1 DEF EngineKept, engineVars

LEMMA IdStep ==
  ASSUME IInv, IdInv, LoopOK, Stopped, [Next]_vars
  PROVE  IdInv'
<1>1. /\ status \in [Decisions -> Statuses] /\ sock \in [Decisions -> Nat] /\ Manual \subseteq Decisions
      /\ epoch \in Nat /\ EngineOK
      /\ \A d \in Decisions : sock[d] <= epoch
  BY DEF IInv, TypeOK, DbOK, EngineOK, IdInv, IdsOK, Decisions
<1>2. ASSUME UNCHANGED dbVars PROVE RowsKept
  BY <1>1, <1>2 DEF RowsKept, dbVars
<1>3. ASSUME UNCHANGED memVars PROVE SightKept
  BY <1>3 DEF SightKept, memVars
<1>4. ASSUME AbortTick PROVE SightKept
  BY <1>4 DEF SightKept, AbortTick
<1>5. CASE Push \/ PushUnanswered
  <2>1. UNCHANGED <<rid, sock, seen, ident>> /\ pc = "push" /\ Accept(cur)
    BY <1>5 DEF Push, PushUnanswered, PushError, dbVars
  <2>2. \A d \in Manual : status'[d] = "queued" => status[d] = "queued"
    BY <1>1, <1>5 DEF Push, PushUnanswered, PushError, dbVars
  <2>3. pc' = "ack" => got' = nextRid /\ cur' = cur /\ phase' = phase
    BY <1>5 DEF Push, PushUnanswered, PushError
  <2> QED
    BY <2>1, <2>2, <2>3, PushIds
<1>6. CASE PushRefused \/ AckNoSocket
  <2>1. EngineKept
    BY <1>6, SameLive DEF PushRefused, AckNoSocket
  <2>2. RowsKept
    BY <1>1, <1>6 DEF PushRefused, AckNoSocket, PushError, RowsKept
  <2>3. SightKept
    BY <1>6 DEF PushRefused, AckNoSocket, PushError, SightKept
  <2> QED
    BY <2>1, <2>2, <2>3, KeepsIds
<1>7. CASE Ack
  BY <1>7, AckIds
<1>8. CASE Resolve
  BY <1>8, ResolveIds
<1>9. CASE Inventory \/ TakeStock
  BY <1>9, SightIds
<1>10. CASE EngineStart
  BY <1>10, StartIds DEF EngineStart, Stopped
<1>11. CASE Record
  <2>1. EngineKept
    BY <1>11, SameLive DEF Record
  <2>2. RowsKept
    BY <1>1, <1>11 DEF Record, Started, dbVars, RowsKept
  <2>3. SightKept
    BY <1>11 DEF Record, AbortTick, SightKept
  <2> QED
    BY <2>1, <2>2, <2>3, KeepsIds
<1>12. CASE Reconcile \/ ReconcileCut
  <2> PICK lost \in {Severed \cup Vanished, {}} : Judged(lost)
    BY <1>12, BothJudge DEF Judges
  <2>0. ident' = 0 /\ seen' = {} /\ pc' \in {"stock", "fill", "collect"} /\ UNCHANGED engineVars
    BY <1>12, BothJudge DEF Judges
  <2>1. EngineKept
    BY <2>0, SameLive
  <2>2. FoundLeader \cap Manual = {}
    BY DEF FoundLeader, Untracked
  <2>3. \A d \in Decisions : sock'[d] <= epoch
    BY <1>1 DEF Judged, IdInv, IdsOK
  <2>4. \A d \in Manual : status'[d] = "queued" =>
           status[d] = "queued" /\ rid'[d] = rid[d] /\ sock'[d] = sock[d]
    BY <1>1, <2>2 DEF Judged
  <2>5. SightKept
    BY <2>0 DEF SightKept
  <2> QED
    BY <2>1, <2>3, <2>4, <2>5, KeepsIds DEF RowsKept
<1>13. ASSUME NEW d \in Decisions, WebQueue(d) \/ Refuse(d) PROVE IdInv'
  <2>1. EngineKept /\ SightKept
    BY <1>3, <1>13, SameLive DEF WebQueue, Refuse
  <2>2. RowsKept
    BY <1>1, <1>13 DEF WebQueue, Refuse, RowsKept
  <2> QED
    BY <2>1, <2>2, KeepsIds
<1>14. ASSUME NEW d \in Decisions, Select(d) \/ Submit(d) PROVE IdInv'
  <2>1. EngineKept
    BY <1>14, SameLive DEF Select, Submit
  <2>2. RowsKept
    BY <1>1, <1>14 DEF Select, Submit, RowsKept
  <2>3. SightKept
    BY <1>14 DEF Select, Submit, SightKept
  <2> QED
    BY <2>1, <2>2, <2>3, KeepsIds
<1>15. CASE Collect \/ Recorded \/ Unavailable \/ ManualDone \/ FillDone
  <2>1. EngineKept /\ RowsKept
    BY <1>2, <1>15, SameLive DEF Collect, Recorded, Unavailable, ManualDone, FillDone
  <2>2. SightKept
    <3>1. CASE Unavailable
      BY <1>4, <3>1 DEF Unavailable
    <3>2. CASE ManualDone
      BY <3>2 DEF ManualDone, SightKept
    <3> QED
      BY <1>15, <3>1, <3>2 DEF Collect, Recorded, FillDone, SightKept
  <2> QED
    BY <2>1, <2>2, KeepsIds
<1>16. CASE RecordFault \/ AckFault \/ WorkerCrash
  <2>1. EngineKept /\ RowsKept /\ SightKept
    BY <1>2, <1>4, <1>16, SameLive DEF RecordFault, AckFault, WorkerCrash
  <2> QED
    BY <2>1, KeepsIds
<1>17. CASE EngineStop
  <2>1. EngineKept
    BY <1>17, StopKeepsLive DEF EngineStop, EngineKept
  <2>2. RowsKept /\ SightKept
    BY <1>2, <1>3, <1>17 DEF EngineStop
  <2> QED
    BY <2>1, <2>2, KeepsIds
<1>18. ASSUME NEW b \in Buses, EngineNext(b) \/ EngineConfirm(b) \/ EngineEnd(b) PROVE IdInv'
  <2>1. Live' \subseteq Live
    <3>1. CASE EngineConfirm(b)
      BY <3>1 DEF EngineConfirm, Live, LiveOn
    <3> QED
      BY <1>1, <1>18, <3>1, NextShrinks, EndShrinks DEF Live
  <2>2. EngineKept
    BY <1>18, <2>1 DEF EngineNext, EngineConfirm, EngineEnd, EngineKept
  <2>3. RowsKept /\ SightKept
    BY <1>2, <1>3, <1>18 DEF EngineNext, EngineConfirm, EngineEnd
  <2> QED
    BY <2>2, <2>3, KeepsIds
<1>19. ASSUME NEW d \in Decisions, WindowCloses(d) PROVE IdInv'
  <2>1. EngineKept /\ RowsKept
    BY <1>2, <1>19, SameLive DEF WindowCloses
  <2>2. SightKept
    BY <1>19 DEF WindowCloses, SightKept
  <2> QED
    BY <2>1, <2>2, KeepsIds
<1>20. CASE UNCHANGED vars
  <2>1. EngineKept /\ RowsKept /\ SightKept
    BY <1>2, <1>3, <1>20, SameLive DEF vars
  <2> QED
    BY <2>1, KeepsIds
<1> QED
  BY <1>5, <1>6, <1>7, <1>8, <1>9, <1>10, <1>11, <1>12, <1>13, <1>14, <1>15, <1>16, <1>17, <1>18,
     <1>19, <1>20 DEF Next, Worker, Engine, Faults, Manually, Refill, Handoff

LEMMA InitIds == ASSUME Init PROVE IdInv /\ LoopOK /\ Stopped
<1>1. ASSUME NEW b \in Buses PROVE LiveOn(b) = {}
  BY EmptyElements DEF Init, LiveOn
<1>2. Live = {}
  BY <1>1 DEF Live
<1>3. \A d \in Decisions : sock[d] = 0 /\ status[d] = "none"
  BY DEF Init
<1>4. ident = 0 /\ epoch = 1 /\ seen = {} /\ pc = "collect"
  BY DEF Init
<1> QED
  BY <1>2, <1>3, <1>4 DEF IdInv, IdsOK, SeenOK, AckOK, RowsOK, LoopOK, Stopped, Decisions

(* A request id stored for a person's row under the identity of the        *)
(* running engine names the request made for that row, though every engine *)
(* numbers its requests from 1.                                            *)
THEOREM StoredIdsIdentify == Spec => []ManualIdentifies
<1>1. Init => IdInv /\ LoopOK /\ Stopped
  BY InitIds
<1>2. IInv /\ IdInv /\ LoopOK /\ Stopped /\ [Next]_vars => IdInv' /\ LoopOK' /\ Stopped'
  BY IdStep, LoopStep, StoppedStep
<1>3. IdInv => ManualIdentifies
  BY DEF IdInv, RowsOK, Names, ManualIdentifies
<1> QED
  BY <1>1, <1>2, <1>3, Invariance, PTL DEF Spec

----------------------------------------------------------------------------
(* What the engine holds, against what the rows and the worker believe.    *)
Gone == log = <<>> /\ Live = {}

Untouched ==     \* a row that is still new reached no engine
  \A d \in Decisions : status[d] = "none" => d \notin Decs(Live) /\ d \notin told /\ rid[d] = 0
LoopsApart ==
  /\ pc \in {"push", "ack"} /\ phase = "manual" => cur \in Manual /\ status[cur] = "submitting"
  /\ pc \in {"push", "ack"} /\ phase = "refill" => cur \in Automatic
ReadyAway ==     \* what may be pushed is not in the engine
  /\ \A d \in Manual \ Side : status[d] = "selected" => d \notin Decs(Live)
  /\ pc = "push" => cur \notin Decs(Live)
OneRequest == \A r, s \in Live : r.dec = s.dec => r = s
OnBus == \A b \in Buses : \A r \in LiveOn(b) : Bus(r.dec) = b
OneSeen == \A r, s \in seen : r.dec = s.dec => r = s
SightOK ==       \* nothing entered the engine since the inventory was read
  pc \in {"reconcile", "resolve"} =>
    /\ \A r \in Live : r \in seen \/ (~complete /\ r.dec \notin Decs(seen) /\ r.dec \in Side)
    /\ ident # epoch => Gone
StoppedGone == ~up => Gone
AckNames == pc = "ack" => \A r \in Live : r.dec = cur => r.id = got
RowNames == \A d \in Decisions :
  status[d] = "queued" /\ sock[d] = epoch => \A r \in Live : r.dec = d => r.id = rid[d]

HeldInv == /\ Untouched /\ LoopsApart /\ ReadyAway /\ OneRequest /\ OnBus /\ OneSeen /\ SightOK
           /\ StoppedGone /\ AckNames /\ RowNames

(* A step under which the engine takes nothing, no push begins, no row     *)
(* becomes queued and no inventory is read.                                *)
EngineLoses ==
  /\ \A b \in Buses : LiveOn(b)' \subseteq LiveOn(b)
  /\ told' \subseteq told \cup Decs(Live)
  /\ Gone' \/ (UNCHANGED <<up, epoch>> /\ (Gone => Gone'))
NoneQueued ==
  \A d \in Decisions :
    /\ status'[d] = "none" => status[d] = "none" /\ rid'[d] = rid[d]
    /\ status'[d] = "selected" /\ d \in Manual \ Side => status[d] \in {"none", "selected"}
    /\ status'[d] = "queued" => status[d] = "queued" /\ rid'[d] = rid[d] /\ sock'[d] = sock[d]
NonePushed ==
  /\ pc' \in {"push", "ack"} => UNCHANGED <<pc, cur, got, phase>> /\ status'[cur] = status[cur]
  /\ pc' \in {"reconcile", "resolve"} => UNCHANGED <<pc, seen, ident, complete>>
  /\ seen' = {} \/ seen' = seen

LEMMA LosesLive == ASSUME EngineLoses PROVE Live' \subseteq Live
BY DEF EngineLoses, Live

LEMMA KeepsHeld ==
  ASSUME HeldInv, EngineLoses, NoneQueued, NonePushed
  PROVE  HeldInv'
<1> USE LosesLive
<1>1. Decs(Live)' \subseteq Decs(Live)
  BY DEF Decs
<1>2. Untouched' /\ LoopsApart'
  BY <1>1 DEF HeldInv, Untouched, LoopsApart, NoneQueued, NonePushed, EngineLoses
<1>3. ReadyAway'
  BY <1>1 DEF HeldInv, Untouched, ReadyAway, NoneQueued, NonePushed, Decisions
<1>4. OneRequest' /\ OnBus' /\ OneSeen'
  BY DEF HeldInv, OneRequest, OnBus, OneSeen, EngineLoses, NonePushed
<1>5. SightOK' /\ StoppedGone'
  <2>1. CASE Gone'
    BY <2>1 DEF SightOK, StoppedGone, Gone
  <2>2. CASE UNCHANGED <<up, epoch>> /\ (Gone => Gone')
    BY <2>2 DEF HeldInv, SightOK, StoppedGone, NonePushed
  <2> QED
    BY <2>1, <2>2 DEF EngineLoses
<1>6. AckNames'
  BY DEF HeldInv, AckNames, NonePushed
<1>7. RowNames'
  <2>1. CASE Gone'
    BY <2>1 DEF RowNames, Gone
  <2>2. CASE UNCHANGED epoch
    BY <2>2 DEF HeldInv, RowNames, NoneQueued
  <2> QED
    BY <2>1, <2>2 DEF EngineLoses
<1> QED
  BY <1>2, <1>3, <1>4, <1>5, <1>6, <1>7 DEF HeldInv

(* The engine's own moves. *)
LEMMA EngineMoves ==
  ASSUME IInv, HeldInv,
         EngineStop \/ EngineStart \/ \E b \in Buses : EngineNext(b) \/ EngineConfirm(b) \/ EngineEnd(b)
  PROVE  EngineLoses
<1>1. EngineOK /\ \A b \in Buses : onair[b] \in LiveOn(b) \/ onair[b] = NoRequest
  BY DEF IInv, TypeOK, LiveOn
<1>2. CASE EngineStop
  <2>1. ASSUME NEW b \in Buses PROVE LiveOn(b)' = {}
    <3>1. queue'[b] = <<>> /\ onair'[b] = NoRequest
      BY <1>2, <2>1 DEF EngineStop
    <3> QED
      BY <3>1, EmptyElements DEF LiveOn
  <2>2. Live' = {} /\ log' = <<>> /\ told' = told
    BY <1>2, <2>1 DEF Live, EngineStop, history
  <2> QED
    BY <2>1, <2>2 DEF EngineLoses, Gone
<1>3. CASE EngineStart
  <2>1. UNCHANGED <<queue, onair, log, told>> /\ ~up
    BY <1>3 DEF EngineStart, history
  <2>2. \A b \in Buses : LiveOn(b)' = LiveOn(b)
    BY <2>1 DEF LiveOn
  <2>3. Gone'
    BY <2>1, <2>2 DEF HeldInv, StoppedGone, Gone, Live
  <2> QED
    BY <2>1, <2>2, <2>3 DEF EngineLoses
<1>4. ASSUME NEW b \in Buses, EngineNext(b) \/ EngineEnd(b) PROVE EngineLoses
  <2>1. \A c \in Buses : LiveOn(c)' \subseteq LiveOn(c)
    BY <1>1, <1>4, NextShrinks, EndShrinks
  <2>2. UNCHANGED <<up, epoch, log, told>>
    BY <1>4 DEF EngineNext, EngineEnd, history
  <2>3. Gone => Gone'
    BY <2>1, <2>2 DEF Gone, Live
  <2> QED
    BY <2>1, <2>2, <2>3 DEF EngineLoses
<1>5. ASSUME NEW b \in Buses, EngineConfirm(b) PROVE EngineLoses
  <2>1. UNCHANGED <<up, epoch, queue, onair>> /\ onair[b] # NoRequest /\ told' = told \cup {onair[b].dec}
    BY <1>5 DEF EngineConfirm
  <2>2. \A c \in Buses : LiveOn(c)' = LiveOn(c)
    BY <2>1 DEF LiveOn
  <2>3. onair[b] \in Live
    BY <1>1, <2>1 DEF Live
  <2> QED
    BY <2>1, <2>2, <2>3 DEF EngineLoses, Decs, Gone
<1> QED
  BY <1>2, <1>3, <1>4, <1>5

(* A push enters the engine on its bus, beside no request of its decision. *)
LEMMA AcceptHolds ==
  ASSUME EngineOK, NEW d \in Decisions, Accept(d)
  PROVE  \A b \in Buses : \A r \in LiveOn(b)' :
           r \in LiveOn(b) \/ (b = Bus(d) /\ r = [id |-> nextRid, dec |-> d])
<1> DEFINE new == [id |-> nextRid, dec |-> d]
<1>1. /\ Bus(d) \in Buses /\ new \in Request /\ queue \in [Buses -> Seq(Request)]
      /\ queue' = [queue EXCEPT ![Bus(d)] = Append(queue[Bus(d)], new)] /\ onair' = onair
  BY DEF EngineOK, Bus, Buses, Request, Accept
<1>2. queue[Bus(d)] \in Seq(Request)
  BY <1>1
<1>3. Elements(Append(queue[Bus(d)], new)) = Elements(queue[Bus(d)]) \cup {new}
  BY <1>1, <1>2, ElementsOfAppend
<1>4. ASSUME NEW c \in Buses PROVE LiveOn(c)' \subseteq LiveOn(c) \cup (IF c = Bus(d) THEN {new} ELSE {})
  <2>1. CASE c = Bus(d)
    <3>1. queue'[c] = Append(queue[Bus(d)], new)
      BY <1>1, <2>1
    <3> QED
      BY <1>1, <1>3, <2>1, <3>1 DEF LiveOn
  <2>2. CASE c # Bus(d)
    <3>1. queue'[c] = queue[c]
      BY <1>1, <2>2
    <3> QED
      BY <1>1, <2>2, <3>1 DEF LiveOn
  <2> QED
    BY <2>1, <2>2
<1> QED
  BY <1>4

LEMMA PushHolds ==
  ASSUME IInv, IdInv, HeldInv, pc = "push", up, Accept(cur), UNCHANGED <<rid, sock, seen>>,
         pc' \notin {"push", "reconcile", "resolve"},
         pc' = "ack" => got' = nextRid /\ UNCHANGED <<status, cur, phase>>,
         \A d \in Decisions : status'[d] = status[d] \/ (d = cur /\ status'[d] = "failed")
  PROVE  HeldInv'
<1> DEFINE new == [id |-> nextRid, dec |-> cur]
<1>1. /\ cur \in Decisions /\ status[cur] \in {"selected", "submitting"} /\ EngineOK /\ Live \subseteq Request
      /\ cur \notin Decs(Live) /\ new.id = nextRid /\ new.dec = cur
      /\ UNCHANGED <<up, epoch, told>>
  BY LiveType DEF IInv, CurPending, TypeOK, HeldInv, ReadyAway, Accept
<1>2. /\ \A b \in Buses : \A r \in LiveOn(b)' : r \in LiveOn(b) \/ (b = Bus(cur) /\ r = new)
      /\ Live' \subseteq Live \cup {new}
  BY <1>1, AcceptHolds, AcceptAddsOne
<1>3. \A r \in Live : r.dec # cur
  BY <1>1 DEF Decs
<1> HIDE DEF new
<1>4. \A d \in Decisions : d # cur /\ d \notin Decs(Live) => d \notin Decs(Live)'
  BY <1>1, <1>2 DEF Decs
<1>5. Untouched' /\ LoopsApart'
  BY <1>1, <1>4 DEF HeldInv, Untouched, LoopsApart
<1>6. ReadyAway'
  <2> SUFFICES ASSUME NEW d \in Manual \ Side, status'[d] = "selected" PROVE d \notin Decs(Live)'
    BY DEF ReadyAway
  <2>1. d \in Decisions /\ status[d] = "selected"
    BY <1>1 DEF Decisions
  <2>2. d # cur
    <3>1. phase \in {"manual", "refill"}
      BY DEF IInv, TypeOK, WorkerOK
    <3>2. cur \in Automatic => cur \notin Manual
      BY DEF Automatic
    <3> QED
      BY <2>1, <3>1, <3>2 DEF HeldInv, LoopsApart
  <2> QED
    BY <1>4, <2>1, <2>2 DEF HeldInv, ReadyAway
<1>7. OneRequest'
  BY <1>1, <1>2, <1>3 DEF HeldInv, OneRequest
<1>8. OnBus'
  BY <1>1, <1>2 DEF HeldInv, OnBus, Bus
<1>9. OneSeen' /\ SightOK' /\ StoppedGone'
  BY <1>1 DEF HeldInv, OneSeen, SightOK, StoppedGone
<1>10. AckNames'
  BY <1>1, <1>2, <1>3 DEF AckNames
<1>11. RowNames'
  <2> SUFFICES ASSUME NEW d \in Decisions, status'[d] = "queued", sock'[d] = epoch', NEW q \in Live', q.dec = d
               PROVE  q.id = rid'[d]
    BY DEF RowNames
  <2>1. status[d] = "queued" /\ sock[d] = epoch /\ d # cur
    BY <1>1
  <2>2. q \in Live
    BY <1>1, <1>2, <2>1
  <2> QED
    BY <2>1, <2>2 DEF HeldInv, RowNames
<1> QED
  BY <1>5, <1>6, <1>7, <1>8, <1>9, <1>10, <1>11 DEF HeldInv

(* An inventory sees all that is held; without its answer, all but a side. *)
LEMMA SightHolds == ASSUME IInv, HeldInv, Inventory \/ TakeStock PROVE HeldInv'
<1>1. /\ ident' = epoch /\ UNCHANGED <<dbVars, engineVars, told>> /\ pc' \in {"reconcile", "resolve"} /\ up
      /\ \/ seen' = Live /\ complete' = TRUE
         \/ seen' = LiveOn("program") /\ complete' = FALSE
  BY DEF Inventory, TakeStock, ReadEngine, history
<1>2. Live' = Live /\ \A b \in Buses : LiveOn(b)' = LiveOn(b)
  BY <1>1 DEF Live, LiveOn, engineVars
<1>3. Decs(Live)' = Decs(Live)
  BY <1>2 DEF Decs
<1>4. Untouched' /\ LoopsApart' /\ ReadyAway' /\ OneRequest' /\ OnBus' /\ StoppedGone' /\ AckNames' /\ RowNames'
  BY <1>1, <1>2, <1>3 DEF HeldInv, Untouched, LoopsApart, ReadyAway, OneRequest, OnBus, StoppedGone, AckNames,
     RowNames, Gone, dbVars, engineVars
<1>5. seen' \subseteq Live
  BY <1>1 DEF Live, Buses
<1>6. OneSeen'
  BY <1>5 DEF HeldInv, OneRequest, OneSeen
<1>7. SightOK'
  <2>1. CASE complete'
    BY <1>1, <1>2, <2>1 DEF SightOK, engineVars
  <2>2. CASE ~complete'
    <3>1. \A r \in Live : r \in LiveOn("program") \/ r \in LiveOn("side")
      BY DEF Live, Buses
    <3>2. /\ \A r \in LiveOn("program") : r.dec \notin Side
          /\ \A r \in LiveOn("side") : r.dec \in Side
      BY DEF HeldInv, OnBus, Bus, Buses
    <3>3. seen' = LiveOn("program")
      BY <1>1, <2>2
    <3>4. ASSUME NEW r \in Live, r \notin seen' PROVE r.dec \notin Decs(seen)' /\ r.dec \in Side
      BY <3>1, <3>2, <3>3, <3>4 DEF Decs
    <3> QED
      BY <1>1, <1>2, <2>2, <3>4 DEF SightOK, engineVars
  <2> QED
    BY <2>1, <2>2
<1> QED
  BY <1>4, <1>6, <1>7 DEF HeldInv

(* A request found in the inventory is the one the engine holds.           *)
LEMMA FoundIsHeld ==
  ASSUME HeldInv, pc \in {"reconcile", "resolve"}, NEW d \in Decs(seen), NEW r \in Live, r.dec = d
  PROVE  r.id = RidOf(d, seen)
<1>1. r \in seen
  BY DEF HeldInv, SightOK
<1>2. \A s \in seen : s.dec = d => s = r
  BY <1>1 DEF HeldInv, OneSeen
<1>3. \E s \in seen : s.dec = d
  BY <1>1
<1> QED
  BY <1>2, <1>3 DEF RidOf

LEMMA ReconcileHolds == ASSUME IInv, HeldInv, Judges PROVE HeldInv'
<1> PICK lost \in {Severed \cup Vanished, {}} : Judged(lost)
  BY DEF Judges
<1>1. /\ status' = [d \in Decisions |->
             CASE d \in FoundLeader -> "queued"
               [] d \in ExpiredLeader \cup lost -> "failed"
               [] d \in LostLeader \ ExpiredLeader /\ status[d] = "failed" -> "selected"
               [] OTHER -> status[d]]
      /\ rid' = [d \in Decisions |-> IF d \in FoundLeader THEN RidOf(d, seen) ELSE rid[d]]
      /\ sock' = [d \in Decisions |-> IF d \in FoundLeader THEN ident ELSE sock[d]]
      /\ pc = "reconcile" /\ pc' \in {"stock", "fill", "collect"} /\ seen' = {}
      /\ UNCHANGED engineVars /\ UNCHANGED <<told>>
  BY DEF Judges, Judged, history
<1>2. Live' = Live /\ \A b \in Buses : LiveOn(b)' = LiveOn(b)
  BY <1>1 DEF Live, LiveOn, engineVars
<1>3. Decs(Live)' = Decs(Live)
  BY <1>2 DEF Decs
<1>4. FoundLeader \cup LostLeader \subseteq Leader /\ \A d \in FoundLeader : d \in Decs(seen)
  BY DEF FoundLeader, LostLeader, Untracked
<1>5. \A d \in Decisions :
        /\ status'[d] = "none" => status[d] = "none" /\ rid'[d] = rid[d]
        /\ status'[d] = "selected" => status[d] = "selected" \/ d \in Leader
        /\ status'[d] = "queued" /\ d \notin FoundLeader => status[d] = "queued" /\ rid'[d] = rid[d] /\ sock'[d] = sock[d]
        /\ d \in FoundLeader => rid'[d] = RidOf(d, seen) /\ sock'[d] = ident
  BY <1>1, <1>4
<1>6. Untouched' /\ LoopsApart' /\ OneRequest' /\ OnBus' /\ OneSeen' /\ SightOK' /\ StoppedGone' /\ AckNames'
  BY <1>1, <1>2, <1>3, <1>5 DEF HeldInv, Untouched, LoopsApart, OneRequest, OnBus, OneSeen, SightOK, StoppedGone,
     AckNames, Gone, engineVars
<1>7. ReadyAway'
  <2>1. \A d \in Manual \ Side : d \in Decisions /\ d \notin Leader
    BY DEF Decisions
  <2>2. \A d \in Manual \ Side : status'[d] = "selected" => d \notin Decs(Live)'
    BY <1>3, <1>5, <2>1 DEF HeldInv, ReadyAway
  <2> QED
    BY <1>1, <2>2 DEF ReadyAway
<1>8. RowNames'
  <2> SUFFICES ASSUME NEW d \in Decisions, status'[d] = "queued", sock'[d] = epoch', NEW q \in Live', q.dec = d
               PROVE  q.id = rid'[d]
    BY DEF RowNames
  <2>1. CASE d \in FoundLeader
    BY <1>1, <1>2, <1>4, <1>5, <2>1, FoundIsHeld
  <2>2. CASE d \notin FoundLeader
    BY <1>1, <1>2, <1>5, <2>2 DEF HeldInv, RowNames, engineVars
  <2> QED
    BY <2>1, <2>2
<1> QED
  BY <1>6, <1>7, <1>8 DEF HeldInv

LEMMA ResolveHolds == ASSUME IInv, HeldInv, Resolve PROVE HeldInv'
<1>1. /\ status' = [d \in Decisions |->
             IF d \in Adopted THEN "queued" ELSE IF d \in Submitting THEN "selected" ELSE status[d]]
      /\ rid' = [d \in Decisions |-> IF d \in Adopted THEN RidOf(d, seen) ELSE rid[d]]
      /\ sock' = [d \in Decisions |-> IF d \in Adopted THEN ident ELSE sock[d]]
      /\ pc = "resolve" /\ pc' = "manual" /\ seen' = {}
      /\ UNCHANGED engineVars /\ UNCHANGED <<told>>
  BY DEF Resolve, history
<1>2. Live' = Live /\ \A b \in Buses : LiveOn(b)' = LiveOn(b)
  BY <1>1 DEF Live, LiveOn, engineVars
<1>3. Decs(Live)' = Decs(Live)
  BY <1>2 DEF Decs
<1>4. \A d \in Decisions :
        /\ status'[d] = "none" => status[d] = "none" /\ rid'[d] = rid[d]
        /\ status'[d] = "selected" => status[d] = "selected" \/ d \notin Decs(seen)
        /\ status'[d] = "queued" /\ d \notin Adopted => status[d] = "queued" /\ rid'[d] = rid[d] /\ sock'[d] = sock[d]
        /\ d \in Adopted => rid'[d] = RidOf(d, seen) /\ d \in Decs(seen)
  BY <1>1 DEF Adopted, Submitting
<1>5. Untouched' /\ LoopsApart' /\ OneRequest' /\ OnBus' /\ OneSeen' /\ SightOK' /\ StoppedGone' /\ AckNames'
  BY <1>1, <1>2, <1>3, <1>4 DEF HeldInv, Untouched, LoopsApart, OneRequest, OnBus, OneSeen, SightOK, StoppedGone,
     AckNames, Gone, engineVars
<1>6. ReadyAway'
  <2> SUFFICES ASSUME NEW d \in Manual \ Side, status'[d] = "selected", NEW q \in Live, q.dec = d PROVE FALSE
    BY <1>1, <1>2 DEF ReadyAway, Decs
  <2>1. d \in Decisions /\ q \notin seen
    BY <1>4 DEF Decisions, HeldInv, ReadyAway, Decs
  <2> QED
    BY <1>1, <2>1 DEF HeldInv, SightOK
<1>7. RowNames'
  <2> SUFFICES ASSUME NEW d \in Decisions, status'[d] = "queued", sock'[d] = epoch', NEW q \in Live', q.dec = d
               PROVE  q.id = rid'[d]
    BY DEF RowNames
  <2>1. CASE d \in Adopted
    BY <1>1, <1>2, <1>4, <2>1, FoundIsHeld
  <2>2. CASE d \notin Adopted
    BY <1>1, <1>2, <1>4, <2>2 DEF HeldInv, RowNames, engineVars
  <2> QED
    BY <2>1, <2>2
<1> QED
  BY <1>5, <1>6, <1>7 DEF HeldInv

LEMMA AckHolds == ASSUME IInv, HeldInv, Ack PROVE HeldInv'
<1>1. /\ pc = "ack" /\ pc' \in {"manual", "fill"} /\ cur \in Decisions /\ UNCHANGED <<engineVars, told, seen>>
      /\ status' = [status EXCEPT ![cur] = "queued"] /\ rid' = [rid EXCEPT ![cur] = got]
      /\ sock' = [sock EXCEPT ![cur] = AckIdentity]
  BY DEF Ack, IInv, CurPending, history
<1>2. status \in [Decisions -> Statuses] /\ rid \in [Decisions -> Nat] /\ sock \in [Decisions -> Nat]
  BY DEF IInv, TypeOK, DbOK
<1>3. Live' = Live /\ \A b \in Buses : LiveOn(b)' = LiveOn(b)
  BY <1>1 DEF Live, LiveOn, engineVars
<1>4. Decs(Live)' = Decs(Live)
  BY <1>3 DEF Decs
<1>5. \A d \in Decisions :
        /\ d # cur => status'[d] = status[d] /\ rid'[d] = rid[d] /\ sock'[d] = sock[d]
        /\ d = cur => status'[d] = "queued" /\ rid'[d] = got
  BY <1>1, <1>2
<1>6. Untouched' /\ LoopsApart' /\ OneRequest' /\ OnBus' /\ OneSeen' /\ SightOK' /\ StoppedGone' /\ AckNames'
  BY <1>1, <1>3, <1>4, <1>5 DEF HeldInv, Untouched, LoopsApart, OneRequest, OnBus, OneSeen, SightOK, StoppedGone,
     AckNames, Gone, engineVars
<1>7. ReadyAway' /\ RowNames'
  BY <1>1, <1>3, <1>4, <1>5 DEF HeldInv, ReadyAway, AckNames, RowNames, Decisions, engineVars
<1> QED
  BY <1>6, <1>7 DEF HeldInv

(* A push begins on what is not in the engine. *)
LEMMA BeginHolds ==
  ASSUME IInv, HeldInv, NEW d \in Decisions, Submit(d) \/ Select(d)
  PROVE  HeldInv'
<1>1. /\ status[d] \in {"selected", "none"} /\ cur' = d /\ pc' = "push" /\ UNCHANGED <<rid, sock, engineVars, told, seen, phase>>
      /\ \A c \in Decisions : status'[c] = IF c = d THEN IF d \in Ready THEN "submitting" ELSE "selected" ELSE status[c]
  <2>1. status \in [Decisions -> Statuses]
    BY DEF IInv, TypeOK, DbOK
  <2> QED
    BY <2>1 DEF Submit, Select, Candidates, Ready, history
<1>2. Live' = Live /\ \A b \in Buses : LiveOn(b)' = LiveOn(b)
  BY <1>1 DEF Live, LiveOn, engineVars
<1>3. Decs(Live)' = Decs(Live)
  BY <1>2 DEF Decs
<1>4. d \notin Decs(Live)
  <2>1. CASE Select(d)
    BY <2>1 DEF Select, Candidates, HeldInv, Untouched
  <2>2. CASE Submit(d) /\ d \notin Side
    BY <2>2 DEF Submit, Ready, HeldInv, ReadyAway
  <2>3. CASE Submit(d) /\ d \in Side
    <3>1. LiveOn("side") = {}
      BY <2>3 DEF Submit, Free
    <3>2. \A r \in LiveOn("program") : r.dec # d
      BY <2>3 DEF HeldInv, OnBus, Bus, Buses
    <3> QED
      BY <3>1, <3>2 DEF Decs, Live, Buses
  <2> QED
    BY <2>1, <2>2, <2>3
<1>5. LoopsApart'
  <2>1. CASE Submit(d)
    <3>1. d \in Manual /\ d \in Ready /\ phase = "manual"
      BY <2>1 DEF Submit, Ready, IInv, PhaseOK
    <3> QED
      BY <1>1, <3>1 DEF LoopsApart
  <2>2. CASE Select(d)
    <3>1. d \in Automatic /\ phase = "refill"
      BY <2>2 DEF Select, Candidates, Automatic, IInv, PhaseOK
    <3> QED
      BY <1>1, <3>1 DEF LoopsApart
  <2> QED
    BY <2>1, <2>2
<1>6. Untouched' /\ OneRequest' /\ OnBus' /\ OneSeen' /\ SightOK' /\ StoppedGone' /\ AckNames' /\ RowNames'
  BY <1>1, <1>2, <1>3 DEF HeldInv, Untouched, OneRequest, OnBus, OneSeen, SightOK, StoppedGone, AckNames, RowNames,
     Gone, engineVars
<1>7. ReadyAway'
  BY <1>1, <1>3, <1>4 DEF HeldInv, ReadyAway, Decisions
<1> QED
  BY <1>5, <1>6, <1>7 DEF HeldInv

LEMMA EngineRests == ASSUME UNCHANGED <<engineVars, told>> PROVE EngineLoses
BY DEF EngineLoses, LiveOn, Gone, Live, engineVars

LEMMA HeldStep == ASSUME IInv, IdInv, HeldInv, [Next]_vars PROVE HeldInv'
<1>1. status \in [Decisions -> Statuses] /\ sock \in [Decisions -> Nat] /\ rid \in [Decisions -> Nat]
  BY DEF IInv, TypeOK, DbOK
<1>2. ASSUME UNCHANGED dbVars PROVE NoneQueued
  BY <1>2 DEF NoneQueued, dbVars
<1>3. ASSUME AbortTick PROVE NonePushed
  BY <1>3 DEF NonePushed, AbortTick
<1>4. ASSUME UNCHANGED <<memVars, dbVars>> PROVE NonePushed /\ NoneQueued
  BY <1>4 DEF NonePushed, NoneQueued, memVars, dbVars
<1>5. CASE Push \/ PushUnanswered
  <2>1. UNCHANGED <<rid, sock, seen>> /\ pc = "push" /\ up /\ Accept(cur) /\ pc' \notin {"push", "reconcile", "resolve"}
    BY <1>5 DEF Push, PushUnanswered, PushError, dbVars
  <2>2. pc' = "ack" => got' = nextRid /\ UNCHANGED <<status, cur, phase>>
    BY <1>5 DEF Push, PushUnanswered, PushError, dbVars
  <2>3. \A d \in Decisions : status'[d] = status[d] \/ (d = cur /\ status'[d] = "failed")
    BY <1>1, <1>5 DEF Push, PushUnanswered, PushError, dbVars
  <2> QED
    BY <2>1, <2>2, <2>3, PushHolds
<1>6. CASE PushRefused \/ AckNoSocket
  <2>1. EngineLoses
    BY <1>6, EngineRests DEF PushRefused, AckNoSocket, history
  <2>2. NoneQueued /\ NonePushed
    BY <1>1, <1>6 DEF PushRefused, AckNoSocket, PushError, NoneQueued, NonePushed
  <2> QED
    BY <2>1, <2>2, KeepsHeld
<1>7. CASE Ack \/ Resolve \/ Reconcile \/ ReconcileCut \/ Inventory \/ TakeStock
  BY <1>7, AckHolds, ResolveHolds, BothJudge, ReconcileHolds, SightHolds
<1>8. ASSUME NEW d \in Decisions, Submit(d) \/ Select(d) PROVE HeldInv'
  BY <1>8, BeginHolds
<1>9. ASSUME NEW d \in Decisions, WebQueue(d) \/ Refuse(d) \/ WindowCloses(d) PROVE HeldInv'
  <2>1. EngineLoses
    BY <1>9, EngineRests DEF WebQueue, Refuse, WindowCloses, history
  <2>2. NoneQueued
    BY <1>1, <1>9 DEF WebQueue, Refuse, WindowCloses, NoneQueued, dbVars
  <2>3. NonePushed
    BY <1>1, <1>9 DEF WebQueue, Refuse, WindowCloses, NonePushed, memVars, dbVars, IInv, CurPending
  <2> QED
    BY <2>1, <2>2, <2>3, KeepsHeld
<1>10. CASE Record
  <2>1. EngineLoses
    BY <1>10, EngineRests DEF Record, history
  <2>2. NoneQueued
    BY <1>1, <1>10 DEF Record, Started, dbVars, NoneQueued
  <2>3. NonePushed
    BY <1>3, <1>10 DEF Record, NonePushed
  <2> QED
    BY <2>1, <2>2, <2>3, KeepsHeld
<1>11. CASE Collect \/ Recorded \/ Unavailable \/ ManualDone \/ FillDone
  <2>1. EngineLoses
    BY <1>11, EngineRests DEF Collect, Recorded, Unavailable, ManualDone, FillDone, history
  <2>2. NoneQueued
    BY <1>2, <1>11 DEF Collect, Recorded, Unavailable, ManualDone, FillDone
  <2>3. NonePushed
    BY <1>3, <1>11 DEF Collect, Recorded, Unavailable, ManualDone, FillDone, NonePushed
  <2> QED
    BY <2>1, <2>2, <2>3, KeepsHeld
<1>12. CASE RecordFault \/ AckFault \/ WorkerCrash
  <2>1. EngineLoses
    BY <1>12, EngineRests DEF RecordFault, AckFault, WorkerCrash, history
  <2>2. NoneQueued /\ NonePushed
    BY <1>2, <1>3, <1>12 DEF RecordFault, AckFault, WorkerCrash
  <2> QED
    BY <2>1, <2>2, KeepsHeld
<1>13. CASE EngineStop \/ EngineStart \/ \E b \in Buses : EngineNext(b) \/ EngineConfirm(b) \/ EngineEnd(b)
  <2>1. EngineLoses
    BY <1>13, EngineMoves
  <2>2. UNCHANGED <<memVars, dbVars>>
    BY <1>13 DEF EngineStop, EngineStart, EngineNext, EngineConfirm, EngineEnd
  <2> QED
    BY <1>4, <2>1, <2>2, KeepsHeld
<1>14. CASE UNCHANGED vars
  <2>1. UNCHANGED <<memVars, dbVars, engineVars, told>>
    BY <1>14 DEF vars, history
  <2> QED
    BY <1>4, <2>1, EngineRests, KeepsHeld
<1> QED
  BY <1>5, <1>6, <1>7, <1>8, <1>9, <1>10, <1>11, <1>12, <1>13, <1>14
     DEF Next, Worker, Engine, Faults, Manually, Refill, Handoff

LEMMA InitHeldInv == Init => HeldInv
<1> SUFFICES ASSUME Init PROVE HeldInv
  OBVIOUS
<1>1. ASSUME NEW b \in Buses PROVE LiveOn(b) = {}
  BY EmptyElements DEF Init, LiveOn
<1>2. Live = {}
  BY <1>1 DEF Live
<1>3. /\ log = <<>> /\ told = {} /\ seen = {} /\ pc = "collect"
      /\ \A d \in Decisions : rid[d] = 0 /\ status[d] = "none"
  BY DEF Init
<1> QED
  BY <1>1, <1>2, <1>3 DEF HeldInv, Untouched, LoopsApart, ReadyAway, OneRequest, OnBus, OneSeen, SightOK, StoppedGone,
     AckNames, RowNames, Gone, Decs, Decisions

----------------------------------------------------------------------------
(* What the worker has still to read.  collect() reads at most a page a     *)
(* tick; a backlog of more than a page outlasts the confirmation window.    *)
KeepsUp == pc = "collect" => Len(log) <= From + Page

Away(d) == d \notin Decs(Live) /\ d \notin Elements(log) \ dropped
Unread  == {log[i] : i \in From + 1 .. Len(log)}

ReaderOK ==
  /\ reader.file <= epoch /\ (up /\ reader.file = epoch => reader.pos <= Len(log))
  /\ batch # <<>> => pc = "record"
LinesKept ==     \* a line is unread, in the batch, recorded or dropped
  \A d \in Elements(log) \ dropped : status[d] = "started" \/ d \in Elements(batch) \/ d \in Unread
Waited ==        \* a row whose window is open was absent from the engine
  \A d \in Decisions : missing[d] # "no" =>
    /\ d \notin Decs(Live) /\ status[d] # "none" /\ (pc \in {"push", "ack"} => cur # d)
    /\ d \in Manual => status[d] \notin {"selected", "submitting"}
ReadSince ==     \* and its lines have been read when the window is looked at
  pc \in {"record", "inventory", "reconcile"} => \A d \in Decisions : missing[d] # "no" => d \notin Unread
WrittenOff(d) == status[d] = "failed" /\ reason[d] = "request_not_started" /\ sock[d] = epoch
WrittenOffAway == \A d \in Decisions : WrittenOff(d) => Away(d)

LineInv == ReaderOK /\ LinesKept /\ Waited /\ ReadSince /\ WrittenOffAway

LEMMA GoneAway == ASSUME Gone PROVE \A d : Away(d)
BY EmptyElements DEF Gone, Away, Decs

LEMMA ReaderType ==
  ASSUME IInv
  PROVE  /\ From \in Nat /\ Len(log) \in Nat /\ epoch \in Nat \ {0} /\ log \in Seq(Decisions)
         /\ reader.pos \in Nat /\ reader.file \in Nat /\ batch \in Seq(Decisions)
BY DEF IInv, TypeOK, EngineOK, WorkerOK, From

LEMMA EmptyUnread ==
  /\ log = <<>> /\ (reader.file = epoch => reader.pos \in Nat) => Unread = {}
  /\ log' = <<>> /\ (reader'.file = epoch' => reader'.pos \in Nat) => Unread' = {}
<1>1. \A n \in Nat : n + 1 .. 0 = {}
  OBVIOUS
<1>2. Len(<<>>) = 0
  OBVIOUS
<1>3. ASSUME log = <<>>, reader.file = epoch => reader.pos \in Nat PROVE Unread = {}
  <2>1. (IF reader.file = epoch THEN reader.pos ELSE 0) \in Nat
    BY <1>3
  <2> QED
    BY <1>1, <1>2, <1>3, <2>1 DEF Unread, From
<1>4. ASSUME log' = <<>>, reader'.file = epoch' => reader'.pos \in Nat PROVE Unread' = {}
  <2>1. (IF reader'.file = epoch' THEN reader'.pos ELSE 0) \in Nat
    BY <1>4
  <2> QED
    BY <1>1, <1>2, <1>4, <2>1 DEF Unread, From
<1> QED
  BY <1>3, <1>4

(* A step of the worker that leaves the reader alone. *)
BatchKept ==
  /\ batch' # <<>> => pc' = "record"
  /\ Gone \/ \A d \in Elements(batch) : d \in Elements(batch') \/ d \in dropped' \/ status'[d] = "started"
WindowsKept ==
  /\ \A d \in Decisions : missing'[d] # "no" =>
       /\ missing[d] # "no"
       /\ d \in Manual /\ status'[d] \in {"selected", "submitting"} => status[d] \in {"selected", "submitting"}
  /\ pc' \in {"push", "ack"} => (pc \in {"push", "ack"} /\ cur' = cur) \/ missing[cur'] = "no"
  /\ pc' \in {"record", "inventory", "reconcile"} => pc \in {"record", "inventory", "reconcile"}
OffKept == \A d \in Decisions : WrittenOff(d)' => WrittenOff(d)

LEMMA KeepsLines ==
  ASSUME IInv, LineInv, RowMoves, UNCHANGED engineVars, reader' = reader, dropped \subseteq dropped',
         BatchKept, WindowsKept, OffKept
  PROVE  LineInv'
<1>1. Live' = Live /\ Decs(Live)' = Decs(Live) /\ Unread' = Unread /\ Elements(log') = Elements(log) /\ (Gone <=> Gone')
  BY DEF Live, LiveOn, Decs, Unread, From, Gone, Elements, engineVars
<1>2. \A d : Away(d) => Away(d)'
  BY <1>1 DEF Away
<1>3. ReaderOK'
  BY DEF LineInv, ReaderOK, BatchKept, engineVars
<1>4. LinesKept'
  <2>1. CASE Gone
    <3>1. Elements(log') = {}
      BY <1>1, <2>1, EmptyElements DEF Gone
    <3> QED
      BY <3>1 DEF LinesKept
  <2>2. CASE ~Gone
    <3>1. \A d \in Elements(log) : d \in Decisions
      BY ReaderType, ElementsType
    <3> QED
      BY <1>1, <2>2, <3>1 DEF LineInv, LinesKept, BatchKept, RowMoves
  <2> QED
    BY <2>1, <2>2
<1>5. Waited'
  BY <1>1 DEF LineInv, Waited, WindowsKept, RowMoves
<1>6. ReadSince'
  BY <1>1 DEF LineInv, ReadSince, WindowsKept
<1>7. WrittenOffAway'
  BY <1>2 DEF LineInv, WrittenOffAway, OffKept
<1> QED
  BY <1>3, <1>4, <1>5, <1>6, <1>7 DEF LineInv

(* The engine's own moves. *)
LEMMA GoneLines ==
  ASSUME IInv, LineInv, UNCHANGED <<memVars, dbVars>>, Gone', epoch' \in Nat, epoch' = epoch \/ epoch' = epoch + 1,
         up' => epoch' = epoch + 1
  PROVE  LineInv'
<1>1. \A d : Away(d)'
  BY EmptyElements DEF Gone, Away, Decs
<1>2. From' \in Nat /\ reader' = reader /\ reader.file \in Nat /\ epoch \in Nat
  BY ReaderType DEF From, memVars
<1>3. Unread' = {} /\ Elements(log') = {}
  <2>1. log' = <<>> /\ reader'.pos \in Nat
    BY <1>2, ReaderType DEF Gone
  <2>2. Unread' = {}
    BY <2>1, EmptyUnread
  <2> QED
    BY <2>1, <2>2, EmptyElements
<1>4. ReaderOK'
  BY <1>2 DEF LineInv, ReaderOK, memVars
<1>5. LinesKept' /\ ReadSince' /\ WrittenOffAway'
  BY <1>1, <1>3 DEF LinesKept, ReadSince, WrittenOffAway
<1>6. Waited'
  BY <1>1 DEF LineInv, Waited, Away, memVars, dbVars
<1> QED
  BY <1>4, <1>5, <1>6 DEF LineInv

LEMMA LosesLines ==
  ASSUME LineInv, UNCHANGED <<memVars, dbVars, up, epoch, log, dropped>>, Live' \subseteq Live
  PROVE  LineInv'
<1>1. Decs(Live)' \subseteq Decs(Live) /\ Unread' = Unread
  BY DEF Decs, Unread, From, memVars
<1>2. ReaderOK' /\ LinesKept' /\ ReadSince'
  BY <1>1 DEF LineInv, ReaderOK, LinesKept, ReadSince, memVars, dbVars
<1>3. Waited' /\ WrittenOffAway'
  BY <1>1 DEF LineInv, Waited, WrittenOffAway, WrittenOff, Away, memVars, dbVars
<1> QED
  BY <1>2, <1>3 DEF LineInv

LEMMA ConfirmLines ==
  ASSUME IInv, HeldInv, LineInv, NEW b \in Buses, EngineConfirm(b)
  PROVE  LineInv' /\ \A d \in Decisions : Away(d) => Away(d)'
<1> DEFINE x == onair[b].dec
<1>1. /\ UNCHANGED <<memVars, dbVars, up, epoch, queue, onair, dropped>> /\ up /\ log' = Append(log, x)
      /\ onair[b] \in LiveOn(b) /\ onair[b] \in Live /\ x \in Decisions
  BY DEF EngineConfirm, LiveOn, Live, IInv, TypeOK, EngineOK, Request
<1>2. Live' = Live /\ Decs(Live)' = Decs(Live) /\ x \in Decs(Live)
  BY <1>1 DEF Live, LiveOn, Decs
<1> HIDE DEF x
<1>3. /\ Elements(log') = Elements(log) \cup {x} /\ Len(log') = Len(log) + 1
      /\ \A i \in 1 .. Len(log) : log'[i] = log[i]
      /\ log'[Len(log) + 1] = x
  BY <1>1, ReaderType, ElementsOfAppend, AppendProperties
<1>4. From' = From /\ From \in Nat /\ From <= Len(log) /\ Len(log) \in Nat
  BY <1>1, ReaderType DEF From, LineInv, ReaderOK, memVars
<1>5. Unread' = Unread \cup {x}
  <2>1. From' + 1 .. Len(log') = (From + 1 .. Len(log)) \cup {Len(log) + 1}
    BY <1>3, <1>4
  <2>2. \A i \in From + 1 .. Len(log) : log'[i] = log[i]
    BY <1>3, <1>4
  <2> QED
    BY <1>3, <2>1, <2>2 DEF Unread
<1>6. \A d \in Decisions : Away(d) => Away(d)'
  BY <1>1, <1>2, <1>3 DEF Away
<1>7. ReaderOK'
  BY <1>1, <1>3, <1>4, ReaderType DEF LineInv, ReaderOK, memVars
<1>8. LinesKept'
  BY <1>1, <1>3, <1>5 DEF LineInv, LinesKept, memVars, dbVars
<1>9. Waited' /\ ReadSince'
  BY <1>1, <1>2, <1>5 DEF LineInv, Waited, ReadSince, memVars, dbVars
<1>10. WrittenOffAway'
  BY <1>1, <1>6 DEF LineInv, WrittenOffAway, WrittenOff, dbVars
<1> QED
  BY <1>6, <1>7, <1>8, <1>9, <1>10 DEF LineInv

LEMMA EngineLines ==
  ASSUME IInv, HeldInv, LineInv,
         EngineStop \/ EngineStart \/ \E b \in Buses : EngineNext(b) \/ EngineConfirm(b) \/ EngineEnd(b)
  PROVE  LineInv' /\ (\A d \in Decisions : Away(d) => Away(d)') /\ (epoch' = epoch \/ Gone')
<1>1. EngineOK /\ epoch \in Nat
  BY DEF IInv, TypeOK, EngineOK
<1>2. CASE EngineStop
  <2>1. Gone' /\ ~up' /\ epoch' = epoch /\ UNCHANGED <<memVars, dbVars>>
    BY <1>2, StopKeepsLive DEF EngineStop, Gone
  <2> QED
    BY <1>1, <2>1, GoneLines, EmptyElements DEF Gone, Away, Decs
<1>3. CASE EngineStart
  <2>1. UNCHANGED <<queue, onair, log, memVars, dbVars>> /\ ~up /\ epoch' = epoch + 1
    BY <1>3 DEF EngineStart
  <2>2. Gone'
    BY <2>1 DEF HeldInv, StoppedGone, Gone, Live, LiveOn
  <2> QED
    BY <1>1, <2>1, <2>2, GoneLines, EmptyElements DEF Gone, Away, Decs
<1>4. ASSUME NEW b \in Buses, EngineNext(b) \/ EngineEnd(b) PROVE LineInv' /\ \A d \in Decisions : Away(d) => Away(d)'
  <2>1. Live' \subseteq Live
    BY <1>1, <1>4, NextShrinks, EndShrinks DEF Live
  <2>2. UNCHANGED <<memVars, dbVars, up, epoch, log, dropped>>
    BY <1>4 DEF EngineNext, EngineEnd, history
  <2> QED
    BY <2>1, <2>2, LosesLines DEF Away, Decs
<1>5. ASSUME NEW b \in Buses, EngineConfirm(b) PROVE LineInv' /\ \A d \in Decisions : Away(d) => Away(d)'
  BY <1>5, ConfirmLines
<1>6. (\E b \in Buses : EngineNext(b) \/ EngineConfirm(b) \/ EngineEnd(b)) => epoch' = epoch
  BY DEF EngineNext, EngineConfirm, EngineEnd
<1>7. EngineStop \/ EngineStart => epoch' = epoch \/ Gone'
  BY <1>2, <1>3, StopKeepsLive DEF EngineStop, EngineStart, HeldInv, StoppedGone, Gone, Live, LiveOn
<1> QED
  BY <1>2, <1>3, <1>4, <1>5, <1>6, <1>7

(* collect(): what was unread is the batch. *)
LEMMA CollectLines == ASSUME IInv, LineInv, KeepsUp, Collect PROVE LineInv'
<1>1. /\ pc = "collect" /\ pc' = "record" /\ UNCHANGED <<dbVars, engineVars, missing, dropped, cur>>
      /\ batch = <<>> /\ Elements(batch) = {}
  BY EmptyElements DEF Collect, LineInv, ReaderOK, history
<1>2. /\ Live' = Live /\ Decs(Live)' = Decs(Live) /\ Elements(log') = Elements(log) /\ log' = log /\ epoch' = epoch
  BY <1>1 DEF Live, LiveOn, Decs, Elements, engineVars
<1>3. Unread' = {} /\ Unread \subseteq Elements(batch')
  <2>1. CASE log = <<>>
    <3>1. log' = <<>> /\ reader' = [file |-> 0, pos |-> 0]
      BY <1>2, <2>1 DEF Collect
    <3>2. Unread' = {}
      BY <3>1, EmptyUnread
    <3> QED
      BY <2>1, <3>2, ReaderType, EmptyUnread
  <2>2. CASE log # <<>>
    <3>1. reader' = [file |-> epoch, pos |-> To] /\ batch' = SubSeq(log, From + 1, To)
      BY <2>2 DEF Collect
    <3>2. To = Len(log) /\ From \in Nat /\ Len(log) \in Nat
      BY <1>1, ReaderType DEF To, KeepsUp
    <3>3. From' = Len(log)
      BY <1>2, <3>1, <3>2 DEF From
    <3>4. Unread' = {}
      BY <1>2, <3>2, <3>3 DEF Unread
    <3>5. /\ Len(batch') = IF From + 1 <= Len(log) THEN Len(log) - From ELSE 0
          /\ \A i \in 1 .. Len(log) - From : batch'[i] = log[i + From]
          /\ DOMAIN batch' = 1 .. Len(batch')
      <4>1. \A i \in From + 1 .. Len(log) : log[i] \in Decisions
        BY <3>2, ReaderType, ElementOfSeq
      <4> QED
        BY <3>1, <3>2, <4>1, SubSeqProperties
    <3>6. ASSUME NEW i \in From + 1 .. Len(log) PROVE log[i] \in Elements(batch')
      <4>1. i - From \in 1 .. Len(log) - From /\ i - From \in DOMAIN batch' /\ batch'[i - From] = log[i]
        BY <3>2, <3>5
      <4> QED
        BY <4>1 DEF Elements
    <3> QED
      BY <3>4, <3>6 DEF Unread
  <2> QED
    BY <2>1, <2>2
<1>4. ReaderOK'
  <2>1. CASE log = <<>>
    BY <1>1, <1>2, <2>1, ReaderType DEF Collect, ReaderOK
  <2>2. CASE log # <<>>
    BY <1>1, <1>2, <2>2, ReaderType DEF Collect, ReaderOK, To
  <2> QED
    BY <2>1, <2>2
<1>5. LinesKept'
  BY <1>1, <1>2, <1>3 DEF LineInv, LinesKept, dbVars
<1>6. Waited' /\ ReadSince'
  BY <1>1, <1>2, <1>3 DEF LineInv, Waited, ReadSince, dbVars
<1>7. WrittenOffAway'
  BY <1>1, <1>2 DEF LineInv, WrittenOffAway, WrittenOff, Away, dbVars
<1> QED
  BY <1>4, <1>5, <1>6, <1>7 DEF LineInv

(* A fresh worker reads the whole log again. *)
LEMMA CrashLines == ASSUME IInv, LineInv, WorkerCrash PROVE LineInv'
<1>1. /\ pc' = "collect" /\ batch' = <<>> /\ reader'.file = 0 /\ \A d \in Decisions : missing'[d] = "no"
      /\ UNCHANGED <<dbVars, engineVars, dropped>>
  BY DEF WorkerCrash, AbortTick, history
<1>2. /\ Live' = Live /\ Decs(Live)' = Decs(Live) /\ Elements(log') = Elements(log) /\ log' = log /\ epoch' = epoch
  BY <1>1 DEF Live, LiveOn, Decs, Elements, engineVars
<1>3. From' = 0 /\ Len(log) \in Nat
  BY <1>1, <1>2, ReaderType DEF From
<1>4. Unread' = Elements(log)
  BY <1>2, <1>3, ReaderType DEF Unread, Elements
<1>5. ReaderOK'
  BY <1>1, <1>2, ReaderType DEF ReaderOK
<1>6. LinesKept' /\ Waited' /\ ReadSince'
  BY <1>1, <1>2, <1>4 DEF LinesKept, Waited, ReadSince
<1>7. WrittenOffAway'
  BY <1>1, <1>2 DEF LineInv, WrittenOffAway, WrittenOff, Away, dbVars
<1> QED
  BY <1>5, <1>6, <1>7 DEF LineInv

(* What reconcile_requests finds absent is not in the engine; what it gives *)
(* up was not logged either, in so far as the log could be recorded.        *)
LEMMA LostIsAbsent ==
  ASSUME IInv, HeldInv, pc = "reconcile", complete,
         NEW d \in Decisions, d \in LostLeader \/ d \in Absent
  PROVE  d \notin Decs(Live)
<1> SUFFICES ASSUME NEW q \in Live, q.dec = d PROVE FALSE
  BY DEF Decs
<1>1. q \in seen
  BY DEF HeldInv, SightOK
<1>2. CASE d \in LostLeader
  BY <1>1, <1>2 DEF LostLeader, FoundLeader, Decs
<1>3. CASE d \in Absent
  <2>1. status[d] = "queued" /\ sock[d] = ident /\ rid[d] \notin Ids(seen)
    BY <1>3 DEF Absent, Severed, Queued
  <2>2. ident = epoch
    BY DEF HeldInv, SightOK, Gone
  <2>3. q.id = rid[d]
    BY <2>1, <2>2 DEF HeldInv, RowNames
  <2> QED
    BY <1>1, <2>1, <2>3 DEF Ids
<1> QED
  BY <1>2, <1>3

LEMMA GivenUpIsAway ==
  ASSUME IInv, HeldInv, LineInv, pc = "reconcile", NEW d \in Decisions, d \in Vanished \/ d \in ExpiredLeader
  PROVE  Away(d)
<1>1. /\ complete /\ missing[d] = "closed" /\ status[d] # "started"
      /\ d \in LostLeader \/ d \in Absent
  BY DEF Vanished, Absent, Queued, Severed, ExpiredLeader, LostLeader, Untracked
<1>2. d \notin Decs(Live)
  BY <1>1, LostIsAbsent
<1>3. d \notin Unread /\ d \notin Elements(batch)
  BY <1>1, EmptyElements DEF LineInv, ReadSince, ReaderOK
<1> QED
  BY <1>1, <1>2, <1>3 DEF LineInv, LinesKept, Away

(* What reconcile_requests does to a row of each kind. *)
LEMMA ReconcileRows ==
  ASSUME Judges, NEW d \in Decisions
  PROVE  /\ d \in FoundLeader => status'[d] = "queued" /\ sock'[d] = ident
         /\ d \in ExpiredLeader => status'[d] = "failed" /\ reason'[d] = "leader_request_not_submitted"
         /\ d \in LostLeader /\ d \notin ExpiredLeader /\ status[d] = "failed" => status'[d] = "selected"
         /\ d \in LostLeader => reason'[d] # "request_not_started" \/ status[d] # "failed"
         /\ d \in Severed => \/ status'[d] = "failed" /\ reason'[d] = "playout_restarted"
                             \/ status'[d] = status[d]
         /\ d \in Vanished => \/ status'[d] = "failed" /\ reason'[d] = "request_not_started"
                              \/ status'[d] = status[d]
         /\ d \in LostLeader /\ d \notin ExpiredLeader /\ status[d] # "failed" => status'[d] = status[d]
         /\ d \notin FoundLeader \cup LostLeader \cup Severed \cup Vanished => status'[d] = status[d] /\ reason'[d] = reason[d]
         /\ d \notin FoundLeader => rid'[d] = rid[d] /\ sock'[d] = sock[d]
<1> PICK lost \in {Severed \cup Vanished, {}} : Judged(lost)
  BY DEF Judges
<1>0. lost = Severed \cup Vanished \/ lost = {}
  OBVIOUS
<1>1. /\ ExpiredLeader \subseteq LostLeader /\ LostLeader \cap FoundLeader = {}
      /\ (LostLeader \cup FoundLeader) \cap (Severed \cup Vanished) = {} /\ Severed \cap Vanished = {}
  BY DEF ExpiredLeader, LostLeader, FoundLeader, Untracked, Severed, Vanished, Absent, Queued
<1>2. status'[d] = CASE d \in FoundLeader -> "queued"
                     [] d \in ExpiredLeader \cup lost -> "failed"
                     [] d \in LostLeader \ ExpiredLeader /\ status[d] = "failed" -> "selected"
                     [] OTHER -> status[d]
  BY DEF Judged
<1>3. reason'[d] = CASE d \in FoundLeader -> ""
                     [] d \in ExpiredLeader -> "leader_request_not_submitted"
                     [] d \in LostLeader \ ExpiredLeader /\ status[d] = "failed" -> "leader_submission_uncertain"
                     [] d \in lost \cap Severed -> "playout_restarted"
                     [] d \in lost \cap Vanished -> "request_not_started"
                     [] OTHER -> reason[d]
  BY DEF Judged
<1>4. rid'[d] = (IF d \in FoundLeader THEN RidOf(d, seen) ELSE rid[d]) /\ sock'[d] = IF d \in FoundLeader THEN ident ELSE sock[d]
  BY DEF Judged
<1>5. CASE d \in FoundLeader
  BY <1>0, <1>1, <1>2, <1>4, <1>5
<1>6. CASE d \in ExpiredLeader
  <2>1. d \in LostLeader /\ d \notin FoundLeader \cup Severed \cup Vanished
    BY <1>1, <1>6
  <2>2. status'[d] = "failed" /\ reason'[d] = "leader_request_not_submitted"
    BY <1>0, <1>2, <1>3, <1>6, <2>1
  <2> QED
    BY <1>4, <1>6, <2>1, <2>2
<1>7. CASE d \in LostLeader /\ d \notin ExpiredLeader
  <2>1. CASE status[d] = "failed"
    BY <1>0, <1>1, <1>2, <1>3, <1>4, <1>7, <2>1
  <2>2. CASE status[d] # "failed"
    BY <1>0, <1>1, <1>2, <1>4, <1>7, <2>2
  <2> QED
    BY <2>1, <2>2
<1>8. CASE d \in Severed
  BY <1>0, <1>1, <1>2, <1>3, <1>4, <1>8
<1>9. CASE d \in Vanished
  BY <1>0, <1>1, <1>2, <1>3, <1>4, <1>9
<1>10. CASE d \notin FoundLeader \cup LostLeader \cup Severed \cup Vanished
  BY <1>0, <1>1, <1>2, <1>3, <1>4, <1>10
<1> QED
  BY <1>5, <1>6, <1>7, <1>8, <1>9, <1>10

LEMMA ReconcileWritesOff == ASSUME IInv, HeldInv, LineInv, Judges PROVE WrittenOffAway'
<1>1. pc = "reconcile" /\ UNCHANGED <<engineVars, dropped>>
  BY DEF Judges, history
<1>3. /\ Live' = Live /\ Decs(Live)' = Decs(Live) /\ Elements(log') = Elements(log)
      /\ log' = log /\ epoch' = epoch
  BY <1>1 DEF Live, LiveOn, Decs, Elements, engineVars
<1> SUFFICES ASSUME NEW d \in Decisions, WrittenOff(d)' PROVE Away(d)
  BY <1>1, <1>3 DEF WrittenOffAway, Away
<1>4. status'[d] = "failed" /\ reason'[d] = "request_not_started" /\ sock'[d] = epoch
  BY <1>3 DEF WrittenOff
<1>5. CASE d \in Vanished
  BY <1>1, <1>5, GivenUpIsAway
<1>6. CASE d \notin Vanished
  <2>1. d \notin FoundLeader \cup LostLeader \cup Severed
    <3>1. d \notin FoundLeader /\ d \notin ExpiredLeader /\ d \notin Severed
      BY <1>4, ReconcileRows DEF Severed, Queued
    <3> QED
      BY <1>4, <3>1, ReconcileRows
  <2>2. status'[d] = status[d] /\ reason'[d] = reason[d] /\ sock'[d] = sock[d]
    BY <1>6, <2>1, ReconcileRows
  <2>3. WrittenOff(d)
    BY <1>4, <2>2 DEF WrittenOff
  <2> QED
    BY <2>3 DEF LineInv, WrittenOffAway
<1> QED
  BY <1>5, <1>6

LEMMA ReconcileLines == ASSUME IInv, HeldInv, LineInv, RowMoves, Reconcile PROVE LineInv'
<1>1. /\ pc = "reconcile" /\ pc' \in {"stock", "fill"} /\ UNCHANGED <<engineVars, reader, batch, dropped>>
  BY DEF Reconcile, history
<1>0. Judges
  BY BothJudge
<1>2. \A d \in Decisions :
        missing'[d] # "no" => d \in (IF complete THEN LostLeader \ ExpiredLeader ELSE {}) \cup (Absent \ Vanished)
  BY DEF Reconcile
<1>3. /\ Live' = Live /\ Decs(Live)' = Decs(Live) /\ Unread' = Unread /\ Elements(log') = Elements(log)
      /\ log' = log /\ epoch' = epoch
  <2>1. UNCHANGED <<engineVars, reader>>
    BY <1>1
  <2> QED
    BY <2>1 DEF Live, LiveOn, Decs, Unread, From, Elements, engineVars
<1>4. ReaderOK'
  BY <1>1, <1>3 DEF LineInv, ReaderOK, engineVars
<1>5. LinesKept'
  <2>1. \A d \in Elements(log) : d \in Decisions
    BY ReaderType, ElementsType
  <2> QED
    BY <1>1, <1>3, <2>1 DEF LineInv, LinesKept, RowMoves
<1>6. Waited'
  <2> SUFFICES ASSUME NEW d \in Decisions, missing'[d] # "no"
               PROVE  /\ d \notin Decs(Live)' /\ status'[d] # "none"
                      /\ d \in Manual => status'[d] \notin {"selected", "submitting"}
    BY <1>1 DEF Waited
  <2>1. complete /\ (d \in LostLeader \/ (d \in Absent /\ d \notin Vanished))
    <3>1. d \in (IF complete THEN LostLeader \ ExpiredLeader ELSE {}) \cup (Absent \ Vanished)
      BY <1>2
    <3> QED
      BY <3>1 DEF Absent
  <2>2. d \notin Decs(Live)'
    BY <1>1, <1>3, <2>1, LostIsAbsent
  <2>3. status[d] # "none"
    BY <2>1 DEF LostLeader, Untracked, Absent, Queued
  <2>4. ASSUME d \in Manual PROVE status'[d] \notin {"selected", "submitting"}
    <3>1. d \notin Leader
      BY <2>4
    <3>2. d \notin FoundLeader \cup LostLeader
      BY <3>1 DEF FoundLeader, LostLeader, Untracked
    <3>3. status[d] = "queued"
      BY <2>1, <3>2 DEF Absent, Queued
    <3>4. d \notin Severed /\ d \notin Vanished
      BY <2>1, <3>2 DEF Absent
    <3> QED
      BY <1>0, <3>2, <3>3, <3>4, ReconcileRows DEF ExpiredLeader
  <2> QED
    BY <2>2, <2>3, <2>4 DEF RowMoves
<1>7. ReadSince'
  BY <1>1 DEF ReadSince
<1>8. WrittenOffAway'
  BY <1>0, ReconcileWritesOff
<1> QED
  BY <1>4, <1>5, <1>6, <1>7, <1>8 DEF LineInv

(* A worker that dies between the two commits starts over.                 *)
LEMMA CutLines == ASSUME IInv, HeldInv, LineInv, ReconcileCut PROVE LineInv'
<1>1. /\ pc' = "collect" /\ batch' = <<>> /\ reader'.file = 0 /\ \A d \in Decisions : missing'[d] = "no"
      /\ UNCHANGED <<engineVars, dropped>>
  BY DEF ReconcileCut, AbortTick, history
<1>2. Elements(log') = Elements(log) /\ log' = log /\ epoch' = epoch
  BY <1>1 DEF Elements, engineVars
<1>3. From' = 0 /\ Len(log) \in Nat
  BY <1>1, <1>2, ReaderType DEF From
<1>4. Unread' = Elements(log)
  BY <1>2, <1>3, ReaderType DEF Unread, Elements
<1>5. ReaderOK'
  BY <1>1, <1>2, ReaderType DEF ReaderOK
<1>6. LinesKept' /\ Waited' /\ ReadSince'
  BY <1>1, <1>2, <1>4 DEF LinesKept, Waited, ReadSince
<1>7. WrittenOffAway'
  BY BothJudge, ReconcileWritesOff
<1> QED
  BY <1>5, <1>6, <1>7 DEF LineInv

LEMMA PushAway ==
  ASSUME IInv, pc = "push", Accept(cur)
  PROVE  /\ Unread' = Unread \/ reader' # reader
         /\ \A d : d # cur /\ d \notin Decs(Live) => d \notin Decs(Live)'
         /\ \A d : d # cur /\ Away(d) => Away(d)'
<1>1. cur \in Decisions /\ EngineOK
  BY DEF IInv, CurPending, TypeOK
<1>2. UNCHANGED <<epoch, log, dropped>> /\ Live' \subseteq Live \cup {[id |-> nextRid, dec |-> cur]}
  BY <1>1, AcceptAddsOne DEF Accept
<1>3. \A d : d # cur /\ d \notin Decs(Live) => d \notin Decs(Live)'
  BY <1>2 DEF Decs
<1> QED
  BY <1>2, <1>3 DEF Unread, From, Away

LEMMA PushLines ==
  ASSUME IInv, LineInv, RowMoves, pc = "push", Accept(cur), UNCHANGED <<reader, batch, missing, sock>>,
         pc' \in {"push", "ack"} => cur' = cur, pc' \notin {"record", "inventory", "reconcile"},
         \A d \in Decisions : d # cur => status'[d] = status[d] /\ reason'[d] = reason[d],
         status'[cur] = status[cur] \/ (status'[cur] = "failed" /\ reason'[cur] # "request_not_started")
  PROVE  LineInv'
<1>1. cur \in Decisions /\ status[cur] \in {"selected", "submitting"} /\ EngineOK
  BY DEF IInv, CurPending, TypeOK
<1>2. UNCHANGED <<up, epoch, log, dropped>>
  BY DEF Accept
<1>3. \A d : d # cur /\ d \notin Decs(Live) => d \notin Decs(Live)'
  BY PushAway
<1>4. Unread' = Unread /\ \A d : d # cur /\ Away(d) => Away(d)'
  BY PushAway
<1>5. ReaderOK'
  BY <1>2 DEF LineInv, ReaderOK
<1>6. LinesKept'
  <2>1. \A d \in Elements(log) : d \in Decisions
    BY ReaderType, ElementsType
  <2> QED
    BY <1>2, <1>4, <2>1 DEF LineInv, LinesKept, RowMoves
<1>7. Waited'
  BY <1>1, <1>3 DEF LineInv, Waited
<1>8. ReadSince'
  BY <1>4 DEF ReadSince
<1>9. WrittenOffAway'
  BY <1>1, <1>2, <1>4 DEF LineInv, WrittenOffAway, WrittenOff
<1> QED
  BY <1>5, <1>6, <1>7, <1>8, <1>9 DEF LineInv

LEMMA LineStep ==
  ASSUME IInv, HeldInv, LineInv, KeepsUp, [Next]_vars
  PROVE  LineInv'
<1>1. /\ status \in [Decisions -> Statuses] /\ sock \in [Decisions -> Nat] /\ reason \in [Decisions -> Reasons]
      /\ missing \in [Decisions -> {"no", "open", "closed"}] /\ RowMoves
  BY StepMoves DEF IInv, TypeOK, DbOK, WorkerOK
<1>2. ASSUME UNCHANGED dbVars PROVE OffKept \/ epoch' # epoch
  BY <1>2 DEF OffKept, WrittenOff, dbVars
<1>3. batch # <<>> => pc = "record"
  BY DEF LineInv, ReaderOK
<1>4. ASSUME batch = <<>>, batch' = <<>> PROVE BatchKept
  BY <1>4, EmptyElements DEF BatchKept
<1>5. ASSUME UNCHANGED <<batch, pc>> PROVE BatchKept
  BY <1>3, <1>5 DEF BatchKept
<1>6. \A d \in Decisions : missing[d] # "no" => status[d] # "none" /\ (d \in Manual => status[d] # "selected")
  BY DEF LineInv, Waited
<1>7. CASE Push \/ PushUnanswered
  <2>1. pc = "push" /\ Accept(cur) /\ UNCHANGED <<reader, batch, missing, sock>>
    BY <1>7 DEF Push, PushUnanswered, PushError, dbVars
  <2>2. (pc' \in {"push", "ack"} => cur' = cur) /\ pc' \notin {"record", "inventory", "reconcile"}
    BY <1>7 DEF Push, PushUnanswered, PushError
  <2>3. \A d \in Decisions : d # cur => status'[d] = status[d] /\ reason'[d] = reason[d]
    BY <1>1, <1>7 DEF Push, PushUnanswered, PushError, dbVars
  <2>4. status'[cur] = status[cur] \/ (status'[cur] = "failed" /\ reason'[cur] # "request_not_started")
    BY <1>1, <1>7 DEF Push, PushUnanswered, PushError, dbVars, IInv, CurPending
  <2> QED
    BY <1>1, <2>1, <2>2, <2>3, <2>4, PushLines
<1>8. CASE PushRefused \/ AckNoSocket
  <2>1. UNCHANGED <<engineVars, reader, dropped, batch, missing, sock>> /\ pc \in {"push", "ack"}
    BY <1>8 DEF PushRefused, AckNoSocket, PushError, history
  <2>2. BatchKept
    BY <1>3, <1>4, <2>1
  <2>3. WindowsKept /\ OffKept
    BY <1>1, <1>8, <2>1 DEF PushRefused, AckNoSocket, PushError, WindowsKept, OffKept, WrittenOff, engineVars
  <2> QED
    BY <1>1, <2>1, <2>2, <2>3, KeepsLines
<1>9. CASE Ack
  <2>1. UNCHANGED <<engineVars, reader, dropped, batch, missing, reason>> /\ pc = "ack" /\ pc' \in {"manual", "fill"}
    BY <1>9 DEF Ack, history
  <2>2. BatchKept
    BY <1>3, <1>4, <2>1
  <2>3. WindowsKept /\ OffKept
    BY <1>1, <1>9, <2>1 DEF Ack, WindowsKept, OffKept, WrittenOff, engineVars
  <2> QED
    BY <1>1, <2>1, <2>2, <2>3, KeepsLines
<1>10. CASE Resolve
  <2>1. UNCHANGED <<engineVars, reader, dropped, batch, missing, reason>> /\ pc = "resolve" /\ pc' = "manual"
    BY <1>10 DEF Resolve, history
  <2>2. BatchKept
    BY <1>3, <1>4, <2>1
  <2>3. \A d \in Decisions : status'[d] = "failed" => status[d] = "failed" /\ sock'[d] = sock[d]
    BY <1>10 DEF Resolve, Adopted, Submitting
  <2>4. \A d \in Decisions : status'[d] \in {"selected", "submitting"} => status[d] \in {"selected", "submitting"}
    BY <1>10 DEF Resolve, Submitting
  <2>5. WindowsKept /\ OffKept
    BY <2>1, <2>3, <2>4 DEF WindowsKept, OffKept, WrittenOff, engineVars
  <2> QED
    BY <1>1, <2>1, <2>2, <2>5, KeepsLines
<1>11. CASE Reconcile \/ ReconcileCut
  BY <1>1, <1>11, ReconcileLines, CutLines
<1>12. CASE Collect
  BY <1>12, CollectLines
<1>13. CASE WorkerCrash
  BY <1>13, CrashLines
<1>14. CASE Record
  <2>1. UNCHANGED <<engineVars, reader, dropped, missing>> /\ pc = "record" /\ batch # <<>> /\ batch \in Seq(Decisions)
    BY <1>14, ReaderType DEF Record, history
  <2>2. CASE AbortTick /\ UNCHANGED dbVars /\ ~up
    <3>1. BatchKept
      BY <2>2 DEF BatchKept, AbortTick, HeldInv, StoppedGone
    <3>2. WindowsKept /\ OffKept
      BY <2>1, <2>2, <1>2 DEF WindowsKept, AbortTick, dbVars, engineVars
    <3> QED
      BY <1>1, <2>1, <3>1, <3>2, KeepsLines
  <2>3. CASE batch' = Tail(batch) /\ pc' = pc
    <3>1. Head(batch) \in Decisions /\ \A d \in Elements(batch) : d = Head(batch) \/ d \in Elements(Tail(batch))
      <4>1. Len(batch) \in Nat /\ Len(batch) >= 1 /\ Head(batch) = batch[1] /\ DOMAIN batch = 1 .. Len(batch)
        BY <2>1
      <4>2. Len(Tail(batch)) = Len(batch) - 1 /\ \A i \in 1 .. Len(Tail(batch)) : Tail(batch)[i] = batch[i + 1]
        BY <2>1, HeadTailProperties
      <4>3. DOMAIN Tail(batch) = 1 .. (Len(batch) - 1)
        BY <2>1, <4>2, HeadTailProperties
      <4>4. ASSUME NEW i \in 2 .. Len(batch) PROVE batch[i] \in Elements(Tail(batch))
        <5>1. i - 1 \in DOMAIN Tail(batch) /\ Tail(batch)[i - 1] = batch[i]
          BY <4>1, <4>2, <4>3
        <5> QED
          BY <5>1 DEF Elements
      <4> QED
        BY <2>1, <4>1, <4>4, ElementsOfTail DEF Elements
    <3>2. /\ status[Head(batch)] \in Confirmable => status'[Head(batch)] = "started"
          /\ \A d \in Decisions : d # Head(batch) => status'[d] = status[d] /\ reason'[d] = reason[d] /\ sock'[d] = sock[d]
          /\ status'[Head(batch)] \in {status[Head(batch)], "started"}
      BY <1>1, <1>14, <2>1, <2>3, <3>1, HeadTailProperties DEF Record, Started, AbortTick
    <3>3. status[Head(batch)] # "none"
      <4>1. Head(batch) \in told
        BY <2>1, ElementsOfTail DEF IInv, LinesAired
      <4> QED
        BY <3>1, <4>1 DEF HeldInv, Untouched
    <3>4. status'[Head(batch)] = "started"
      BY <1>1, <3>1, <3>2, <3>3 DEF Statuses, Confirmable, RowMoves
    <3>5. BatchKept
      BY <2>1, <2>3, <3>1, <3>4 DEF BatchKept
    <3>6. WindowsKept
      BY <2>1, <2>3, <3>2, <3>4 DEF WindowsKept
    <3>7. OffKept
      BY <2>1, <3>2, <3>4 DEF OffKept, WrittenOff, engineVars
    <3> QED
      BY <1>1, <2>1, <3>5, <3>6, <3>7, KeepsLines
  <2> QED
    BY <1>14, <2>1, <2>2, <2>3 DEF Record
<1>15. CASE RecordFault \/ AckFault
  <2>1. UNCHANGED <<engineVars, reader, missing, dbVars>> /\ AbortTick
    BY <1>15 DEF RecordFault, AckFault
  <2>2. dropped \subseteq dropped' /\ (Elements(batch) \subseteq dropped' \/ batch = <<>>)
    BY <1>3, <1>15 DEF RecordFault, AckFault, history
  <2>3. BatchKept
    BY <2>1, <2>2, EmptyElements DEF BatchKept, AbortTick
  <2>4. WindowsKept /\ OffKept
    BY <1>2, <2>1 DEF WindowsKept, AbortTick, dbVars, engineVars
  <2> QED
    BY <1>1, <2>1, <2>2, <2>3, <2>4, KeepsLines
<1>16. CASE Recorded \/ Inventory \/ TakeStock \/ Unavailable \/ ManualDone \/ FillDone
  <2>1. UNCHANGED <<engineVars, reader, missing, dbVars, dropped>>
    BY <1>16 DEF Recorded, Inventory, TakeStock, ReadEngine, Unavailable, ManualDone, FillDone, history
  <2>2. batch = <<>> /\ batch' = <<>>
    BY <1>3, <1>16 DEF Recorded, Inventory, TakeStock, ReadEngine, Unavailable, AbortTick, ManualDone, FillDone
  <2>3. WindowsKept /\ OffKept
    BY <1>2, <1>16, <2>1 DEF WindowsKept, Recorded, Inventory, TakeStock, ReadEngine, Unavailable, AbortTick, ManualDone,
       FillDone, dbVars, engineVars
  <2> QED
    BY <1>1, <1>4, <2>1, <2>2, <2>3, KeepsLines
<1>17. ASSUME NEW d \in Decisions, WebQueue(d) \/ Refuse(d) PROVE LineInv'
  <2>1. UNCHANGED <<engineVars, memVars, dropped, sock>>
    BY <1>17 DEF WebQueue, Refuse, history
  <2>2. /\ \A c \in Decisions : c # d => status'[c] = status[c] /\ reason'[c] = reason[c]
        /\ \/ status'[d] = "selected" /\ status[d] = "none"
           \/ status'[d] = "failed" /\ reason'[d] = "refused"
    BY <1>1, <1>17 DEF WebQueue, Refuse
  <2>3. WindowsKept /\ OffKept /\ BatchKept
    BY <1>5, <1>6, <2>1, <2>2 DEF WindowsKept, OffKept, WrittenOff, memVars, engineVars
  <2> QED
    BY <1>1, <2>1, <2>3, KeepsLines DEF memVars
<1>18. ASSUME NEW d \in Decisions, Submit(d) \/ Select(d) PROVE LineInv'
  <2>1. UNCHANGED <<engineVars, reader, batch, missing, dropped, sock, reason>> /\ pc # "record" /\ pc' = "push" /\ cur' = d
    BY <1>18 DEF Submit, Select, history
  <2>2. /\ \A c \in Decisions : c # d => status'[c] = status[c]
        /\ status'[d] \in {"submitting", "selected"} /\ (status[d] = "none" \/ (d \in Manual /\ status[d] = "selected"))
    BY <1>1, <1>18 DEF Submit, Select, Ready, Candidates
  <2>3. missing[d] = "no"
    BY <1>6, <2>2
  <2>4. WindowsKept /\ OffKept /\ BatchKept
    BY <1>3, <1>4, <2>1, <2>2, <2>3 DEF WindowsKept, OffKept, WrittenOff, engineVars
  <2> QED
    BY <1>1, <2>1, <2>4, KeepsLines
<1>19. ASSUME NEW d \in Decisions, WindowCloses(d) PROVE LineInv'
  <2>1. UNCHANGED <<engineVars, reader, batch, dbVars, dropped, pc, cur>> /\ \A c \in Decisions : missing'[c] # "no" => missing[c] # "no"
    BY <1>1, <1>19 DEF WindowCloses, history
  <2>2. WindowsKept /\ OffKept /\ BatchKept
    BY <1>2, <1>5, <2>1 DEF WindowsKept, dbVars, engineVars
  <2> QED
    BY <1>1, <2>1, <2>2, KeepsLines
<1>20. CASE EngineStop \/ EngineStart \/ \E b \in Buses : EngineNext(b) \/ EngineConfirm(b) \/ EngineEnd(b)
  BY <1>20, EngineLines
<1>21. CASE UNCHANGED vars
  <2>1. UNCHANGED <<engineVars, memVars, dbVars, dropped>>
    BY <1>21 DEF vars, history
  <2>2. WindowsKept /\ OffKept /\ BatchKept
    BY <1>2, <1>5, <2>1 DEF WindowsKept, memVars, dbVars, engineVars
  <2> QED
    BY <1>1, <2>1, <2>2, KeepsLines DEF memVars
<1> QED
  BY <1>7, <1>8, <1>9, <1>10, <1>11, <1>12, <1>13, <1>14, <1>15, <1>16, <1>17, <1>18, <1>19, <1>20, <1>21
     DEF Next, Worker, Engine, Faults, Manually, Refill, Handoff

----------------------------------------------------------------------------
(* The leader of an occurrence.  An attempt whose fate is unknown stays     *)
(* pending (Uncertain is made pending by the next reconciliation), one that *)
(* was given up is in no engine and in no line that was not dropped, so the *)
(* next attempt is begun when every other is away.                          *)
Uncertain(l) == status[l] = "failed" /\ reason[l] = "queue_failed" /\ rid[l] = 0
AllAway == \A l \in Leader : Away(l)

FailedAway == \A l \in Leader : status[l] = "failed" => Uncertain(l) \/ Away(l)
QueuedHere == \A l \in Leader : status[l] = "queued" => sock[l] = epoch \/ Away(l)
NotManual  == \A l \in Leader : status[l] # "submitting"
Looked     == pc = "fill" \/ (pc \in {"push", "ack"} /\ phase = "refill") => \A l \in Leader : ~Uncertain(l)
Attempt    == pc \in {"push", "ack"} /\ cur \in Leader => rid[cur] = 0 /\ (pc = "push" => AllAway)
OneAttempt == \A l, m \in Leader : l # m => Away(l) \/ Away(m)

LeaderInv == FailedAway /\ QueuedHere /\ NotManual /\ Looked /\ Attempt /\ OneAttempt

RowSame(l) == status'[l] = status[l] /\ reason'[l] = reason[l] /\ rid'[l] = rid[l] /\ sock'[l] = sock[l]
AwayKept   == (\A l \in Leader : Away(l) => Away(l)') /\ (epoch' = epoch \/ \A l \in Leader : Away(l)')
LoopKept   ==
  /\ pc' = "fill" => pc = "fill" \/ (pc = "ack" /\ phase = "refill")
  /\ pc' \in {"push", "ack"} => UNCHANGED <<pc, cur, phase>> \/ (phase' = "manual" /\ cur' \notin Leader)
                              \/ (pc = "push" /\ pc' = "ack" /\ UNCHANGED <<cur, phase>>)

LEMMA KeepsLeaders ==
  ASSUME LeaderInv, AwayKept, LoopKept,
         \A l \in Leader : RowSame(l) \/ (status'[l] = "started" /\ rid'[l] = rid[l])
  PROVE  LeaderInv'
<1>1. FailedAway' /\ QueuedHere' /\ NotManual'
  BY DEF LeaderInv, FailedAway, QueuedHere, NotManual, AwayKept, RowSame, Uncertain
<1>2. Looked'
  BY DEF LeaderInv, Looked, LoopKept, RowSame, Uncertain
<1>3. Attempt'
  BY DEF LeaderInv, Attempt, AllAway, LoopKept, AwayKept, RowSame
<1>4. OneAttempt'
  BY DEF LeaderInv, OneAttempt, AwayKept
<1> QED
  BY <1>1, <1>2, <1>3, <1>4 DEF LeaderInv

LEMMA RestAway == ASSUME UNCHANGED engineVars, dropped \subseteq dropped' PROVE AwayKept
<1>1. Live' = Live /\ Decs(Live)' = Decs(Live) /\ Elements(log') = Elements(log) /\ epoch' = epoch
  BY DEF Live, LiveOn, Decs, Elements, engineVars
<1> QED
  BY <1>1 DEF AwayKept, Away

LEMMA ReconcileLeaders ==
  ASSUME IInv, HeldInv, LineInv, LeaderInv, Judges
  PROVE  LeaderInv'
<1>1. pc = "reconcile" /\ pc' \in {"stock", "fill", "collect"} /\ UNCHANGED <<engineVars, dropped>>
  BY DEF Judges, history
<1>2. \A l \in Leader : Away(l) => Away(l)'
  BY <1>1, RestAway DEF AwayKept
<1>3. ident # epoch => \A l \in Leader : Away(l)'
  BY <1>1, <1>2, GoneAway DEF HeldInv, SightOK
<1>4. Leader \subseteq Decisions /\ epoch' = epoch
  BY <1>1 DEF Decisions, engineVars
<1>5. ASSUME NEW l \in Leader, status'[l] = "failed" PROVE Away(l)' /\ ~Uncertain(l)'
  <2>1. l \in Decisions /\ l \notin FoundLeader
    BY <1>4, <1>5, ReconcileRows
  <2>2. CASE l \in ExpiredLeader \cup Vanished
    <3>1. Away(l)
      BY <1>1, <2>1, <2>2, GivenUpIsAway
    <3>2. reason'[l] # "queue_failed"
      BY <1>5, <2>1, <2>2, ReconcileRows DEF Vanished, Absent, Queued
    <3> QED
      BY <1>2, <3>1, <3>2 DEF Uncertain
  <2>3. CASE l \in Severed
    <3>1. status[l] = "queued" /\ sock[l] # ident
      BY <2>3 DEF Severed, Queued
    <3>2. Away(l)'
      BY <1>2, <1>3, <3>1 DEF LeaderInv, QueuedHere
    <3>3. reason'[l] # "queue_failed"
      BY <1>5, <2>1, <2>3, <3>1, ReconcileRows
    <3> QED
      BY <3>2, <3>3 DEF Uncertain
  <2>4. CASE l \notin ExpiredLeader \cup Severed \cup Vanished
    <3>1. l \notin LostLeader
      BY <1>5, <2>1, <2>4, ReconcileRows
    <3>2. RowSame(l)
      BY <2>1, <2>4, <3>1, ReconcileRows DEF RowSame
    <3>3. status[l] = "failed" /\ l \notin Untracked
      BY <1>5, <2>1, <3>1, <3>2 DEF LostLeader, RowSame
    <3>4. ~Uncertain(l)
      BY <3>3 DEF Uncertain, Untracked
    <3> QED
      BY <1>2, <3>2, <3>3, <3>4 DEF LeaderInv, FailedAway, Uncertain, RowSame
  <2> QED
    BY <2>2, <2>3, <2>4
<1>6. QueuedHere'
  <2> SUFFICES ASSUME NEW l \in Leader, status'[l] = "queued" PROVE sock'[l] = epoch \/ Away(l)'
    BY <1>4 DEF QueuedHere
  <2>1. CASE l \in FoundLeader
    BY <1>3, <1>4, <2>1, ReconcileRows
  <2>2. CASE l \notin FoundLeader
    <3>1. l \in Severed \cup Vanished => status[l] = "queued"
      BY DEF Severed, Vanished, Absent, Queued
    <3>2. status[l] = "queued" /\ sock'[l] = sock[l]
      <4>1. l \in LostLeader => status[l] # "queued"
        BY DEF LostLeader, Untracked
      <4> QED
        BY <1>4, <2>2, <3>1, <4>1, ReconcileRows
    <3> QED
      BY <1>2, <3>2 DEF LeaderInv, QueuedHere
  <2> QED
    BY <2>1, <2>2
<1>7. NotManual'
  <2> SUFFICES ASSUME NEW l \in Leader PROVE status'[l] # "submitting"
    BY DEF NotManual
  <2>1. status[l] # "submitting"
    BY DEF LeaderInv, NotManual
  <2> QED
    BY <1>4, <2>1, ReconcileRows DEF ExpiredLeader
<1>8. FailedAway' /\ Looked' /\ Attempt'
  BY <1>1, <1>5 DEF FailedAway, Looked, Attempt, Uncertain
<1>9. OneAttempt'
  BY <1>2 DEF LeaderInv, OneAttempt
<1> QED
  BY <1>6, <1>7, <1>8, <1>9 DEF LeaderInv

(* A new attempt begins while no other is pending or was heard. *)
LEMMA SelectLeaders ==
  ASSUME IInv, HeldInv, LeaderInv, NEW d \in Decisions, Select(d)
  PROVE  LeaderInv'
<1>1. /\ pc = "fill" /\ pc' = "push" /\ cur' = d /\ d \in Candidates /\ status[d] = "none"
      /\ UNCHANGED <<engineVars, dropped, reason, rid, sock, phase>> /\ phase = "refill"
  BY DEF Select, Candidates, history, IInv, PhaseOK
<1>2. AwayKept /\ epoch' = epoch
  BY <1>1, RestAway DEF engineVars
<1>3. status \in [Decisions -> Statuses] /\ Leader \subseteq Decisions
  BY DEF IInv, TypeOK, DbOK, Decisions
<1>4. \A l \in Leader : status'[l] = status[l] \/ (l = d /\ status'[l] = "selected")
  BY <1>3 DEF Select
<1>5. \A l \in Leader : ~Uncertain(l) /\ ~Uncertain(l)'
  BY <1>1, <1>4 DEF LeaderInv, Looked, Uncertain
<1>6. d \in Leader => AllAway
  <2> SUFFICES ASSUME d \in Leader, NEW l \in Leader PROVE Away(l)
    BY DEF AllAway
  <2>1. ~LeaderPending /\ ~LeaderAired
    BY <1>1 DEF Candidates
  <2>2. status[l] \in {"none", "failed"}
    BY <1>3, <2>1 DEF LeaderPending, LeaderAired, Statuses, LeaderInv, NotManual
  <2>3. CASE status[l] = "none"
    BY <1>3, <2>3 DEF HeldInv, Untouched, Away, IInv, LinesAired
  <2>4. CASE status[l] = "failed"
    BY <1>5, <2>4 DEF LeaderInv, FailedAway
  <2> QED
    BY <2>2, <2>3, <2>4
<1>7. d \in Leader => rid[d] = 0
  BY <1>1, <1>3 DEF HeldInv, Untouched
<1>8. FailedAway' /\ QueuedHere' /\ NotManual'
  BY <1>1, <1>2, <1>4, <1>5 DEF LeaderInv, FailedAway, QueuedHere, NotManual, AwayKept
<1>9. Looked'
  BY <1>5 DEF Looked
<1>10. Attempt'
  BY <1>1, <1>2, <1>6, <1>7 DEF Attempt, AllAway, AwayKept
<1>11. OneAttempt'
  BY <1>2 DEF LeaderInv, OneAttempt, AwayKept
<1> QED
  BY <1>8, <1>9, <1>10, <1>11 DEF LeaderInv

(* Only the attempt that is pushed comes to the engine. *)
LEMMA PushLeaders ==
  ASSUME IInv, LeaderInv, pc = "push", Accept(cur), UNCHANGED <<rid, sock>>,
         \A d \in Decisions : d # cur => (Away(d) => Away(d)'),
         \/ UNCHANGED <<status, reason, cur, phase>> /\ pc' = "ack"
         \/ /\ pc' \notin {"push", "ack", "fill"} /\ status'[cur] = "failed"
            /\ cur \in Leader => reason'[cur] = "queue_failed"
            /\ \A d \in Decisions : d # cur => status'[d] = status[d] /\ reason'[d] = reason[d]
  PROVE  LeaderInv'
<1>1. Leader \subseteq Decisions /\ cur \in Decisions /\ status[cur] \in {"selected", "submitting"} /\ epoch' = epoch
  BY DEF Decisions, IInv, CurPending, Accept
<1>2. cur \in Leader => rid[cur] = 0 /\ AllAway
  BY DEF LeaderInv, Attempt
<1>3. \A l \in Leader : l # cur => (Away(l) => Away(l)') /\ status'[l] = status[l] /\ reason'[l] = reason[l]
  BY <1>1
<1>4. FailedAway'
  BY <1>1, <1>2, <1>3 DEF LeaderInv, FailedAway, Uncertain
<1>5. QueuedHere'
  BY <1>1, <1>3 DEF LeaderInv, QueuedHere
<1>6. NotManual'
  BY <1>1, <1>3 DEF LeaderInv, NotManual
<1>7. Looked' /\ Attempt'
  BY <1>1 DEF LeaderInv, Looked, Attempt, Uncertain
<1>8. OneAttempt'
  BY <1>1, <1>2, <1>3 DEF LeaderInv, OneAttempt, AllAway
<1> QED
  BY <1>4, <1>5, <1>6, <1>7, <1>8 DEF LeaderInv

LEMMA LeaderStep ==
  ASSUME IInv, HeldInv, LineInv, LeaderInv, [Next]_vars
  PROVE  LeaderInv'
<1>1. /\ status \in [Decisions -> Statuses] /\ sock \in [Decisions -> Nat] /\ reason \in [Decisions -> Reasons]
      /\ rid \in [Decisions -> Nat] /\ Leader \subseteq Decisions /\ Leader \cap Manual = {}
      /\ phase \in {"manual", "refill"}
  BY DEF IInv, TypeOK, DbOK, WorkerOK, Decisions
<1>2. \A l \in Leader : status[l] # "submitting"
  BY DEF LeaderInv, NotManual
<1>3. ASSUME UNCHANGED dbVars PROVE \A l \in Leader : RowSame(l)
  BY <1>3 DEF RowSame, dbVars
<1>4. ASSUME AbortTick PROVE LoopKept
  BY <1>4 DEF LoopKept, AbortTick
<1>5. pc \in {"push", "ack"} /\ cur \in Leader => phase = "refill"
  BY <1>1 DEF HeldInv, LoopsApart
<1>6. CASE Push
  <2>1. UNCHANGED <<rid, sock, status, reason, cur, phase, reader, batch, missing>> /\ pc = "push" /\ Accept(cur) /\ pc' = "ack"
    BY <1>6 DEF Push, dbVars
  <2>2. \A d \in Decisions : d # cur => (Away(d) => Away(d)')
    BY <2>1, PushAway
  <2> QED
    BY <2>1, <2>2, PushLeaders
<1>7. CASE PushUnanswered
  <2>1. UNCHANGED <<rid, sock>> /\ pc = "push" /\ Accept(cur) /\ PushError /\ cur \in Decisions
    BY <1>7 DEF PushUnanswered, PushError, IInv, CurPending
  <2>2. \A d \in Decisions : d # cur => (Away(d) => Away(d)')
    BY <2>1, PushAway
  <2>3. /\ pc' \notin {"push", "ack", "fill"} /\ status'[cur] = "failed"
        /\ cur \in Leader => reason'[cur] = "queue_failed"
        /\ \A d \in Decisions : d # cur => status'[d] = status[d] /\ reason'[d] = reason[d]
    BY <1>1, <1>5, <2>1 DEF PushError
  <2> QED
    BY <2>1, <2>2, <2>3, PushLeaders
<1>8. CASE PushRefused \/ AckNoSocket
  <2>1. /\ UNCHANGED <<rid, sock, engineVars, dropped>> /\ pc \in {"push", "ack"} /\ cur \in Decisions
        /\ pc' \in {"manual", "collect"}
    BY <1>8 DEF PushRefused, AckNoSocket, PushError, history, IInv, CurPending
  <2>2. /\ cur \in Leader => status'[cur] = "failed" /\ reason'[cur] = "queue_failed" /\ rid[cur] = 0
        /\ \A l \in Leader : l # cur => RowSame(l)
    BY <1>1, <1>5, <1>8, <2>1 DEF PushRefused, AckNoSocket, PushError, RowSame, LeaderInv, Attempt
  <2>3. AwayKept /\ epoch' = epoch
    BY <2>1, RestAway DEF engineVars
  <2>4. FailedAway' /\ QueuedHere' /\ NotManual'
    BY <2>1, <2>2, <2>3 DEF LeaderInv, FailedAway, QueuedHere, NotManual, Uncertain, RowSame, AwayKept
  <2>5. Looked' /\ Attempt' /\ OneAttempt'
    BY <2>1, <2>3 DEF LeaderInv, Looked, Attempt, OneAttempt, AwayKept
  <2> QED
    BY <2>4, <2>5 DEF LeaderInv
<1>9. CASE Ack
  <2>1. /\ UNCHANGED <<engineVars, dropped, reason, phase>> /\ pc = "ack" /\ cur \in Decisions
        /\ pc' = IF phase = "manual" THEN "manual" ELSE "fill"
    BY <1>9 DEF Ack, history, IInv, CurPending
  <2>2. AwayKept /\ epoch' = epoch
    BY <2>1, RestAway DEF engineVars
  <2>3. /\ \A l \in Leader : l # cur => RowSame(l)
        /\ cur \in Leader => status'[cur] = "queued" /\ sock'[cur] = epoch
    BY <1>1, <1>5, <1>9, <2>1 DEF Ack, AckIdentity, RowSame
  <2>4. FailedAway' /\ QueuedHere' /\ NotManual'
    BY <2>1, <2>2, <2>3 DEF LeaderInv, FailedAway, QueuedHere, NotManual, Uncertain, RowSame, AwayKept
  <2>5. Looked'
    BY <1>1, <2>1, <2>3 DEF LeaderInv, Looked, Uncertain, RowSame
  <2>6. Attempt' /\ OneAttempt'
    BY <2>1, <2>2 DEF LeaderInv, Attempt, OneAttempt, AwayKept
  <2> QED
    BY <2>4, <2>5, <2>6 DEF LeaderInv
<1>10. CASE Reconcile \/ ReconcileCut
  BY <1>10, BothJudge, ReconcileLeaders
<1>11. ASSUME NEW d \in Decisions, Select(d) PROVE LeaderInv'
  BY <1>11, SelectLeaders
<1>12. CASE Record
  <2>1. UNCHANGED <<engineVars, dropped, rid>> /\ pc = "record"
    BY <1>12 DEF Record, history, dbVars
  <2>2. LoopKept
    BY <1>4, <1>12, <2>1 DEF Record, LoopKept
  <2>3. \A l \in Leader : RowSame(l) \/ (status'[l] = "started" /\ rid'[l] = rid[l])
    BY <1>1, <1>2, <1>12 DEF Record, Started, RowSame, dbVars
  <2> QED
    BY <2>1, <2>2, <2>3, RestAway, KeepsLeaders
<1>13. CASE Resolve
  <2>1. UNCHANGED <<engineVars, dropped>> /\ pc' = "manual"
    BY <1>13 DEF Resolve, history
  <2>2. \A l \in Leader : RowSame(l)
    BY <1>1, <1>2, <1>13 DEF Resolve, Adopted, Submitting, RowSame
  <2> QED
    BY <2>1, <2>2, RestAway, KeepsLeaders DEF LoopKept
<1>14. ASSUME NEW d \in Decisions, WebQueue(d) \/ Refuse(d) \/ Submit(d) PROVE LeaderInv'
  <2>1. UNCHANGED <<engineVars, dropped, rid, sock>> /\ d \in Manual
    BY <1>14 DEF WebQueue, Refuse, Submit, Ready, history
  <2>2. \A l \in Leader : RowSame(l)
    BY <1>1, <1>14, <2>1 DEF WebQueue, Refuse, Submit, RowSame
  <2>3. LoopKept
    <3>1. CASE WebQueue(d) \/ Refuse(d)
      BY <3>1 DEF WebQueue, Refuse, LoopKept, memVars
    <3>2. CASE Submit(d)
      BY <1>1, <2>1, <3>2 DEF Submit, LoopKept, IInv, PhaseOK
    <3> QED
      BY <1>14, <3>1, <3>2
  <2> QED
    BY <2>1, <2>2, <2>3, RestAway, KeepsLeaders
<1>15. CASE \/ Collect \/ Recorded \/ Inventory \/ TakeStock \/ Unavailable \/ ManualDone \/ FillDone
            \/ RecordFault \/ AckFault \/ WorkerCrash
            \/ \E d \in Decisions : WindowCloses(d)
  <2>1. UNCHANGED <<engineVars, dbVars>> /\ dropped \subseteq dropped'
    BY <1>15 DEF Collect, Recorded, Inventory, TakeStock, ReadEngine, Unavailable, ManualDone, FillDone, RecordFault,
       AckFault, WorkerCrash, WindowCloses, history
  <2>2. LoopKept
    BY <1>4, <1>15 DEF Collect, Recorded, Inventory, TakeStock, ReadEngine, Unavailable, ManualDone, FillDone,
       RecordFault, AckFault, WorkerCrash, WindowCloses, LoopKept
  <2> QED
    BY <1>3, <2>1, <2>2, RestAway, KeepsLeaders
<1>16. CASE EngineStop \/ EngineStart \/ \E b \in Buses : EngineNext(b) \/ EngineConfirm(b) \/ EngineEnd(b)
  <2>1. UNCHANGED <<memVars, dbVars>>
    BY <1>16 DEF EngineStop, EngineStart, EngineNext, EngineConfirm, EngineEnd
  <2>2. AwayKept
    <3>1. Gone' => \A l \in Leader : Away(l)'
      BY EmptyElements DEF Gone, Away, Decs
    <3> QED
      BY <1>1, <1>16, <3>1, EngineLines DEF AwayKept
  <2> QED
    BY <1>3, <2>1, <2>2, KeepsLeaders DEF LoopKept, memVars
<1>17. CASE UNCHANGED vars
  <2>1. UNCHANGED <<engineVars, dbVars, memVars, dropped>>
    BY <1>17 DEF vars, history
  <2> QED
    BY <1>3, <2>1, RestAway, KeepsLeaders DEF LoopKept, memVars
<1> QED
  BY <1>6, <1>7, <1>8, <1>9, <1>10, <1>11, <1>12, <1>13, <1>14, <1>15, <1>16, <1>17
     DEF Next, Worker, Engine, Faults, Manually, Refill, Handoff

LEMMA InitLines == Init => LineInv /\ LeaderInv
<1> SUFFICES ASSUME Init PROVE LineInv /\ LeaderInv
  OBVIOUS
<1>1. \A b \in Buses : LiveOn(b) = {}
  BY EmptyElements DEF Init, LiveOn
<1>2. Gone
  BY <1>1 DEF Gone, Live, Init
<1>3. \A d : Away(d)
  BY <1>2, GoneAway
<1>4. /\ log = <<>> /\ batch = <<>> /\ pc = "collect" /\ up /\ epoch = 1 /\ reader = [file |-> 0, pos |-> 0]
      /\ \A d \in Decisions : status[d] = "none" /\ missing[d] = "no"
  BY DEF Init
<1>5. ReaderOK
  BY <1>4 DEF ReaderOK
<1>6. LinesKept
  BY <1>4, EmptyElements DEF LinesKept
<1>7. Waited /\ ReadSince /\ WrittenOffAway
  BY <1>4 DEF Waited, ReadSince, WrittenOffAway, WrittenOff
<1>8. LeaderInv
  BY <1>3, <1>4 DEF LeaderInv, FailedAway, QueuedHere, NotManual, Looked, Attempt, OneAttempt, Decisions
<1> QED
  BY <1>5, <1>6, <1>7, <1>8 DEF LineInv

EngineInv == IdInv /\ LoopOK /\ Stopped /\ HeldInv

LEMMA EngineInvariance == Spec => []EngineInv
<1>1. Init => EngineInv
  BY InitIds, InitHeldInv DEF EngineInv
<1>2. IInv /\ EngineInv /\ [Next]_vars => EngineInv'
  BY IdStep, LoopStep, StoppedStep, HeldStep DEF EngineInv
<1> QED
  BY <1>1, <1>2, Invariance, PTL DEF Spec

LEMMA LineInvariance == Spec /\ []KeepsUp => [](LineInv /\ LeaderInv)
<1>1. Init => LineInv /\ LeaderInv
  BY InitLines
<1>2. IInv /\ EngineInv /\ KeepsUp /\ LineInv /\ LeaderInv /\ [Next]_vars => LineInv' /\ LeaderInv'
  BY LineStep, LeaderStep DEF EngineInv
<1> QED
  BY <1>1, <1>2, Invariance, EngineInvariance, PTL DEF Spec

(* The program bus never holds two requests of one decision: whatever      *)
(* answer, commit, worker or engine is lost after a push, the row is        *)
(* adopted or given up before it is pushed again.                          *)
THEOREM NeverBesideItself == Spec => []NoDuplicateRequest
<1>1. EngineInv => NoDuplicateRequest
  BY DEF EngineInv, HeldInv, OneRequest, NoDuplicateRequest, Live, Buses
<1> QED
  BY <1>1, EngineInvariance, PTL

(* While collect() keeps up with the engine's log, a row is written off as *)
(* request_not_started only when the running engine never logged its start *)
(* (or the transaction recording that line failed).                        *)
THEOREM NoStartWrittenOff == Spec /\ []KeepsUp => []NoFalseVanish
<1>1. LineInv => NoFalseVanish
  BY DEF LineInv, WrittenOffAway, WrittenOff, Away, NoFalseVanish
<1> QED
  BY <1>1, LineInvariance, PTL

(* While collect() keeps up with the engine's log, no engine starts two    *)
(* attempts at one leader or holds two requests of one decision.           *)
THEOREM NothingHandedTwice == Spec /\ []KeepsUp => []NothingTwice
<1>1. ASSUME LeaderInv PROVE LeaderStartsOncePerEngine
  <2> DEFINE S == Leader \cap (Elements(log) \ dropped)
  <2>1. \A l, m \in S : l = m
    BY <1>1 DEF LeaderInv, OneAttempt, Away
  <2>2. CASE S = {}
    BY <2>2, FS_EmptySet DEF LeaderStartsOncePerEngine
  <2>3. CASE S # {}
    <3>1. PICK l \in S : S = {l}
      BY <2>1, <2>3
    <3>2. Cardinality(S) = 1
      BY <3>1, FS_Singleton
    <3> QED
      BY <3>2 DEF LeaderStartsOncePerEngine
  <2> QED
    BY <2>2, <2>3
<1>2. EngineInv => NoDuplicateRequest
  BY DEF EngineInv, HeldInv, OneRequest, NoDuplicateRequest, Live, Buses
<1>3. LeaderInv /\ EngineInv => NothingTwice
  BY <1>1, <1>2 DEF NothingTwice
<1> QED
  BY <1>3, LineInvariance, EngineInvariance, PTL
=============================================================================

------------------------- MODULE TimedEventsProofs -------------------------
(***************************************************************************)
(* Theorems about TimedEvents, for every set of definitions, occurrences   *)
(* and revisions and every number and kind of faults.                      *)
(***************************************************************************)
EXTENDS TimedEvents, SequenceTheorems, WellFoundedInduction, TLAPS

----------------------------------------------------------------------------
(* Sequences. *)
LEMMA HeadTail ==
  ASSUME NEW S, NEW s \in Seq(S), s # <<>>
  PROVE  /\ Head(s) \in S /\ Head(s) \in Elements(s)
         /\ Tail(s) \in Seq(S) /\ Elements(Tail(s)) \subseteq Elements(s)
<1>1. Head(s) \in S /\ Tail(s) \in Seq(S)
  BY HeadTailProperties
<1>2. Len(s) \in Nat /\ Len(s) >= 1 /\ Head(s) = s[1] /\ DOMAIN s = 1 .. Len(s)
  OBVIOUS
<1>3. Len(Tail(s)) = Len(s) - 1 /\ \A i \in 1 .. Len(Tail(s)) : Tail(s)[i] = s[i + 1]
  BY HeadTailProperties
<1>4. DOMAIN Tail(s) = 1 .. (Len(s) - 1)
  BY <1>1, <1>3
<1> QED
  BY <1>1, <1>2, <1>3, <1>4 DEF Elements

LEMMA Appended ==
  ASSUME NEW S, NEW s \in Seq(S), NEW e \in S
  PROVE  /\ Append(s, e) \in Seq(S) /\ Elements(Append(s, e)) = Elements(s) \cup {e}
         /\ Len(Append(s, e)) = Len(s) + 1 /\ Append(s, e)[Len(s) + 1] = e
         /\ \A i \in 1 .. Len(s) : Append(s, e)[i] = s[i]
<1>1. /\ Append(s, e) \in Seq(S) /\ Len(Append(s, e)) = Len(s) + 1
      /\ \A i \in 1 .. Len(s) : Append(s, e)[i] = s[i]
      /\ Append(s, e)[Len(s) + 1] = e
  BY AppendProperties
<1>2. Len(s) \in Nat /\ DOMAIN s = 1 .. Len(s) /\ DOMAIN Append(s, e) = 1 .. (Len(s) + 1)
  BY <1>1
<1> QED
  BY <1>1, <1>2 DEF Elements

LEMMA Prepended ==
  ASSUME NEW S, NEW s \in Seq(S), NEW e \in S
  PROVE  /\ <<e>> \o s \in Seq(S) /\ Elements(<<e>> \o s) = Elements(s) \cup {e}
         /\ Len(<<e>> \o s) = Len(s) + 1 /\ (<<e>> \o s)[1] = e
         /\ \A i \in 1 .. Len(s) : (<<e>> \o s)[i + 1] = s[i]
<1>1. <<e>> \in Seq(S) /\ Len(<<e>>) = 1 /\ <<e>>[1] = e /\ Len(s) \in Nat
  OBVIOUS
<1>2. /\ <<e>> \o s \in Seq(S) /\ Len(<<e>> \o s) = Len(s) + 1
      /\ (<<e>> \o s)[1] = e /\ \A i \in 1 .. Len(s) : (<<e>> \o s)[i + 1] = s[i]
  BY <1>1
<1>3. DOMAIN s = 1 .. Len(s) /\ DOMAIN (<<e>> \o s) = 1 .. (Len(s) + 1)
  BY <1>2
<1>4. ASSUME NEW i \in 2 .. (Len(s) + 1) PROVE i - 1 \in 1 .. Len(s) /\ (<<e>> \o s)[i] = s[i - 1]
  BY <1>1, <1>2, <1>4
<1>5. Elements(<<e>> \o s) \subseteq Elements(s) \cup {e}
  BY <1>1, <1>2, <1>3, <1>4 DEF Elements
<1>6. Elements(s) \cup {e} \subseteq Elements(<<e>> \o s)
  <2>1. ASSUME NEW i \in 1 .. Len(s) PROVE s[i] \in Elements(<<e>> \o s)
    <3>1. i + 1 \in 1 .. (Len(s) + 1) /\ (<<e>> \o s)[i + 1] = s[i]
      BY <1>1, <1>2
    <3> QED
      BY <1>3, <3>1 DEF Elements
  <2>2. e \in Elements(<<e>> \o s)
    <3>1. 1 \in 1 .. (Len(s) + 1)
      BY <1>1
    <3> QED
      BY <1>2, <1>3, <3>1 DEF Elements
  <2> QED
    BY <1>3, <2>1, <2>2 DEF Elements
<1> QED
  BY <1>2, <1>5, <1>6

LEMMA NothingIn == Elements(<<>>) = {}
BY DEF Elements

(* Induction over the naturals, for a set of them. *)
Smaller == {p \in Nat \X Nat : p[1] < p[2]}
LEMMA SmallerWellFounded == IsWellFoundedOn(Smaller, Nat)
BY NatLessThanWellFounded DEF OpToRel, Smaller

LEMMA Induction ==
  ASSUME NEW G, 0 \in G, \A n \in Nat : n \in G => n + 1 \in G
  PROVE  Nat \subseteq G
<1> DEFINE B == Nat \ G
<1> SUFFICES ASSUME B # {} PROVE FALSE
  OBVIOUS
<1>1. B \in SUBSET Nat
  OBVIOUS
<1>2. PICK x \in B : \A y \in B : ~(<<y, x>> \in Smaller)
  <2> HIDE DEF B
  <2> QED
    BY <1>1, SmallerWellFounded, WFMin, Zenon
<1>3. x \in Nat /\ x # 0 /\ x - 1 \in Nat
  BY <1>2
<1>4. <<x - 1, x>> \in Smaller
  BY <1>3 DEF Smaller
<1>5. x - 1 \in G
  BY <1>2, <1>3, <1>4
<1>6. x - 1 + 1 = x
  BY <1>3
<1> QED
  BY <1>2, <1>3, <1>5, <1>6

(* Without(s, gone): the recursion defines a function, and what it keeps.  *)
Keeping(s, gone, k, f) ==
  f = [n \in 0 .. k |-> IF n = 0 THEN <<>>
                        ELSE IF s[n] \in gone THEN f[n - 1] ELSE Append(f[n - 1], s[n])]

LEMMA KeepingExists ==
  ASSUME NEW s, NEW gone
  PROVE  \A k \in Nat : \E f : Keeping(s, gone, k, f)
<1> DEFINE G == {k \in Nat : \E f : Keeping(s, gone, k, f)}
<1>1. 0 \in G
  <2> DEFINE f == [n \in 0 .. 0 |-> <<>>]
  <2>1. Keeping(s, gone, 0, f)
    BY DEF Keeping
  <2> QED
    BY <2>1
<1>2. ASSUME NEW k \in Nat, k \in G PROVE k + 1 \in G
  <2>1. PICK f : Keeping(s, gone, k, f)
    BY <1>2
  <2> DEFINE more == IF s[k + 1] \in gone THEN f[k] ELSE Append(f[k], s[k + 1])
             g == [n \in 0 .. (k + 1) |-> IF n = k + 1 THEN more ELSE f[n]]
  <2>2. \A n \in 0 .. k : g[n] = f[n] /\ n # k + 1
    BY <1>2
  <2>3. g[k + 1] = more
    BY <1>2
  <2>4. ASSUME NEW n \in 0 .. (k + 1)
        PROVE  g[n] = IF n = 0 THEN <<>>
                      ELSE IF s[n] \in gone THEN g[n - 1] ELSE Append(g[n - 1], s[n])
    <3>1. CASE n = k + 1
      <4>1. n # 0 /\ n - 1 = k /\ k \in 0 .. k
        BY <1>2, <3>1
      <4> QED
        BY <2>2, <2>3, <3>1, <4>1
    <3>2. CASE n \in 0 .. k
      <4>1. n # 0 => n - 1 \in 0 .. k
        BY <1>2, <3>2
      <4>2. f[n] = IF n = 0 THEN <<>>
                   ELSE IF s[n] \in gone THEN f[n - 1] ELSE Append(f[n - 1], s[n])
        BY <2>1, <3>2 DEF Keeping
      <4> QED
        BY <2>2, <3>2, <4>1, <4>2
    <3> QED
      BY <1>2, <3>1, <3>2
  <2>5. Keeping(s, gone, k + 1, g)
    <3> HIDE DEF g
    <3>1. g = [n \in 0 .. (k + 1) |-> g[n]]
      BY DEF g
    <3> QED
      BY <2>4, <3>1 DEF Keeping
  <2>6. k + 1 \in Nat
    BY <1>2
  <2> QED
    BY <2>5, <2>6
<1> HIDE DEF G
<1>3. Nat \subseteq G
  BY <1>1, <1>2, Induction
<1> QED
  BY <1>3 DEF G

OnceIn(s, d) == \A i, j \in DOMAIN s : s[i] = d /\ s[j] = d => i = j

LEMMA WithoutKeeps ==
  ASSUME NEW S, NEW s \in Seq(S), NEW gone
  PROVE  /\ Without(s, gone) \in Seq(S)
         /\ Elements(Without(s, gone)) = Elements(s) \ gone
         /\ \A d : OnceIn(s, d) => OnceIn(Without(s, gone), d)
<1> DEFINE L == Len(s)
           f == CHOOSE h : Keeping(s, gone, L, h)
           P(n) == /\ f[n] \in Seq(S) /\ Elements(f[n]) = {s[i] : i \in 1 .. n} \ gone
                   /\ \A d : OnceIn(s, d) => OnceIn(f[n], d)
           G == {n \in Nat : n <= L => P(n)}
<1>1. L \in Nat /\ DOMAIN s = 1 .. L
  OBVIOUS
<1>2. Keeping(s, gone, L, f)
  BY <1>1, KeepingExists
<1>3. Without(s, gone) = f[L]
  BY DEF Without, Keeping
<1> HIDE DEF f
<1>4. f[0] = <<>> /\ \A n \in 1 .. L : f[n] = IF s[n] \in gone THEN f[n - 1] ELSE Append(f[n - 1], s[n])
  <2>1. \A n \in 0 .. L : f[n] = IF n = 0 THEN <<>>
                              ELSE IF s[n] \in gone THEN f[n - 1] ELSE Append(f[n - 1], s[n])
    BY <1>2 DEF Keeping
  <2>2. 0 \in 0 .. L /\ \A n \in 1 .. L : n \in 0 .. L /\ n # 0
    BY <1>1
  <2> QED
    BY <2>1, <2>2
<1>5. 0 \in G
  <2>1. f[0] \in Seq(S) /\ DOMAIN f[0] = {}
    BY <1>4
  <2>2. {s[i] : i \in 1 .. 0} = {}
    OBVIOUS
  <2> QED
    BY <2>1, <2>2 DEF Elements, OnceIn
<1>6. ASSUME NEW n \in Nat, n \in G PROVE n + 1 \in G
  <2> SUFFICES ASSUME n + 1 <= L PROVE P(n + 1)
    BY <1>6
  <2>1. P(n) /\ n + 1 \in 1 .. L /\ n + 1 - 1 = n /\ s[n + 1] \in S
    BY <1>1, <1>6
  <2>2. {s[i] : i \in 1 .. (n + 1)} = {s[i] : i \in 1 .. n} \cup {s[n + 1]}
    BY <1>6
  <2>3. f[n + 1] = IF s[n + 1] \in gone THEN f[n] ELSE Append(f[n], s[n + 1])
    BY <1>4, <2>1
  <2>4. CASE s[n + 1] \in gone
    BY <2>1, <2>2, <2>3, <2>4
  <2>5. CASE s[n + 1] \notin gone
    <3>1. /\ f[n + 1] \in Seq(S) /\ Elements(f[n + 1]) = Elements(f[n]) \cup {s[n + 1]}
          /\ Len(f[n + 1]) = Len(f[n]) + 1 /\ f[n + 1][Len(f[n]) + 1] = s[n + 1]
          /\ \A i \in 1 .. Len(f[n]) : f[n + 1][i] = f[n][i]
      BY <2>1, <2>3, <2>5, Appended
    <3>2. ASSUME NEW d, OnceIn(s, d) PROVE OnceIn(f[n + 1], d)
      <4>1. OnceIn(f[n], d) /\ DOMAIN f[n] = 1 .. Len(f[n]) /\ Len(f[n]) \in Nat
        BY <2>1, <3>2
      <4>2. DOMAIN f[n + 1] = 1 .. (Len(f[n]) + 1)
        BY <3>1, <4>1
      <4>3. ASSUME s[n + 1] = d PROVE \A i \in 1 .. Len(f[n]) : f[n][i] # d
        <5>1. ASSUME NEW i \in 1 .. Len(f[n]), f[n][i] = d PROVE FALSE
          <6>1. d \in {s[j] : j \in 1 .. n}
            BY <2>1, <4>1, <5>1 DEF Elements
          <6>2. PICK j \in 1 .. n : s[j] = d
            BY <6>1
          <6>3. j \in DOMAIN s /\ n + 1 \in DOMAIN s /\ j # n + 1
            BY <1>1, <2>1, <1>6, <6>2
          <6> QED
            BY <3>2, <4>3, <6>2, <6>3 DEF OnceIn
        <5> QED
          BY <5>1
      <4>4. \A i \in 1 .. (Len(f[n]) + 1) : i \in 1 .. Len(f[n]) \/ i = Len(f[n]) + 1
        BY <4>1
      <4> QED
        BY <3>1, <4>1, <4>2, <4>3, <4>4 DEF OnceIn
    <3> QED
      BY <2>1, <2>2, <2>5, <3>1, <3>2
  <2> QED
    BY <2>4, <2>5
<1> HIDE DEF G
<1>7. Nat \subseteq G
  BY <1>5, <1>6, Induction
<1>8. P(L)
  <2> HIDE DEF P
  <2>1. L \in G /\ L <= L
    BY <1>1, <1>7
  <2> QED
    BY <2>1 DEF G
<1>9. {s[i] : i \in 1 .. L} = Elements(s)
  BY <1>1 DEF Elements
<1> QED
  BY <1>3, <1>8, <1>9

----------------------------------------------------------------------------
(* Types, and what they rest on. *)
LogLine == [kind: {"START", "END"}, dec: Decision]
RowType ==
  /\ revision \in [Event -> 1..MaxRevision] /\ enabled \in [Event -> BOOLEAN]
  /\ generated \in [Event -> BOOLEAN]
  /\ state \in [Occ -> States] /\ byUser \in [Occ -> BOOLEAN] /\ rev \in [Occ -> 0..MaxRevision]
  /\ reserved \in [Occ -> BOOLEAN] /\ sel \in [Occ -> 0..MaxRevision]
DecType ==
  /\ status \in [Decision -> Statuses] /\ bound \in [Decision -> Nat]
  /\ job \in [Decision -> {"none", "pending", "done"}]
EngineType ==
  /\ epoch \in Nat /\ queue \in Seq(Decision) /\ onair \in Decision \cup {Silence, Music}
  /\ log \in Seq(LogLine)
WorkerType ==
  /\ pc \in {"collect", "inventory", "reconcile", "resolve", "timed", "expire", "sweep",
             "scan", "adopted", "check", "submit", "push", "ack"}
  /\ seen \subseteq Decision /\ rows \subseteq Occ
  /\ missing \in [Decision -> {"no", "open", "closed"}]
  /\ cur \in Occ \cup {0} /\ dec \in Decision \cup {NoDecision} /\ held \in BOOLEAN
BoundType == now \in 0..MaxTime /\ faults \in 0..MaxFault

Considering == pc \in {"check", "submit", "push", "ack"}
Decided     == pc \in {"submit", "push", "ack"}

(* The occurrence a pass has in hand is not played by anything else. *)
PassOK ==
  /\ Considering => cur \in Occ /\ state[cur] \in {"PENDING", "READY", "CANCELLED"}
  /\ Decided => dec \in Decision /\ dec.occ = cur
  /\ pc = "adopted" => cur \in Occ /\ state[cur] \in {"PENDING", "QUEUED", "CANCELLED"}

(* A revision is prepared after the edits that made it, and a decision is   *)
(* linked to the occurrence from its preparation to a cancellation.         *)
RevisionOK ==
  /\ \A o \in Occ : rev[o] <= revision[EventOf[o]] /\ sel[o] <= rev[o]
  /\ \A o \in Occ : ~generated[EventOf[o]] => rev[o] < revision[EventOf[o]]
  /\ \A o \in Occ : /\ state[o] # "absent" => rev[o] > 0
                    /\ state[o] \in {"absent", "PENDING", "CANCELLED"} => sel[o] = 0
                    /\ state[o] = "READY" => sel[o] > 0

IInv == RowType /\ DecType /\ EngineType /\ WorkerType /\ BoundType /\ PassOK /\ RevisionOK

USE DefinitionAssumption, BoundsAssumption

LEMMA IInvType == IInv => TypeOK
<1> SUFFICES ASSUME IInv PROVE TypeOK
  OBVIOUS
<1>1. RowType /\ DecType /\ EngineType /\ WorkerType /\ BoundType
  BY DEF IInv
<1>2. LogLine = [kind: {"START", "END"}, dec: Decision]
  BY DEF LogLine
<1> QED
  BY <1>1, <1>2 DEF RowType, DecType, EngineType, WorkerType, BoundType, TypeOK

LEMMA OccFacts ==
  /\ \A o \in Occ : EventOf[o] \in Event
  /\ \A d \in Decision : d.occ \in Occ /\ d.rev \in 1..MaxRevision
  /\ NoDecision \notin Decision /\ Silence \notin Decision /\ Music \notin Decision
<1>1. \A o \in Occ : EventOf[o] \in Event
  OBVIOUS
<1>2. \A d \in Decision : d.occ \in Occ /\ d.rev \in 1..MaxRevision
  BY DEF Decision
<1>3. 0 \notin Occ /\ NoDecision.occ = 0 /\ Silence.occ = 0 /\ Music.occ = 0
  BY DEF Occ, NoDecision, Silence, Music
<1> QED
  BY <1>1, <1>2, <1>3

LEMMA InitIInv == Init => IInv
<1> SUFFICES ASSUME Init PROVE IInv
  OBVIOUS
<1>1. RowType
  BY DEF Init, RowType, States
<1>2. DecType
  BY DEF Init, DecType, Statuses
<1>3. EngineType
  BY DEF Init, EngineType
<1>4. WorkerType /\ BoundType
  <2>1. missing = [d \in Decision |-> "no"] /\ seen = {} /\ rows = {} /\ cur = 0 /\ dec = NoDecision /\ held = FALSE
    BY DEF Init
  <2>2. pc = "collect" /\ now = 0 /\ faults = 0
    BY DEF Init
  <2>3. missing \in [Decision -> {"no", "open", "closed"}]
    BY <2>1
  <2> QED
    <3>1. now \in 0..MaxTime /\ faults \in 0..MaxFault
      BY <2>2
    <3>2. seen \subseteq Decision /\ rows \subseteq Occ
      BY <2>1
    <3>3. cur \in Occ \cup {0} /\ dec \in Decision \cup {NoDecision} /\ held \in BOOLEAN
      BY <2>1
    <3> QED
      BY <2>2, <2>3, <3>1, <3>2, <3>3 DEF WorkerType, BoundType
<1>5. PassOK
  BY DEF Init, PassOK, Considering, Decided
<1>6. RevisionOK
  BY OccFacts DEF Init, RevisionOK
<1> QED
  BY <1>1, <1>2, <1>3, <1>4, <1>5, <1>6 DEF IInv

(* The web's transactions. *)
LEMMA CancelRows ==
  ASSUME IInv, NEW os \in SUBSET Occ, NEW user \in BOOLEAN, Cancel(os, user), UNCHANGED rev
  PROVE  /\ state' \in [Occ -> States] /\ byUser' \in [Occ -> BOOLEAN] /\ rev' \in [Occ -> 0..MaxRevision]
         /\ reserved' \in [Occ -> BOOLEAN] /\ sel' \in [Occ -> 0..MaxRevision] /\ DecType'
         /\ \A o \in Occ : IF o \in os THEN state'[o] = "CANCELLED" /\ sel'[o] = 0
                          ELSE state'[o] = state[o] /\ sel'[o] = sel[o]
         /\ \A o \in Occ : byUser'[o] = (IF o \in os THEN user ELSE byUser[o]) /\ (o \in os => ~reserved'[o])
<1>1. state' \in [Occ -> States] /\ byUser' \in [Occ -> BOOLEAN] /\ rev' \in [Occ -> 0..MaxRevision]
  BY DEF IInv, RowType, Cancel, States
<1>2. reserved' \in [Occ -> BOOLEAN] /\ sel' \in [Occ -> 0..MaxRevision]
  <2>1. reserved' = [o \in Occ |-> IF o \in os THEN FALSE ELSE reserved[o]]
    BY DEF Cancel
  <2>2. sel' = [o \in Occ |-> IF o \in os THEN 0 ELSE sel[o]]
    BY DEF Cancel
  <2>3. 0 \in 0..MaxRevision
    OBVIOUS
  <2>4. \A o \in Occ : reserved[o] \in BOOLEAN /\ sel[o] \in 0..MaxRevision
    BY DEF IInv, RowType
  <2>5. reserved' \in [Occ -> BOOLEAN]
    BY <2>1, <2>4
  <2> QED
    BY <2>2, <2>3, <2>4, <2>5
<1>3. DecType'
  BY DEF IInv, DecType, Cancel, Statuses
<1>4. \A o \in Occ : IF o \in os THEN state'[o] = "CANCELLED" /\ sel'[o] = 0
                     ELSE state'[o] = state[o] /\ sel'[o] = sel[o]
  BY DEF Cancel
<1>5. \A o \in Occ : byUser'[o] = (IF o \in os THEN user ELSE byUser[o]) /\ (o \in os => ~reserved'[o])
  BY DEF Cancel
<1> QED
  BY <1>1, <1>2, <1>3, <1>4, <1>5

(* Rows that move on, with their revision and their decision kept. *)
Settling == {"QUEUED", "STARTED", "COMPLETED", "MISSED", "FAILED"}
LEMMA KeepsRevision ==
  ASSUME IInv, UNCHANGED <<revision, generated, rev, sel>>,
         \A o \in Occ : state'[o] = state[o] \/ (state'[o] \in Settling /\ state[o] # "absent")
  PROVE  RevisionOK'
BY DEF IInv, RevisionOK, Settling

LEMMA ReviveRows ==
  ASSUME IInv, Scheduled, UNCHANGED <<revision, enabled, byUser, reserved, sel>>,
         \A o \in Occ : IF o \in Revived THEN state'[o] = "PENDING"
                        ELSE state'[o] = state[o] \/ (state'[o] = "STARTED" /\ state[o] # "absent"),
         state' \in [Occ -> States]
  PROVE  RowType' /\ RevisionOK'
<1>1. \A o \in Occ : EventOf[o] \in Event /\ revision[EventOf[o]] \in 1..MaxRevision
  BY OccFacts DEF IInv, RowType
<1>2. /\ rev' = [o \in Occ |-> IF o \in Revived THEN revision[EventOf[o]] ELSE rev[o]]
      /\ generated' = [e \in Event |-> generated[e] \/ e \in Stale]
  BY DEF Scheduled
<1>3. rev' \in [Occ -> 0..MaxRevision]
  <2>1. \A o \in Occ : rev[o] \in 0..MaxRevision /\ revision[EventOf[o]] \in 0..MaxRevision
    BY <1>1 DEF IInv, RowType
  <2> QED
    BY <1>2, <2>1
<1>4. generated' \in [Event -> BOOLEAN]
  BY <1>2 DEF IInv, RowType
<1>5. RowType'
  BY <1>3, <1>4 DEF IInv, RowType
<1>6. \A o \in Revived : sel[o] = 0 /\ state[o] \in {"absent", "CANCELLED"} /\ ~generated[EventOf[o]]
  BY DEF Revived, Stale, IInv, RevisionOK
<1>7. \A o \in Occ : rev[o] \in Nat /\ sel[o] \in Nat /\ revision[EventOf[o]] \in Nat \ {0}
  BY <1>1 DEF IInv, RowType
<1>8. \A o \in Occ : rev'[o] <= revision'[EventOf[o]] /\ sel'[o] <= rev'[o]
  BY <1>2, <1>6, <1>7 DEF IInv, RevisionOK
<1>9. \A o \in Occ : ~generated'[EventOf[o]] => ~generated[EventOf[o]] /\ EventOf[o] \notin Stale
  BY <1>1, <1>2
<1>10. \A o \in Occ : ~generated'[EventOf[o]] => rev'[o] < revision'[EventOf[o]]
  BY <1>2, <1>9 DEF IInv, RevisionOK, Revived
<1>11. \A o \in Occ : /\ state'[o] # "absent" => rev'[o] > 0
                      /\ state'[o] \in {"absent", "PENDING", "CANCELLED"} => sel'[o] = 0
                      /\ state'[o] = "READY" => sel'[o] > 0
  BY <1>2, <1>6, <1>7 DEF IInv, RevisionOK
<1> QED
  BY <1>5, <1>8, <1>10, <1>11 DEF RevisionOK

LEMMA WebIInv ==
  ASSUME IInv, WebGenerate \/ (\E o \in Occ : CancelOccurrence(o))
               \/ \E e \in Event, on \in BOOLEAN : Invalidate(e, on)
  PROVE  IInv'
<1>1. CASE WebGenerate
  <2>1. \A o \in Occ : state'[o] = IF o \in Revived THEN "PENDING" ELSE state[o]
    BY <1>1 DEF WebGenerate
  <2>2. state' \in [Occ -> States]
    BY <1>1 DEF WebGenerate, IInv, RowType, States
  <2>3. RowType' /\ RevisionOK'
    BY <1>1, <2>1, <2>2, ReviveRows DEF WebGenerate
  <2>4. UNCHANGED <<decVars, engineVars, memVars, now, faults>>
    BY <1>1 DEF WebGenerate
  <2>5. DecType' /\ EngineType' /\ WorkerType' /\ BoundType'
    BY <2>4 DEF IInv, DecType, EngineType, WorkerType, BoundType, decVars, engineVars, memVars
  <2>6. PassOK'
    BY <2>1, <2>4 DEF IInv, PassOK, Considering, Decided, memVars
  <2> QED
    BY <2>3, <2>5, <2>6 DEF IInv
<1>2. ASSUME NEW os \in SUBSET Occ, NEW user \in BOOLEAN, Cancel(os, user),
             UNCHANGED <<engineVars, memVars, now, faults>>
      PROVE  EngineType' /\ WorkerType' /\ BoundType' /\ PassOK'
  <2>1. EngineType' /\ WorkerType' /\ BoundType'
    BY <1>2 DEF IInv, EngineType, WorkerType, BoundType, engineVars, memVars
  <2>2. UNCHANGED rev
    BY <1>2 DEF Cancel
  <2>3. \A o \in Occ : state'[o] \in {state[o], "CANCELLED"}
    BY <1>2, <2>2, CancelRows
  <2> QED
    BY <1>2, <2>1, <2>3 DEF IInv, PassOK, Considering, Decided, memVars
<1>3. ASSUME NEW o \in Occ, CancelOccurrence(o) PROVE IInv'
  <2>1. Cancel({o}, TRUE) /\ UNCHANGED <<eventVars, engineVars, memVars, now, faults, rev>>
    BY <1>3 DEF CancelOccurrence, Cancel
  <2>2. EngineType' /\ WorkerType' /\ BoundType' /\ PassOK'
    BY <1>2, <2>1
  <2>3. RowType' /\ DecType'
    BY <2>1, CancelRows DEF IInv, RowType, eventVars
  <2>4. \A p \in Occ : IF p \in {o} THEN state'[p] = "CANCELLED" /\ sel'[p] = 0
                       ELSE state'[p] = state[p] /\ sel'[p] = sel[p]
    <3> DEFINE os == {o}
    <3>1. os \in SUBSET Occ /\ Cancel(os, TRUE) /\ UNCHANGED rev
      BY <2>1
    <3> HIDE DEF os
    <3>2. \A p \in Occ : IF p \in os THEN state'[p] = "CANCELLED" /\ sel'[p] = 0
                         ELSE state'[p] = state[p] /\ sel'[p] = sel[p]
      BY <3>1, CancelRows
    <3> QED
      BY <3>2 DEF os
  <2>5. state[o] # "absent"
    BY <1>3 DEF CancelOccurrence, Cancellable, Waiting
  <2>6. \A p \in Occ : rev[p] \in Nat
    BY DEF IInv, RowType
  <2>7. RevisionOK'
    BY <2>1, <2>4, <2>5, <2>6 DEF IInv, RevisionOK, eventVars
  <2> QED
    BY <2>2, <2>3, <2>7 DEF IInv
<1>4. ASSUME NEW e \in Event, NEW on \in BOOLEAN, Invalidate(e, on) PROVE IInv'
  <2> DEFINE os == {o \in OccOf(e) : Cancellable(o)}
  <2>1. /\ Cancel(os, FALSE) /\ UNCHANGED <<engineVars, memVars, now, faults, rev>>
        /\ revision[e] < MaxRevision /\ os \in SUBSET Occ
        /\ revision' = [revision EXCEPT ![e] = @ + 1] /\ enabled' = [enabled EXCEPT ![e] = on]
        /\ generated' = [generated EXCEPT ![e] = FALSE]
    BY <1>4 DEF Invalidate, Cancel, OccOf
  <2>2. EngineType' /\ WorkerType' /\ BoundType' /\ PassOK'
    BY <1>2, <2>1
  <2>3. revision' \in [Event -> 1..MaxRevision] /\ enabled' \in [Event -> BOOLEAN] /\ generated' \in [Event -> BOOLEAN]
    <3>1. revision[e] + 1 \in 1..MaxRevision
      BY <2>1 DEF IInv, RowType
    <3> QED
      BY <2>1, <3>1 DEF IInv, RowType
  <2>4. RowType' /\ DecType'
    BY <2>1, <2>3, CancelRows DEF RowType
  <2>5. \A p \in Occ : IF p \in os THEN state'[p] = "CANCELLED" /\ sel'[p] = 0
                       ELSE state'[p] = state[p] /\ sel'[p] = sel[p]
    <3>1. os \in SUBSET Occ /\ Cancel(os, FALSE) /\ UNCHANGED rev
      BY <2>1
    <3> HIDE DEF os
    <3> QED
      BY <3>1, CancelRows
  <2>6. \A p \in os : state[p] # "absent"
    BY DEF Cancellable, Waiting
  <2>9. \A p \in Occ : EventOf[p] \in Event
    BY OccFacts
  <2>7. ASSUME NEW p \in Occ
        PROVE  /\ rev[p] \in Nat /\ revision[EventOf[p]] \in Nat
               /\ revision'[EventOf[p]] = IF EventOf[p] = e THEN revision[EventOf[p]] + 1 ELSE revision[EventOf[p]]
               /\ generated'[EventOf[p]] = IF EventOf[p] = e THEN FALSE ELSE generated[EventOf[p]]
    <3>1. rev[p] \in Nat /\ revision[EventOf[p]] \in Nat
      BY <2>9 DEF IInv, RowType
    <3>2. revision'[EventOf[p]] = IF EventOf[p] = e THEN revision[EventOf[p]] + 1 ELSE revision[EventOf[p]]
      BY <2>1, <2>9 DEF IInv, RowType
    <3>3. generated'[EventOf[p]] = IF EventOf[p] = e THEN FALSE ELSE generated[EventOf[p]]
      BY <2>1, <2>9 DEF IInv, RowType
    <3> QED
      BY <3>1, <3>2, <3>3
  <2>8. RevisionOK'
    <3> HIDE DEF os
    <3>1. \A p \in Occ : rev'[p] = rev[p] /\ sel[p] \in Nat
      BY <2>1 DEF IInv, RowType
    <3>2. ASSUME NEW p \in Occ
          PROVE  /\ rev'[p] <= revision'[EventOf[p]] /\ sel'[p] <= rev'[p]
                 /\ ~generated'[EventOf[p]] => rev'[p] < revision'[EventOf[p]]
      <4>1. rev[p] <= revision[EventOf[p]] /\ sel[p] <= rev[p] /\ (~generated[EventOf[p]] => rev[p] < revision[EventOf[p]])
        BY DEF IInv, RevisionOK
      <4>2. sel'[p] \in {0, sel[p]}
        BY <2>5
      <4>6. rev[p] \in Nat /\ revision[EventOf[p]] \in Nat /\ rev'[p] = rev[p] /\ sel[p] \in Nat
        BY <2>7, <3>1
      <4>3. sel'[p] <= rev'[p]
        BY <4>1, <4>2, <4>6
      <4>4. CASE EventOf[p] = e
        <5>1. revision'[EventOf[p]] = revision[EventOf[p]] + 1
          BY <2>7, <4>4
        <5>2. rev'[p] < revision'[EventOf[p]]
          BY <4>1, <4>6, <5>1
        <5> QED
          BY <4>1, <4>3, <4>6, <5>1, <5>2
      <4>5. CASE EventOf[p] # e
        <5>1. revision'[EventOf[p]] = revision[EventOf[p]] /\ generated'[EventOf[p]] = generated[EventOf[p]]
          BY <2>7, <4>5
        <5> QED
          BY <4>1, <4>3, <4>6, <5>1
      <4> QED
        BY <4>4, <4>5
    <3>5. \A p \in Occ : rev'[p] <= revision'[EventOf[p]] /\ sel'[p] <= rev'[p]
      BY <3>2
    <3>6. \A p \in Occ : ~generated'[EventOf[p]] => rev'[p] < revision'[EventOf[p]]
      BY <3>2
    <3>4. \A p \in Occ : /\ state'[p] # "absent" => rev'[p] > 0
                         /\ state'[p] \in {"absent", "PENDING", "CANCELLED"} => sel'[p] = 0
                         /\ state'[p] = "READY" => sel'[p] > 0
      BY <2>5, <2>6, <3>1 DEF IInv, RevisionOK
    <3> QED
      BY <3>4, <3>5, <3>6 DEF RevisionOK
  <2> QED
    BY <2>2, <2>4, <2>8 DEF IInv
<1> QED
  BY <1>1, <1>3, <1>4

(* What leaves the rows, or the types, of a party alone. *)
LEMMA RowsRest == ASSUME IInv, UNCHANGED <<eventVars, occVars>> PROVE RowType' /\ RevisionOK'
BY DEF IInv, RowType, RevisionOK, eventVars, occVars
LEMMA DecsRest == ASSUME IInv, UNCHANGED decVars PROVE DecType'
BY DEF IInv, DecType, decVars
LEMMA EngineRests == ASSUME IInv, UNCHANGED engineVars PROVE EngineType'
BY DEF IInv, EngineType, engineVars
LEMMA WorkerRests == ASSUME IInv, UNCHANGED memVars PROVE WorkerType'
BY DEF IInv, WorkerType, memVars
LEMMA BoundsRest == ASSUME IInv, UNCHANGED <<now, faults>> PROVE BoundType'
BY DEF IInv, BoundType
LEMMA FaultCounts == ASSUME IInv, NEW kind, Fault(kind), UNCHANGED now PROVE BoundType'
BY DEF IInv, BoundType, Fault
LEMMA PassRests == ASSUME IInv, UNCHANGED <<pc, cur, dec, state>> PROVE PassOK'
BY DEF IInv, PassOK, Considering, Decided
LEMMA NotConsidering == ASSUME pc' \notin {"adopted", "check", "submit", "push", "ack"} PROVE PassOK'
BY DEF PassOK, Considering, Decided

LEMMA EngineIInv ==
  ASSUME IInv, Engine \/ EngineRestart \/ Tick \/ \E d \in Decision : WindowCloses(d)
  PROVE  IInv'
<1>1. UNCHANGED <<eventVars, occVars, decVars, pc, seen, rows, cur, dec, held>>
  BY DEF Engine, Starts, MusicStarts, MusicEnds, Ends, EngineRestart, Tick, WindowCloses, memVars
<1>2. RowType' /\ RevisionOK' /\ DecType' /\ PassOK'
  BY <1>1, RowsRest, DecsRest, PassRests DEF occVars
<1>3. missing' \in [Decision -> {"no", "open", "closed"}]
  <2>1. CASE \E d \in Decision : WindowCloses(d)
    BY <2>1 DEF WindowCloses, IInv, WorkerType
  <2>2. CASE Engine \/ EngineRestart \/ Tick
    BY <2>2 DEF Engine, Starts, MusicStarts, MusicEnds, Ends, EngineRestart, Tick, memVars, IInv, WorkerType
  <2> QED
    BY <2>1, <2>2
<1>4. WorkerType'
  BY <1>1, <1>3 DEF IInv, WorkerType
<1>5. BoundType'
  BY DEF Engine, Starts, MusicStarts, MusicEnds, Ends, EngineRestart, Tick, WindowCloses, Fault, IInv, BoundType
<1>6. EngineType'
  <2> USE DEF IInv, EngineType
  <2>1. CASE Starts
    <3>1. Head(queue) \in Decision /\ Tail(queue) \in Seq(Decision)
      BY <2>1, HeadTail DEF Starts
    <3>2. Line("START", Head(queue)) \in LogLine
      BY <3>1 DEF Line, LogLine
    <3>3. Append(log, Line("START", Head(queue))) \in Seq(LogLine)
      BY <3>2, Appended
    <3> QED
      BY <2>1, <3>1, <3>3 DEF Starts
  <2>2. ASSUME NEW w \in BOOLEAN, Ends(w) PROVE EngineType'
    <3>1. Line("END", onair) \in LogLine
      BY <2>2 DEF Ends, Line, LogLine
    <3>2. Append(log, Line("END", onair)) \in Seq(LogLine)
      BY <3>1, Appended
    <3> QED
      BY <2>2, <3>2 DEF Ends
  <2>3. CASE MusicStarts \/ MusicEnds
    BY <2>3 DEF MusicStarts, MusicEnds
  <2>4. CASE EngineRestart
    BY <2>4 DEF EngineRestart
  <2>5. CASE Tick \/ \E d \in Decision : WindowCloses(d)
    BY <2>5 DEF Tick, WindowCloses, engineVars
  <2> QED
    BY <2>1, <2>2, <2>3, <2>4, <2>5 DEF Engine
<1> QED
  BY <1>2, <1>4, <1>5, <1>6 DEF IInv

LEMMA HoldsType == ASSUME IInv PROVE Holds \subseteq Decision
BY DEF IInv, EngineType, Holds, Elements

(* The worker's steps up to the scan. *)
LEMMA FollowIInv == ASSUME IInv, Follow PROVE IInv'
<1>1. CASE Record
  <2> DEFINE d == Head(log).dec
  <2>1. Head(log) \in LogLine /\ Tail(log) \in Seq(LogLine)
    BY <1>1, HeadTail DEF Record, IInv, EngineType
  <2>2. d \in Decision /\ d.occ \in Occ
    <3>1. \A l \in LogLine : l.dec \in Decision
      BY DEF LogLine
    <3>2. d \in Decision
      BY <2>1, <3>1
    <3> HIDE DEF d
    <3>3. d.occ \in Occ
      BY <3>2 DEF Decision
    <3> QED
      BY <3>2, <3>3
  <2>3. /\ UNCHANGED <<eventVars, byUser, rev, reserved, sel, job, epoch, queue, onair, memVars, now, faults>>
        /\ log' = Tail(log) /\ pc = "collect"
    BY <1>1 DEF Record, memVars
  <2>4. EngineType' /\ WorkerType' /\ BoundType' /\ PassOK'
    BY <2>1, <2>3, WorkerRests, BoundsRest, NotConsidering DEF IInv, EngineType, memVars
  <2>5. (Linked(d) => sel[d.occ] # 0)
    BY <2>2, OccFacts DEF Linked
  <2>6. CASE Confirm(d)
    <3>1. DecType'
      <4> HIDE DEF d
      <4>1. status' \in {status, [status EXCEPT ![d] = "started"]} /\ bound' \in {bound, [bound EXCEPT ![d] = epoch]}
        BY <2>6 DEF Confirm
      <4>2. [status EXCEPT ![d] = "started"] \in [Decision -> Statuses]
        BY DEF IInv, DecType, Statuses
      <4>3. [bound EXCEPT ![d] = epoch] \in [Decision -> Nat]
        BY DEF IInv, DecType, EngineType
      <4> QED
        BY <2>3, <4>1, <4>2, <4>3 DEF IInv, DecType
    <3>2. \/ state' = state
          \/ state' = [state EXCEPT ![d.occ] = "STARTED"] /\ state[d.occ] # "absent"
      BY <2>2, <2>5, <2>6 DEF Confirm, IInv, RevisionOK
    <3>3. RowType' /\ RevisionOK'
      <4>1. RowType'
        BY <2>2, <2>3, <3>2 DEF IInv, RowType, States, eventVars
      <4>2. \A o \in Occ : state'[o] = state[o] \/ (state'[o] \in Settling /\ state[o] # "absent")
        BY <3>2 DEF Settling, IInv, RowType
      <4> QED
        BY <2>3, <4>1, <4>2, KeepsRevision DEF eventVars
    <3> QED
      BY <2>4, <3>1, <3>3 DEF IInv
  <2>7. CASE Finish(d)
    <3>1. DecType'
      BY <2>3, <2>7, DecsRest DEF Finish, decVars
    <3>2. \/ state' = state
          \/ state' = [state EXCEPT ![d.occ] = "COMPLETED"] /\ state[d.occ] # "absent"
      BY <2>7 DEF Finish
    <3>3. RowType' /\ RevisionOK'
      <4>1. RowType'
        BY <2>2, <2>3, <3>2 DEF IInv, RowType, States, eventVars
      <4>2. \A o \in Occ : state'[o] = state[o] \/ (state'[o] \in Settling /\ state[o] # "absent")
        BY <3>2 DEF Settling, IInv, RowType
      <4> QED
        BY <2>3, <4>1, <4>2, KeepsRevision DEF eventVars
    <3> QED
      BY <2>4, <3>1, <3>3 DEF IInv
  <2> QED
    BY <1>1, <2>6, <2>7 DEF Record
<1>2. CASE Collect \/ Inventory
  <2>1. UNCHANGED <<eventVars, occVars, decVars, engineVars, missing, rows, cur, dec, held, now, faults>>
    BY <1>2 DEF Collect, Inventory
  <2>2. pc' \in {"inventory", "reconcile"} /\ seen' \in {seen, Holds}
    BY <1>2 DEF Collect, Inventory
  <2>3. WorkerType' /\ PassOK'
    BY <2>1, <2>2, HoldsType, NotConsidering DEF IInv, WorkerType
  <2> QED
    BY <2>1, <2>3, RowsRest, DecsRest, EngineRests, BoundsRest DEF IInv
<1>3. CASE Reconcile
  <2>1. /\ UNCHANGED <<eventVars, byUser, rev, reserved, sel, bound, job, engineVars, rows, cur, dec, held, now, faults>>
        /\ pc' = "resolve" /\ seen' = Holds
    BY <1>3 DEF Reconcile
  <2>2. state' = [o \in Occ |->
       IF \/ o \in Interrupted
          \/ state[o] = "QUEUED" /\ sel[o] # 0 /\ Current(o) \in Lost
       THEN "FAILED" ELSE state[o]]
    BY <1>3 DEF Reconcile
  <2>3. RowType' /\ RevisionOK'
    <3>1. RowType'
      BY <2>1, <2>2 DEF IInv, RowType, States, eventVars
    <3>2. \A o \in Interrupted : state[o] = "STARTED"
      BY DEF Interrupted, Playing
    <3>3. \A o \in Occ : state'[o] = state[o] \/ (state'[o] \in Settling /\ state[o] # "absent")
      BY <2>2, <3>2 DEF Settling
    <3> QED
      BY <2>1, <3>1, <3>3, KeepsRevision DEF eventVars
  <2>4. DecType'
    <3>1. status' = [d \in Decision |-> IF d \in Lost THEN "failed" ELSE status[d]]
      BY <1>3 DEF Reconcile
    <3> QED
      BY <2>1, <3>1 DEF IInv, DecType, Statuses
  <2>5. missing' \in [Decision -> {"no", "open", "closed"}]
    BY <1>3 DEF Reconcile, IInv, WorkerType
  <2>6. WorkerType'
    BY <2>1, <2>5, HoldsType DEF IInv, WorkerType
  <2> QED
    BY <2>1, <2>3, <2>4, <2>6, EngineRests, BoundsRest, NotConsidering DEF IInv
<1>4. CASE Resolve
  <2>1. /\ UNCHANGED <<eventVars, occVars, job, engineVars, missing, rows, cur, dec, held, now, faults>>
        /\ pc' = "timed" /\ seen' = {}
    BY <1>4 DEF Resolve
  <2>2. DecType'
    BY <1>4 DEF Resolve, IInv, DecType, Statuses, EngineType
  <2>3. WorkerType' /\ PassOK'
    BY <2>1, NotConsidering DEF IInv, WorkerType
  <2> QED
    BY <2>1, <2>2, <2>3, RowsRest, EngineRests, BoundsRest DEF IInv
<1>5. CASE Refresh
  <2>1. /\ UNCHANGED <<revision, enabled, byUser, reserved, sel, decVars, engineVars, seen, missing, rows, cur, dec, held, now, faults>>
        /\ pc' = "expire" /\ Scheduled
        /\ state' = [o \in Occ |-> IF o \in Revived THEN "PENDING" ELSE IF o \in Began THEN "STARTED" ELSE state[o]]
    BY <1>5 DEF Refresh
  <2>2. \A o \in Began : state[o] # "absent"
    BY DEF Began, Waiting
  <2>3. \A o \in Occ : IF o \in Revived THEN state'[o] = "PENDING"
                       ELSE state'[o] = state[o] \/ (state'[o] = "STARTED" /\ state[o] # "absent")
    BY <2>1, <2>2
  <2>4. state' \in [Occ -> States]
    BY <2>1 DEF IInv, RowType, States
  <2>5. RowType' /\ RevisionOK'
    BY <2>1, <2>3, <2>4, ReviveRows
  <2>6. WorkerType' /\ PassOK'
    BY <2>1, NotConsidering DEF IInv, WorkerType
  <2> QED
    BY <2>1, <2>5, <2>6, DecsRest, EngineRests, BoundsRest DEF IInv
<1>6. CASE ExpireDue
  <2>1. /\ UNCHANGED <<eventVars, byUser, rev, reserved, sel, bound, job, engineVars, seen, missing, rows, cur, dec, held, now, faults>>
        /\ pc' = "sweep"
        /\ state' = [o \in Occ |-> IF o \in Expired \cup Repeated THEN "MISSED" ELSE state[o]]
    BY <1>6 DEF ExpireDue
  <2>2. \A o \in Expired \cup Repeated : state[o] \in {"PENDING", "READY"}
    BY DEF Expired, Repeated, Expirable
  <2>3. RowType' /\ RevisionOK'
    <3>1. RowType'
      BY <2>1 DEF IInv, RowType, States, eventVars
    <3>2. \A o \in Occ : state'[o] = state[o] \/ (state'[o] \in Settling /\ state[o] # "absent")
      BY <2>1, <2>2 DEF Settling
    <3> QED
      BY <2>1, <3>1, <3>2, KeepsRevision DEF eventVars
  <2>4. DecType'
    BY <1>6 DEF ExpireDue, IInv, DecType, Statuses
  <2>5. WorkerType' /\ PassOK'
    BY <2>1, NotConsidering DEF IInv, WorkerType
  <2> QED
    BY <2>1, <2>3, <2>4, <2>5, EngineRests, BoundsRest DEF IInv
<1>7. CASE Sweep
  <2>1. /\ UNCHANGED <<eventVars, occVars, bound, epoch, onair, log, seen, missing, cur, dec, held, now, faults>>
        /\ queue' = Without(queue, Found) /\ pc' \in {"collect", "scan"} /\ rows' \subseteq Occ
    BY <1>7 DEF Sweep
  <2>2. EngineType'
    BY <2>1, WithoutKeeps DEF IInv, EngineType
  <2>3. DecType'
    BY <1>7 DEF Sweep, IInv, DecType, Statuses
  <2>4. WorkerType' /\ PassOK'
    BY <2>1, NotConsidering DEF IInv, WorkerType
  <2> QED
    BY <2>1, <2>2, <2>3, <2>4, RowsRest, BoundsRest DEF IInv
<1> QED
  BY <1>1, <1>2, <1>3, <1>4, <1>5, <1>6, <1>7 DEF Follow

(* The scan. *)
LEMMA ScannedRests ==
  ASSUME IInv, UNCHANGED scanned
  PROVE  /\ EngineType' /\ BoundType'
         /\ UNCHANGED <<eventVars, byUser, rev, bound, job, epoch, queue, onair, log, seen, missing, now, faults>>
BY EngineRests, BoundsRest DEF scanned, engineVars

LEMMA CandidateIInv ==
  ASSUME IInv, NEW o \in Occ,
         \/ Adopt(o) \/ Miss(o) \/ Pass(o) \/ Prepare(o) \/ Unplayable(o) \/ Consider(o)
  PROVE  IInv'
<1>1. UNCHANGED scanned /\ (pc = "scan" \/ (pc = "adopted" /\ o = cur))
  BY DEF Adopt, Miss, Pass, Prepare, Unplayable, Consider, First, InHand, Eligible
<1>2. EngineType' /\ BoundType' /\ UNCHANGED <<eventVars, byUser, rev, bound, job, seen, missing>>
  BY <1>1, ScannedRests
<1>3. \A r : (rows \ {r}) \subseteq Occ
  BY DEF IInv, WorkerType
<1>4. ASSUME UNCHANGED <<reserved, sel>>, NEW x \in Settling, state' = [state EXCEPT ![o] = x], state[o] # "absent"
      PROVE  RowType' /\ RevisionOK'
  <2>1. state' \in [Occ -> States]
    <3>1. x \in States
      BY DEF Settling, States
    <3> QED
      BY <1>4, <3>1 DEF IInv, RowType
  <2>2. \A p \in Occ : state'[p] = state[p] \/ (state'[p] \in Settling /\ state[p] # "absent")
    BY <1>4 DEF IInv, RowType
  <2> QED
    BY <1>2, <1>4, <2>1, <2>2, KeepsRevision DEF IInv, RowType, eventVars
<1>5. CASE Adopt(o)
  <2>1. /\ state' = [state EXCEPT ![o] = "QUEUED"] /\ state[o] # "absent"
        /\ UNCHANGED <<reserved, sel, status, rows, dec, held>> /\ cur' = o /\ pc' = "adopted"
    BY <1>5 DEF Adopt, Adoptable
  <2>2. RowType' /\ RevisionOK'
    BY <1>4, <2>1 DEF Settling
  <2>3. DecType' /\ WorkerType'
    BY <1>2, <2>1 DEF IInv, DecType, WorkerType
  <2>4. PassOK'
    BY <2>1 DEF PassOK, Considering, Decided, IInv, RowType
  <2> QED
    BY <1>2, <2>2, <2>3, <2>4 DEF IInv
<1>6. CASE Miss(o)
  <2>1. /\ state' = [state EXCEPT ![o] = "MISSED"] /\ state[o] # "absent"
        /\ rows' = rows \ {o} /\ cur' = 0 /\ pc' = "scan" /\ UNCHANGED <<reserved, sel, dec, held>>
    BY <1>6 DEF Miss, Leave, InHand, Waiting, IInv, PassOK
  <2>2. RowType' /\ RevisionOK'
    BY <1>4, <2>1 DEF Settling
  <2>3. DecType'
    BY <1>2, <1>6 DEF Miss, IInv, DecType, Statuses
  <2>4. WorkerType' /\ PassOK'
    BY <1>1, <1>2, <1>3, <2>1, NotConsidering DEF IInv, WorkerType
  <2> QED
    BY <1>2, <2>2, <2>3, <2>4 DEF IInv
<1>7. CASE Pass(o)
  <2>1. /\ UNCHANGED <<state, reserved, sel, status, dec, held>>
        /\ rows' = rows \ {o} /\ cur' = 0 /\ pc' = "scan"
    BY <1>7 DEF Pass, Leave
  <2>2. RowType' /\ RevisionOK'
    BY <1>2, <2>1, RowsRest DEF occVars
  <2>3. DecType' /\ WorkerType' /\ PassOK'
    BY <1>1, <1>2, <1>3, <2>1, NotConsidering DEF IInv, DecType, WorkerType
  <2> QED
    BY <1>2, <2>2, <2>3 DEF IInv
<1>8. CASE Unplayable(o)
  <2>1. /\ state' = [state EXCEPT ![o] = "FAILED"] /\ state[o] # "absent"
        /\ rows' = rows \ {o} /\ cur' = 0 /\ pc' = "scan" /\ UNCHANGED <<reserved, sel, status, dec, held>>
    BY <1>8 DEF Unplayable, Leave
  <2>2. RowType' /\ RevisionOK'
    BY <1>4, <2>1 DEF Settling
  <2>3. DecType' /\ WorkerType' /\ PassOK'
    BY <1>1, <1>2, <1>3, <2>1, NotConsidering DEF IInv, DecType, WorkerType
  <2> QED
    BY <1>2, <2>2, <2>3 DEF IInv
<1>9. CASE Consider(o)
  <2>1. /\ UNCHANGED <<state, reserved, sel, status, rows, dec>> /\ state[o] = "READY"
        /\ cur' = o /\ pc' = "check" /\ held' \in BOOLEAN
    BY <1>9 DEF Consider
  <2>2. RowType' /\ RevisionOK'
    BY <1>2, <2>1, RowsRest DEF occVars
  <2>3. DecType'
    BY <1>2, <2>1 DEF IInv, DecType
  <2>4. WorkerType'
    BY <1>2, <2>1 DEF IInv, WorkerType
  <2>5. PassOK'
    BY <2>1 DEF PassOK, Considering, Decided
  <2> QED
    BY <1>2, <2>2, <2>3, <2>4, <2>5 DEF IInv
<1>10. CASE Prepare(o)
  <2> DEFINE d == [occ |-> o, rev |-> rev[o]]
  <2>1. /\ state' = [state EXCEPT ![o] = "READY"] /\ sel' = [sel EXCEPT ![o] = rev[o]]
        /\ status' = [status EXCEPT ![d] = "selected"] /\ state[o] = "PENDING"
        /\ cur' = o /\ pc' = "check" /\ UNCHANGED <<reserved, rows, dec, held>>
    BY <1>10 DEF Prepare
  <2>2. rev[o] \in 1..MaxRevision
    BY <2>1 DEF IInv, RowType, RevisionOK
  <2>3. state' \in [Occ -> States] /\ sel' \in [Occ -> 0..MaxRevision]
    <3>1. state' \in [Occ -> States]
      BY <2>1 DEF IInv, RowType, States
    <3>2. rev[o] \in 0..MaxRevision
      BY DEF IInv, RowType
    <3> QED
      BY <2>1, <3>1, <3>2 DEF IInv, RowType
  <2>4. RowType'
    BY <1>2, <2>1, <2>3 DEF IInv, RowType, eventVars
  <2>5. \A p \in Occ : /\ state'[p] = IF p = o THEN "READY" ELSE state[p]
                       /\ sel'[p] = IF p = o THEN rev[o] ELSE sel[p]
    BY <2>1 DEF IInv, RowType
  <2>6. RevisionOK'
    <3>1. UNCHANGED <<revision, generated, rev>>
      BY <1>2 DEF eventVars
    <3>2. \A p \in Occ : rev[p] \in Nat /\ sel[p] \in Nat
      BY DEF IInv, RowType
    <3>3. \A p \in Occ : rev'[p] <= revision'[EventOf[p]] /\ sel'[p] <= rev'[p]
      BY <2>5, <3>1, <3>2 DEF IInv, RevisionOK
    <3>4. \A p \in Occ : ~generated'[EventOf[p]] => rev'[p] < revision'[EventOf[p]]
      BY <3>1 DEF IInv, RevisionOK
    <3>5. \A p \in Occ : /\ state'[p] # "absent" => rev'[p] > 0
                         /\ state'[p] \in {"absent", "PENDING", "CANCELLED"} => sel'[p] = 0
                         /\ state'[p] = "READY" => sel'[p] > 0
      BY <2>1, <2>2, <2>5, <3>1 DEF IInv, RevisionOK
    <3> QED
      BY <3>3, <3>4, <3>5 DEF RevisionOK
  <2>7. DecType'
    <3>1. status' \in [Decision -> Statuses]
      BY <2>1 DEF IInv, DecType, Statuses
    <3> QED
      BY <1>2, <3>1 DEF IInv, DecType
  <2>8. WorkerType'
    BY <1>2, <2>1 DEF IInv, WorkerType
  <2>9. PassOK'
    BY <2>1, <2>5 DEF PassOK, Considering, Decided
  <2> QED
    BY <1>2, <2>4, <2>6, <2>7, <2>8, <2>9 DEF IInv
<1> QED
  BY <1>5, <1>6, <1>7, <1>8, <1>9, <1>10

LEMMA PassIInv ==
  ASSUME IInv, Wait \/ CutIn \/ Reserve \/ Submit \/ Push \/ PushFails \/ Ack \/ ScanDone \/ WorkerCrash
  PROVE  IInv'
<1> USE DEF Decided, Considering
<1>1. CASE Wait
  <2>1. /\ UNCHANGED <<state, reserved, sel, status, dec>> /\ UNCHANGED scanned
        /\ rows' = rows \ {cur} /\ cur' = 0 /\ pc' = "scan" /\ held' = FALSE
    BY <1>1 DEF Wait
  <2>2. EngineType' /\ BoundType' /\ UNCHANGED <<eventVars, occVars, decVars, seen, missing>>
    BY <2>1, ScannedRests DEF occVars, decVars
  <2>3. WorkerType' /\ PassOK'
    BY <2>1, <2>2, NotConsidering DEF IInv, WorkerType
  <2> QED
    BY <2>2, <2>3, RowsRest, DecsRest DEF IInv
<1>2. CASE CutIn \/ Reserve
  <2>1. /\ UNCHANGED <<eventVars, occVars, decVars, epoch, log, seen, missing, rows, cur, held, now, faults>>
        /\ dec' = Current(cur) /\ pc' = "submit" /\ pc = "check" /\ MayGo(cur)
        /\ queue' \in {queue, <<>>} /\ onair' \in {onair, Silence}
    BY <1>2, ScannedRests DEF CutIn, Reserve, occVars, decVars
  <2>2. cur \in Occ /\ state[cur] = "READY" /\ sel[cur] \in 1..MaxRevision
    <3>1. cur \in Occ /\ state[cur] = "READY"
      BY <2>1 DEF IInv, PassOK, MayGo
    <3> QED
      BY <3>1 DEF IInv, RevisionOK, RowType
  <2>3. dec' \in Decision /\ dec'.occ = cur
    BY <2>1, <2>2 DEF Current, Decision
  <2>4. WorkerType'
    BY <2>1, <2>3 DEF IInv, WorkerType
  <2>5. PassOK'
    BY <2>1, <2>2, <2>3 DEF PassOK, occVars
  <2>6. EngineType'
    <3>1. <<>> \in Seq(Decision)
      OBVIOUS
    <3>2. epoch' \in Nat /\ queue' \in Seq(Decision) /\ log' \in Seq(LogLine)
      BY <2>1, <3>1 DEF IInv, EngineType
    <3>3. onair' \in Decision \cup {Silence, Music}
      BY <2>1 DEF IInv, EngineType
    <3> QED
      BY <3>2, <3>3 DEF EngineType
  <2> QED
    BY <2>1, <2>4, <2>5, <2>6, RowsRest, DecsRest, BoundsRest DEF IInv
<1>3. CASE Submit
  <2>1. /\ UNCHANGED <<state, sel, rows, cur, dec>> /\ UNCHANGED scanned
        /\ status' = [status EXCEPT ![dec] = "submitting"]
        /\ reserved' \in {reserved, [reserved EXCEPT ![cur] = TRUE]}
        /\ pc = "submit" /\ pc' = "push" /\ held' = FALSE
    BY <1>3 DEF Submit
  <2>2. /\ EngineType' /\ BoundType'
        /\ UNCHANGED <<eventVars, byUser, rev, bound, job, seen, missing>>
    BY <2>1, ScannedRests
  <2>3. RowType' /\ RevisionOK'
    <3>1. reserved' \in [Occ -> BOOLEAN]
      BY <2>1 DEF IInv, RowType
    <3> QED
      BY <2>1, <2>2, <3>1 DEF IInv, RowType, RevisionOK, eventVars
  <2>4. DecType'
    <3>1. status' \in [Decision -> Statuses]
      BY <2>1 DEF IInv, DecType, Statuses
    <3> QED
      BY <2>2, <3>1 DEF IInv, DecType
  <2>5. WorkerType'
    BY <2>1, <2>2 DEF IInv, WorkerType
  <2>6. PassOK'
    BY <2>1 DEF IInv, PassOK
  <2> QED
    BY <2>2, <2>3, <2>4, <2>5, <2>6 DEF IInv
<1>4. ASSUME pc = "push", Accept PROVE queue' \in Seq(Decision)
  <2>1. dec \in Decision /\ queue \in Seq(Decision)
    BY <1>4 DEF IInv, PassOK, EngineType
  <2> QED
    BY <1>4, <2>1, Appended, Prepended DEF Accept
<1>5. CASE Push
  <2>1. /\ UNCHANGED <<eventVars, occVars, decVars, epoch, onair, log, seen, missing, rows, cur, dec, now, faults>>
        /\ pc = "push" /\ Accept /\ held' = Linked(dec) /\ pc' = "ack"
    BY <1>5 DEF Push
  <2>2. EngineType'
    BY <1>4, <2>1 DEF IInv, EngineType
  <2>3. WorkerType'
    BY <2>1 DEF IInv, WorkerType, Linked
  <2>4. PassOK'
    BY <2>1 DEF IInv, PassOK, occVars
  <2> QED
    BY <2>1, <2>2, <2>3, <2>4, RowsRest, DecsRest, BoundsRest DEF IInv
<1>6. CASE PushFails \/ ScanDone \/ WorkerCrash
  <2>1. UNCHANGED <<eventVars, occVars, decVars, epoch, onair, log>> /\ Restarted
    BY <1>6 DEF PushFails, ScanDone, WorkerCrash, engineVars
  <2>2. EngineType'
    <3>1. queue' = queue \/ (pc = "push" /\ Accept)
      BY <1>6 DEF PushFails, ScanDone, WorkerCrash, engineVars
    <3> QED
      BY <1>4, <2>1, <3>1 DEF IInv, EngineType
  <2>3. missing' \in [Decision -> {"no", "open", "closed"}]
    <3>1. missing' = missing \/ missing' = [d \in Decision |-> "no"]
      BY <1>6 DEF PushFails, ScanDone, WorkerCrash
    <3> QED
      BY <3>1 DEF IInv, WorkerType
  <2>4. WorkerType' /\ PassOK'
    BY <2>1, <2>3, NotConsidering DEF Restarted, WorkerType
  <2>5. BoundType'
    BY <1>6 DEF PushFails, ScanDone, WorkerCrash, Fault, IInv, BoundType
  <2> QED
    BY <2>1, <2>2, <2>4, <2>5, RowsRest, DecsRest DEF IInv
<1>7. CASE Ack
  <2>1. /\ UNCHANGED <<eventVars, byUser, rev, reserved, sel, job, engineVars, missing, now, faults>>
        /\ pc = "ack" /\ Restarted
        /\ status' = [status EXCEPT ![dec] = "queued"] /\ bound' = [bound EXCEPT ![dec] = epoch]
        /\ state' = [state EXCEPT ![cur] = "QUEUED"]
    BY <1>7 DEF Ack
  <2>2. cur \in Occ /\ state[cur] # "absent" /\ dec \in Decision
    BY <2>1 DEF IInv, PassOK
  <2>3. DecType'
    <3>1. status' \in [Decision -> Statuses]
      BY <2>1 DEF IInv, DecType, Statuses
    <3>2. bound' \in [Decision -> Nat]
      BY <2>1 DEF IInv, DecType, EngineType
    <3> QED
      BY <2>1, <3>1, <3>2 DEF IInv, DecType
  <2>4. state' \in [Occ -> States]
    BY <2>1 DEF IInv, RowType, States
  <2>5. RowType'
    BY <2>1, <2>4 DEF IInv, RowType, eventVars
  <2>6. \A p \in Occ : state'[p] = state[p] \/ (state'[p] \in Settling /\ state[p] # "absent")
    BY <2>1, <2>2 DEF Settling, IInv, RowType
  <2>7. RevisionOK'
    BY <2>1, <2>6, KeepsRevision DEF eventVars
  <2>8. WorkerType' /\ PassOK'
    BY <2>1, NotConsidering DEF Restarted, IInv, WorkerType
  <2> QED
    BY <2>1, <2>3, <2>5, <2>7, <2>8, EngineRests, BoundsRest DEF IInv
<1> QED
  BY <1>1, <1>2, <1>3, <1>5, <1>6, <1>7

LEMMA NextIInv == IInv /\ [Next]_vars => IInv'
<1> SUFFICES ASSUME IInv, [Next]_vars PROVE IInv'
  OBVIOUS
<1>1. CASE Web
  BY <1>1, WebIInv DEF Web
<1>2. CASE Engine \/ EngineRestart \/ Tick \/ \E d \in Decision : WindowCloses(d)
  BY <1>2, EngineIInv
<1>3. CASE Follow
  BY <1>3, FollowIInv
<1>4. CASE Scan \/ WorkerCrash
  BY <1>4, CandidateIInv, PassIInv DEF Scan
<1>5. CASE UNCHANGED vars
  BY <1>5, RowsRest, DecsRest, EngineRests, WorkerRests, BoundsRest, PassRests DEF vars, IInv, memVars, occVars
<1> QED
  BY <1>1, <1>2, <1>3, <1>4, <1>5 DEF Next, Worker, Faults

LEMMA Invariance == Spec => []IInv
BY InitIInv, NextIInv, PTL DEF Spec

(* The type invariant holds for every instance. *)
THEOREM TypeCorrect == Spec => []TypeOK
BY Invariance, IInvType, PTL

----------------------------------------------------------------------------
(* What a step may do to an occurrence. *)
Moves(o) ==
  \/ state'[o] = state[o]
  \/ o \in Revived /\ state'[o] = "PENDING"
  \/ state[o] = "PENDING" /\ state'[o] = "READY"
  \/ state[o] \in Waiting \cup {"CANCELLED"} /\ Cancellable(o) /\ state'[o] = "CANCELLED"
  \/ state[o] \in Waiting \cup {"CANCELLED"} /\ state'[o] = "QUEUED" /\ (state[o] \in Waiting \/ HandedOver(o))
  \/ state[o] \in Waiting /\ state'[o] \in {"STARTED", "FAILED"}
  \/ state[o] \in Waiting \cup {"CANCELLED"} /\ state'[o] = "MISSED" /\ ~reserved[o]
  \/ state[o] = "STARTED" /\ state'[o] \in {"COMPLETED", "FAILED"}
  \/ state'[o] = "STARTED" /\ sel[o] # 0 /\ status[Current(o)] # "started"
Links(o) ==
  /\ sel'[o] = sel[o] \/ state'[o] = "CANCELLED" \/ (state[o] = "PENDING" /\ state'[o] = "READY")
  /\ byUser'[o] = byUser[o] \/ (state'[o] = "CANCELLED" /\ Cancellable(o))
(* A decision confirmed as played is left alone once its occurrence has    *)
(* left the scan.                                                          *)
Kept(d) == (status[d] = "started" /\ state[d.occ] \notin {"PENDING", "READY", "CANCELLED"})
             => status'[d] = "started"
(* Completion is recorded for the decision that was confirmed.             *)
Completes(o) == (state'[o] = "COMPLETED" /\ state[o] # "COMPLETED")
                  => sel[o] # 0 /\ status[Current(o)] = "started"

LEMMA LinkedIsCurrent ==
  ASSUME NEW d \in Decision, Linked(d)
  PROVE  d = Current(d.occ) /\ sel[d.occ] # 0 /\ d.occ \in Occ
BY DEF Linked, Current, Decision

LEMMA RecordMoves ==
  ASSUME IInv, Record
  PROVE  \A o \in Occ : Moves(o) /\ Links(o) /\ Completes(o)
<1> DEFINE d == Head(log).dec
<1>1. d \in Decision /\ d.occ \in Occ
  <2>1. Head(log) \in LogLine
    BY HeadTail DEF Record, IInv, EngineType
  <2>2. \A l \in LogLine : l.dec \in Decision
    BY DEF LogLine
  <2>3. d \in Decision
    BY <2>1, <2>2
  <2> HIDE DEF d
  <2> QED
    BY <2>3 DEF Decision
<1>2. UNCHANGED <<byUser, sel>> /\ (Confirm(d) \/ Finish(d))
  BY DEF Record
<1> HIDE DEF d
<1>3. CASE Confirm(d)
  <2>1. state' = state \/ (Linked(d) /\ state' = [state EXCEPT ![d.occ] = "STARTED"] /\ status[d] # "started")
    BY <1>3 DEF Confirm
  <2>2. CASE state' = state
    BY <1>2, <2>2 DEF Moves, Links, Completes
  <2>3. CASE Linked(d) /\ state' = [state EXCEPT ![d.occ] = "STARTED"] /\ status[d] # "started"
    <3>1. d = Current(d.occ) /\ sel[d.occ] # 0
      BY <1>1, <2>3, LinkedIsCurrent
    <3>2. \A o \in Occ : state'[o] = IF o = d.occ THEN "STARTED" ELSE state[o]
      BY <2>3 DEF IInv, RowType
    <3> QED
      BY <1>2, <2>3, <3>1, <3>2 DEF Moves, Links, Completes
  <2> QED
    BY <2>1, <2>2, <2>3
<1>4. CASE Finish(d)
  <2>1. \/ state' = state
        \/ /\ status[d] = "started" /\ Linked(d) /\ state[d.occ] = "STARTED"
           /\ state' = [state EXCEPT ![d.occ] = "COMPLETED"]
    BY <1>4 DEF Finish
  <2>2. CASE state' = state
    BY <1>2, <2>2 DEF Moves, Links, Completes
  <2>3. CASE /\ status[d] = "started" /\ Linked(d) /\ state[d.occ] = "STARTED"
             /\ state' = [state EXCEPT ![d.occ] = "COMPLETED"]
    <3>1. d = Current(d.occ) /\ sel[d.occ] # 0
      BY <1>1, <2>3, LinkedIsCurrent
    <3>2. \A o \in Occ : state'[o] = IF o = d.occ THEN "COMPLETED" ELSE state[o]
      BY <2>3 DEF IInv, RowType
    <3> QED
      BY <1>2, <2>3, <3>1, <3>2 DEF Moves, Links, Completes
  <2> QED
    BY <2>1, <2>2, <2>3
<1> QED
  BY <1>2, <1>3, <1>4

LEMMA StepMoves ==
  ASSUME IInv, Next
  PROVE  \A o \in Occ : Moves(o) /\ Links(o) /\ Completes(o)
<1> USE DEF Moves, Links, Completes
<1>1. CASE WebGenerate
  BY <1>1 DEF WebGenerate
<1>2. CASE (\E o \in Occ : CancelOccurrence(o)) \/ \E e \in Event, on \in BOOLEAN : Invalidate(e, on)
  <2>1. PICK os \in SUBSET Occ, user \in BOOLEAN : Cancel(os, user) /\ \A o \in os : Cancellable(o)
    <3>1. CASE \E o \in Occ : CancelOccurrence(o)
      <4>1. PICK o \in Occ : CancelOccurrence(o)
        BY <3>1
      <4> DEFINE os == {o}
      <4>2. os \in SUBSET Occ /\ Cancel(os, TRUE) /\ Cancellable(o)
        BY <4>1 DEF CancelOccurrence
      <4>3. \A p \in os : Cancellable(p)
        BY <4>2
      <4> HIDE DEF os
      <4> QED
        BY <4>2, <4>3
    <3>2. CASE \E e \in Event, on \in BOOLEAN : Invalidate(e, on)
      <4>1. PICK e \in Event, on \in BOOLEAN : Invalidate(e, on)
        BY <3>2
      <4> DEFINE os == {o \in OccOf(e) : Cancellable(o)}
      <4>2. os \in SUBSET Occ /\ Cancel(os, FALSE) /\ \A o \in os : Cancellable(o)
        BY <4>1 DEF Invalidate, OccOf
      <4> HIDE DEF os
      <4> QED
        BY <4>2
    <3> QED
      BY <1>2, <3>1, <3>2
  <2>2. \A o \in Occ : IF o \in os THEN state'[o] = "CANCELLED"
                       ELSE UNCHANGED <<state[o], sel[o], byUser[o]>>
    BY <2>1 DEF Cancel
  <2> QED
    BY <2>1, <2>2 DEF Cancellable
<1>3. CASE \/ Engine \/ EngineRestart \/ Tick \/ \E d \in Decision : WindowCloses(d)
           \/ Collect \/ Inventory \/ Resolve \/ Sweep
           \/ Wait \/ CutIn \/ Reserve \/ Submit \/ Push \/ PushFails \/ ScanDone \/ WorkerCrash
  <2>1. UNCHANGED <<state, sel, byUser>>
    BY <1>3 DEF Engine, Starts, MusicStarts, MusicEnds, Ends, EngineRestart, Tick, WindowCloses, Collect,
                Inventory, Resolve, Sweep, Wait, CutIn, Reserve, Submit, Push, PushFails, ScanDone,
                WorkerCrash, occVars, scanned
  <2> QED
    BY <2>1
<1>4. CASE Record
  BY <1>4, RecordMoves
<1>5. CASE Reconcile
  <2>1. UNCHANGED <<byUser, sel>> /\ state' = [o \in Occ |->
       IF \/ o \in Interrupted
          \/ state[o] = "QUEUED" /\ sel[o] # 0 /\ Current(o) \in Lost
       THEN "FAILED" ELSE state[o]]
    BY <1>5 DEF Reconcile
  <2>2. \A o \in Interrupted : state[o] = "STARTED"
    BY DEF Interrupted, Playing
  <2> QED
    BY <2>1, <2>2 DEF Waiting
<1>6. CASE Refresh
  <2>1. /\ UNCHANGED <<byUser, sel>>
        /\ state' = [o \in Occ |-> IF o \in Revived THEN "PENDING" ELSE IF o \in Began THEN "STARTED" ELSE state[o]]
    BY <1>6 DEF Refresh
  <2>2. \A o \in Began : state[o] \in Waiting
    BY DEF Began
  <2> QED
    BY <2>1, <2>2
<1>7. CASE ExpireDue
  <2>1. /\ UNCHANGED <<byUser, sel>>
        /\ state' = [o \in Occ |-> IF o \in Expired \cup Repeated THEN "MISSED" ELSE state[o]]
    BY <1>7 DEF ExpireDue
  <2>2. \A o \in Expired \cup Repeated : state[o] \in Waiting /\ ~reserved[o]
    BY DEF Expired, Repeated, Expirable, Waiting
  <2> QED
    BY <2>1, <2>2
<1>8. ASSUME NEW o \in Occ,
             Adopt(o) \/ Miss(o) \/ Pass(o) \/ Prepare(o) \/ Unplayable(o) \/ Consider(o)
      PROVE  \A p \in Occ : Moves(p) /\ Links(p) /\ Completes(p)
  <2>1. UNCHANGED byUser
    BY <1>8 DEF Adopt, Miss, Pass, Prepare, Unplayable, Consider, scanned
  <2>2. CASE Adopt(o)
    <3>1. state' = [state EXCEPT ![o] = "QUEUED"] /\ UNCHANGED sel /\ state[o] \in Waiting
      BY <2>2 DEF Adopt, Adoptable, Waiting
    <3>2. \A p \in Occ : state'[p] = IF p = o THEN "QUEUED" ELSE state[p]
      BY <3>1 DEF IInv, RowType
    <3> QED
      BY <2>1, <3>1, <3>2
  <2>3. CASE Miss(o)
    <3>1. /\ state' = [state EXCEPT ![o] = "MISSED"] /\ UNCHANGED sel
          /\ state[o] \in Waiting \cup {"CANCELLED"} /\ ~reserved[o]
      BY <2>3 DEF Miss, Superseded, Overdue, InHand, Waiting, IInv, PassOK
    <3>2. \A p \in Occ : state'[p] = IF p = o THEN "MISSED" ELSE state[p]
      BY <3>1 DEF IInv, RowType
    <3> QED
      BY <2>1, <3>1, <3>2
  <2>4. CASE Pass(o) \/ Consider(o)
    <3>1. UNCHANGED <<state, sel>>
      BY <2>4 DEF Pass, Consider
    <3> QED
      BY <2>1, <3>1
  <2>5. CASE Prepare(o)
    <3>1. state' = [state EXCEPT ![o] = "READY"] /\ sel' = [sel EXCEPT ![o] = rev[o]] /\ state[o] = "PENDING"
      BY <2>5 DEF Prepare
    <3>2. \A p \in Occ : /\ state'[p] = IF p = o THEN "READY" ELSE state[p]
                         /\ sel'[p] = IF p = o THEN rev[o] ELSE sel[p]
      BY <3>1 DEF IInv, RowType
    <3> QED
      BY <2>1, <3>1, <3>2
  <2>6. CASE Unplayable(o)
    <3>1. state' = [state EXCEPT ![o] = "FAILED"] /\ UNCHANGED sel /\ state[o] \in Waiting
      BY <2>6 DEF Unplayable, Waiting
    <3>2. \A p \in Occ : state'[p] = IF p = o THEN "FAILED" ELSE state[p]
      BY <3>1 DEF IInv, RowType
    <3> QED
      BY <2>1, <3>1, <3>2
  <2> QED
    BY <1>8, <2>2, <2>3, <2>4, <2>5, <2>6
<1>9. CASE Ack
  <2>1. /\ state' = [state EXCEPT ![cur] = "QUEUED"] /\ UNCHANGED <<byUser, sel>>
        /\ cur \in Occ /\ state[cur] \in Waiting \cup {"CANCELLED"} /\ HandedOver(cur)
    BY <1>9 DEF Ack, IInv, PassOK, Considering, Waiting, HandedOver
  <2>2. \A p \in Occ : state'[p] = IF p = cur THEN "QUEUED" ELSE state[p]
    BY <2>1 DEF IInv, RowType
  <2> QED
    BY <2>1, <2>2
<1> HIDE DEF Moves, Links, Completes
<1> QED
  BY <1>1, <1>2, <1>3, <1>4, <1>5, <1>6, <1>7, <1>8, <1>9 DEF Next, Web, Worker, Follow, Scan, Faults

----------------------------------------------------------------------------
(* What a person cancelled is not scheduled again: no decision is linked to *)
(* it, nothing but the handover under way can make it wait in the queue,    *)
(* and only a pass that finds it late or repeated touches it, as missed.    *)
UserOK == \A o \in Occ : byUser[o] => state[o] \notin {"absent", "PENDING", "READY"} /\ sel[o] = 0

LEMMA InitUserOK == Init => UserOK
BY DEF Init, UserOK

LEMMA StepUserOK == IInv /\ UserOK /\ [Next]_vars => UserOK'
<1> SUFFICES ASSUME IInv, UserOK, Next PROVE UserOK'
  BY DEF vars, occVars, UserOK
<1>1. ASSUME NEW o \in Occ, byUser'[o]
      PROVE  state'[o] \notin {"absent", "PENDING", "READY"} /\ sel'[o] = 0
  <2>1. Moves(o) /\ Links(o)
    BY StepMoves
  <2>2. CASE state'[o] = "CANCELLED"
    <3>1. IInv'
      BY NextIInv
    <3> QED
      BY <2>2, <3>1 DEF IInv, RevisionOK
  <2>3. CASE state'[o] # "CANCELLED"
    <3>1. byUser[o]
      BY <1>1, <2>1, <2>3 DEF Links
    <3>2. state[o] \notin {"absent", "PENDING", "READY"} /\ sel[o] = 0
      BY <3>1 DEF UserOK
    <3>3. state'[o] \notin {"absent", "PENDING", "READY"}
      BY <2>1, <3>1, <3>2 DEF Moves, Revived, Waiting
    <3> QED
      BY <2>1, <2>3, <3>2, <3>3 DEF Links
  <2> QED
    BY <2>2, <2>3
<1> QED
  BY <1>1 DEF UserOK

(* Only what is ready begins to be handed over.                            *)
LEMMA HandedOverFrom ==
  ASSUME IInv, Next, NEW o \in Occ, HandedOver(o)'
  PROVE  HandedOver(o) \/ state[o] = "READY"
<1>1. CASE CutIn \/ Reserve
  BY <1>1 DEF CutIn, Reserve, MayGo, HandedOver
<1>2. CASE Submit \/ Push
  BY <1>2 DEF Submit, Push, HandedOver
<1>3. CASE PushFails \/ Ack \/ ScanDone \/ WorkerCrash \/ Wait
  BY <1>3 DEF PushFails, Ack, ScanDone, WorkerCrash, Wait, Restarted, HandedOver
<1>4. ASSUME NEW p \in Occ,
             Adopt(p) \/ Miss(p) \/ Pass(p) \/ Prepare(p) \/ Unplayable(p) \/ Consider(p)
      PROVE  FALSE
  BY <1>4 DEF Adopt, Miss, Pass, Leave, Prepare, Unplayable, Consider, HandedOver
<1>5. CASE Follow
  BY <1>5 DEF Follow, Collect, Record, Inventory, Reconcile, Resolve, Refresh, ExpireDue, Sweep, HandedOver
<1>6. CASE Web \/ Engine \/ EngineRestart \/ Tick \/ \E d \in Decision : WindowCloses(d)
  <2>1. UNCHANGED <<pc, cur>>
    BY <1>6 DEF Web, WebGenerate, CancelOccurrence, Invalidate, Engine, Starts, MusicStarts, MusicEnds, Ends,
                EngineRestart, Tick, WindowCloses, memVars
  <2> QED
    BY <2>1 DEF HandedOver
<1> QED
  BY <1>1, <1>2, <1>3, <1>4, <1>5, <1>6 DEF Next, Worker, Scan, Faults

(* "A durable exception so generation does not recreate it": an occurrence *)
(* that a person cancelled, and that the worker is not just handing to the *)
(* engine, never comes back, whatever is edited, generated, confirmed or   *)
(* crashes afterwards.                                                     *)
THEOREM CancelledForGood == Spec => CancellationSurvivesEdits
<1>1. IInv /\ UserOK /\ [Next]_vars
        => (\A o \in Occ : Withdrawn(o) => Withdrawn(o)') \/ UNCHANGED vars
  <2> SUFFICES ASSUME IInv, UserOK, Next, NEW o \in Occ, Withdrawn(o) PROVE Withdrawn(o)'
    OBVIOUS
  <2>1. /\ byUser[o] /\ state[o] \in {"CANCELLED", "MISSED"} /\ ~HandedOver(o) /\ sel[o] = 0
    BY DEF Withdrawn, UserOK
  <2>2. Moves(o) /\ Links(o)
    BY StepMoves
  <2>3. state'[o] \in {"CANCELLED", "MISSED"}
    BY <2>1, <2>2 DEF Moves, Revived, Waiting
  <2>4. byUser'[o]
    BY <2>1, <2>2 DEF Links, Cancellable, Waiting
  <2>5. ~HandedOver(o)'
    BY <2>1, <2>3, HandedOverFrom
  <2> QED
    BY <2>3, <2>4, <2>5 DEF Withdrawn
<1> QED
  BY <1>1, Invariance, InitUserOK, StepUserOK, PTL DEF Spec, CancellationSurvivesEdits

(* A boundary that stays reserved is not given up for lateness or for a    *)
(* later repeat, by expire_due or by the scan.                             *)
THEOREM ReservationHolds == Spec => ReservedIsNotMissed
<1>1. IInv /\ [Next]_vars
        => (\A o \in Occ : reserved[o] /\ reserved'[o] => ~(state[o] # "MISSED" /\ state'[o] = "MISSED"))
           \/ UNCHANGED vars
  <2> SUFFICES ASSUME IInv, Next
               PROVE  \A o \in Occ : reserved[o] /\ reserved'[o] => ~(state[o] # "MISSED" /\ state'[o] = "MISSED")
    OBVIOUS
  <2> QED
    BY StepMoves DEF Moves, Waiting
<1> QED
  BY <1>1, Invariance, PTL DEF Spec, ReservedIsNotMissed

----------------------------------------------------------------------------
(* What has played only settles. *)
CompletedOK == \A o \in Occ : state[o] = "COMPLETED" => sel[o] # 0 /\ status[Current(o)] = "started"
Settles == \A o \in Occ : /\ Settled(o) => state'[o] = state[o]
                          /\ state[o] = "STARTED" => state'[o] \in {"STARTED", "COMPLETED", "FAILED"}

LEMMA CurrentIs == ASSUME IInv, NEW o \in Occ, sel[o] # 0
                   PROVE  Current(o) \in Decision /\ Current(o).occ = o
BY DEF Current, Decision, IInv, RowType

LEMMA StepKept == ASSUME IInv, Next PROVE \A d \in Decision : Kept(d)
<1> USE DEF Kept
<1>1. CASE \/ Engine \/ EngineRestart \/ Tick \/ \E d \in Decision : WindowCloses(d)
           \/ WebGenerate \/ Collect \/ Inventory \/ Refresh
           \/ Wait \/ CutIn \/ Reserve \/ Push \/ PushFails \/ ScanDone \/ WorkerCrash
  <2>1. UNCHANGED status
    BY <1>1 DEF Engine, Starts, MusicStarts, MusicEnds, Ends, EngineRestart, Tick, WindowCloses, Collect,
                Inventory, Refresh, Wait, CutIn, Reserve, Push, PushFails, ScanDone, WebGenerate,
                WorkerCrash, decVars, scanned
  <2> QED
    BY <2>1
<1>2. CASE (\E o \in Occ : CancelOccurrence(o)) \/ \E e \in Event, on \in BOOLEAN : Invalidate(e, on)
  <2>1. PICK os, user : Cancel(os, user)
    BY <1>2 DEF CancelOccurrence, Invalidate
  <2> QED
    BY <2>1 DEF Cancel
<1>3. CASE Record
  <2>1. \E d : Confirm(d) \/ Finish(d)
    BY <1>3 DEF Record
  <2>2. PICK d : Confirm(d) \/ Finish(d)
    BY <2>1
  <2>3. status' = status \/ status' = [status EXCEPT ![d] = "started"]
    BY <2>2 DEF Confirm, Finish
  <2> QED
    BY <2>3 DEF IInv, DecType
<1>4. CASE Reconcile
  BY <1>4 DEF Reconcile, Lost, Gone
<1>5. CASE Resolve
  BY <1>5 DEF Resolve
<1>6. CASE ExpireDue
  BY <1>6 DEF ExpireDue
<1>7. CASE Sweep
  BY <1>7 DEF Sweep
<1>8. ASSUME NEW o \in Occ,
             Adopt(o) \/ Miss(o) \/ Pass(o) \/ Prepare(o) \/ Unplayable(o) \/ Consider(o)
      PROVE  \A d \in Decision : Kept(d)
  <2>1. CASE Adopt(o) \/ Pass(o) \/ Unplayable(o) \/ Consider(o)
    <3>1. UNCHANGED status
      BY <2>1 DEF Adopt, Pass, Unplayable, Consider
    <3> QED
      BY <3>1
  <2>2. CASE Miss(o)
    BY <2>2 DEF Miss
  <2>3. CASE Prepare(o)
    <3>1. status' = [status EXCEPT ![[occ |-> o, rev |-> rev[o]]] = "selected"] /\ state[o] = "PENDING"
      BY <2>3 DEF Prepare
    <3>2. \A d \in Decision : status'[d] = status[d] \/ d.occ = o
      BY <3>1 DEF IInv, DecType
    <3> QED
      BY <3>1, <3>2
  <2> QED
    BY <1>8, <2>1, <2>2, <2>3
<1>9. CASE Submit \/ Ack
  <2>1. \E x : status' = [status EXCEPT ![dec] = x]
    BY <1>9 DEF Submit, Ack
  <2>2. state[dec.occ] \in {"PENDING", "READY", "CANCELLED"}
    BY <1>9 DEF Submit, Ack, IInv, PassOK, Considering, Decided
  <2>3. \A d \in Decision : status'[d] = status[d] \/ d = dec
    BY <2>1 DEF IInv, DecType
  <2> QED
    BY <2>2, <2>3
<1> HIDE DEF Kept
<1> QED
  BY <1>1, <1>2, <1>3, <1>4, <1>5, <1>6, <1>7, <1>8, <1>9 DEF Next, Web, Worker, Follow, Scan, Faults

LEMMA InitCompletedOK == Init => CompletedOK
BY DEF Init, CompletedOK

LEMMA StepCompletedOK == IInv /\ CompletedOK /\ [Next]_vars => CompletedOK' /\ Settles
<1> SUFFICES ASSUME IInv, CompletedOK, [Next]_vars PROVE CompletedOK' /\ Settles
  OBVIOUS
<1>1. CASE UNCHANGED vars
  BY <1>1 DEF vars, occVars, decVars, CompletedOK, Settles, Current
<1>2. CASE Next
  <2>1. ASSUME NEW o \in Occ
        PROVE  /\ Settled(o) => state'[o] = state[o]
               /\ state[o] = "STARTED" => state'[o] \in {"STARTED", "COMPLETED", "FAILED"}
               /\ state'[o] = "COMPLETED" => sel'[o] # 0 /\ status'[[occ |-> o, rev |-> sel'[o]]] = "started"
    <3>1. Moves(o) /\ Links(o) /\ Completes(o)
      BY <1>2, StepMoves
    <3>2. Settled(o) => state'[o] = state[o]
      BY <3>1 DEF Settled, Moves, Revived, Waiting, CompletedOK
    <3>3. state[o] = "STARTED" => state'[o] \in {"STARTED", "COMPLETED", "FAILED"}
      BY <3>1 DEF Moves, Revived, Waiting
    <3>4. ASSUME state'[o] = "COMPLETED"
          PROVE  sel'[o] # 0 /\ status'[[occ |-> o, rev |-> sel'[o]]] = "started"
      <4>1. sel[o] # 0 /\ status[Current(o)] = "started" /\ sel'[o] = sel[o]
        BY <3>1, <3>4 DEF CompletedOK, Completes, Links
      <4>2. state[o] \in {"STARTED", "COMPLETED"}
        BY <3>1, <3>4 DEF Moves, Waiting
      <4>3. Current(o) \in Decision /\ Current(o).occ = o
        BY <4>1, CurrentIs
      <4>4. status'[Current(o)] = "started"
        BY <1>2, <4>1, <4>2, <4>3, StepKept DEF Kept
      <4> QED
        BY <4>1, <4>4 DEF Current
    <3> QED
      BY <3>2, <3>3, <3>4
  <2> QED
    BY <2>1 DEF CompletedOK, Settles, Current
<1> QED
  BY <1>1, <1>2

(* What has started can only complete or fail, and stays as it settled:    *)
(* no late confirmation, acknowledgement, edit, expiry or restart brings   *)
(* it back.                                                                *)
THEOREM PlayedSettles == Spec => PlayedOnlySettles
<1>1. Settles => \A o \in Occ : /\ Settled(o) => state'[o] = state[o]
                                /\ state[o] = "STARTED" => state'[o] \in {"STARTED", "COMPLETED", "FAILED"}
  BY DEF Settles
<1> QED
  BY <1>1, Invariance, InitCompletedOK, StepCompletedOK, PTL DEF Spec, PlayedOnlySettles

----------------------------------------------------------------------------
(* What a step may do to a decision, to the requests the engine holds and  *)
(* to the worker's pass.                                                   *)
InLog(d)   == Line("START", d) \in Elements(log)
Nowhere(d) == d \notin Elements(queue) /\ ~InLog(d)
Older(d)   == bound[d] \notin {0, epoch}     \* its engine has restarted since
Prepares(o) == state[o] = "PENDING" /\ state'[o] = "READY" /\ rev' = rev

StatusMoves(d) ==
  \/ status'[d] = status[d]
  \/ status[d] = "selected" /\ status'[d] = "failed"
  \/ pc = "collect" /\ InLog(d) /\ status[d] # "none" /\ status'[d] = "started"
  \/ pc = "reconcile" /\ status[d] = "queued" /\ status'[d] = "failed"
  \/ pc = "resolve" /\ status[d] = "submitting" /\ status'[d] = "queued" /\ bound'[d] = epoch
  \/ pc = "resolve" /\ status[d] = "submitting" /\ status'[d] = "selected" /\ d \notin seen
  \/ pc = "sweep" /\ job[d] = "pending" /\ status[d] # "started" /\ status'[d] = "failed"
  \/ pc \in {"scan", "adopted"} /\ status[d] = "submitting" /\ status'[d] = "failed"
  \/ pc \in {"scan", "adopted"} /\ Prepares(d.occ) /\ d.rev = rev[d.occ] /\ status'[d] = "selected"
  \/ pc = "submit" /\ pc' = "push" /\ d = dec /\ status'[d] = "submitting"
  \/ pc = "ack" /\ d = dec /\ status'[d] = "queued" /\ bound'[d] = epoch
JobMoves(d) ==
  \/ job'[d] = job[d]
  \/ status[d] \in {"queued", "submitting"} /\ job'[d] = "pending" /\ sel'[d.occ] = 0
  \/ pc = "sweep" /\ job[d] = "pending" /\ (d \in Elements(queue') => Older(d))
BoundMoves(d) ==
  \/ bound'[d] = bound[d]
  \/ bound'[d] = epoch /\ epoch' = epoch /\ (status[d] # "none" \/ (pc = "ack" /\ d = dec))
RevMoves(o) ==
  \/ rev'[o] = rev[o] /\ (state'[o] = "PENDING" => state[o] = "PENDING")
  \/ o \in Revived /\ rev'[o] = revision[EventOf[o]]
SelMoves(o) ==
  \/ sel'[o] \in {0, sel[o]}
  \/ pc \in {"scan", "adopted"} /\ Prepares(o) /\ sel'[o] = rev[o] /\ status'[[occ |-> o, rev |-> rev[o]]] = "selected"
HandMoves(d) ==
  /\ d \in Elements(queue') => d \in Elements(queue) \/ (pc = "push" /\ pc' # "push" /\ d = dec)
  /\ InLog(d)' => InLog(d) \/ (d \in Elements(queue) /\ (OnceIn(queue, d) => d \notin Elements(queue')))
  /\ OnceIn(queue, d) /\ (d \in Elements(queue) => ~(pc = "push" /\ d = dec)) => OnceIn(queue', d)
  /\ epoch' = epoch \/ (d \notin Elements(queue') /\ ~InLog(d)')
StageMoves ==
  \/ pc' = pc /\ dec' = dec /\ seen' = seen
  \/ pc' = "collect"
  \/ pc = "collect" /\ pc' = "inventory"
  \/ pc = "inventory" /\ pc' = "reconcile"
  \/ pc = "reconcile" /\ pc' = "resolve" /\ seen' = Holds /\ queue' = queue
  \/ pc = "resolve" /\ pc' = "timed" /\ \A d \in Decision : status'[d] # "submitting"
  \/ /\ pc = "timed" /\ pc' = "expire"
     /\ \A o \in Occ : state'[o] \in Waiting /\ sel'[o] # 0 => status'[[occ |-> o, rev |-> sel'[o]]] # "started"
  \/ pc \in {"expire", "sweep", "check"} /\ pc' \in {"sweep", "scan"}
  \/ pc \in {"scan", "adopted"} /\ pc' \in {"scan", "adopted", "check"}
  \/ pc = "check" /\ pc' = "submit" /\ cur \in Occ /\ state[cur] = "READY" /\ dec' = Current(cur)
  \/ pc = "submit" /\ pc' = "push" /\ dec' = dec /\ status'[dec] = "submitting"
  \/ pc = "push" /\ pc' = "ack" /\ dec' = dec
DecMoves  == \A d \in Decision : StatusMoves(d) /\ JobMoves(d) /\ BoundMoves(d)
RowMoves  == \A o \in Occ : RevMoves(o) /\ SelMoves(o)
Hands     == \A d \in Decision : HandMoves(d)
AllMoves  == DecMoves /\ RowMoves /\ Hands /\ StageMoves

LEMMA DecsStay == ASSUME UNCHANGED decVars PROVE DecMoves
BY DEF decVars, DecMoves, StatusMoves, JobMoves, BoundMoves
LEMMA RowsStay == ASSUME UNCHANGED <<state, rev, sel>> PROVE RowMoves
BY DEF RowMoves, RevMoves, SelMoves
LEMMA HandsStay == ASSUME UNCHANGED <<epoch, queue, log>> PROVE Hands
BY DEF Hands, HandMoves, InLog, OnceIn, Elements
LEMMA StageStays == ASSUME UNCHANGED <<pc, dec, seen>> PROVE StageMoves
BY DEF StageMoves

(* Sequences once more. *)
LEMMA OnceAfterTail ==
  ASSUME NEW S, NEW s \in Seq(S), s # <<>>, NEW d, OnceIn(s, d)
  PROVE  OnceIn(Tail(s), d) /\ (d = Head(s) => d \notin Elements(Tail(s)))
<1>1. Len(s) \in Nat /\ Len(s) >= 1 /\ Head(s) = s[1] /\ DOMAIN s = 1 .. Len(s)
  OBVIOUS
<1>2. Len(Tail(s)) = Len(s) - 1 /\ \A i \in 1 .. Len(Tail(s)) : Tail(s)[i] = s[i + 1]
  BY HeadTailProperties
<1>3. DOMAIN Tail(s) = 1 .. (Len(s) - 1)
  BY <1>2, HeadTailProperties
<1>4. \A i \in 1 .. (Len(s) - 1) : i + 1 \in 1 .. Len(s) /\ i + 1 # 1 /\ Tail(s)[i] = s[i + 1]
  BY <1>1, <1>2
<1>5. OnceIn(Tail(s), d)
  <2>1. ASSUME NEW i \in DOMAIN Tail(s), NEW j \in DOMAIN Tail(s), Tail(s)[i] = d, Tail(s)[j] = d
        PROVE  i = j
    <3>1. i + 1 = j + 1
      BY <1>1, <1>3, <1>4, <2>1 DEF OnceIn
    <3> QED
      BY <1>3, <3>1
  <2> QED
    BY <2>1 DEF OnceIn
<1>6. ASSUME d = Head(s), d \in Elements(Tail(s)) PROVE FALSE
  <2>1. PICK i \in 1 .. (Len(s) - 1) : Tail(s)[i] = d
    BY <1>3, <1>6 DEF Elements
  <2>2. 1 \in DOMAIN s /\ i + 1 \in DOMAIN s /\ s[1] = d /\ s[i + 1] = d /\ i + 1 # 1
    BY <1>1, <1>4, <1>6, <2>1
  <2> QED
    BY <2>2 DEF OnceIn
<1> QED
  BY <1>5, <1>6

(* A request put before or after what waits: itself once if it was not     *)
(* there, the others as often as before.                                   *)
LEMMA OnceAfterAccept ==
  ASSUME NEW S, NEW s \in Seq(S), NEW e \in S, NEW t, t = Append(s, e) \/ t = <<e>> \o s, NEW d, OnceIn(s, d),
         d \in Elements(s) => d # e
  PROVE  OnceIn(t, d)
<1>1. Len(s) \in Nat /\ DOMAIN s = 1 .. Len(s)
  OBVIOUS
<1>2. CASE t = Append(s, e)
  <2>1. /\ Len(t) = Len(s) + 1 /\ t[Len(s) + 1] = e /\ t \in Seq(S)
        /\ \A i \in 1 .. Len(s) : t[i] = s[i]
    BY <1>2, Appended
  <2>2. DOMAIN t = 1 .. (Len(s) + 1)
    BY <1>1, <2>1
  <2>3. \A i \in 1 .. (Len(s) + 1) : i \in 1 .. Len(s) \/ i = Len(s) + 1
    BY <1>1
  <2>4. \A i \in 1 .. Len(s) : s[i] = d => d # e
    BY <1>1 DEF Elements
  <2> QED
    BY <1>1, <2>1, <2>2, <2>3, <2>4 DEF OnceIn
<1>3. CASE t = <<e>> \o s
  <2>1. /\ Len(t) = Len(s) + 1 /\ t[1] = e /\ t \in Seq(S)
        /\ \A i \in 1 .. Len(s) : t[i + 1] = s[i]
    BY <1>3, Prepended
  <2>2. DOMAIN t = 1 .. (Len(s) + 1)
    BY <1>1, <2>1
  <2>3. \A i \in 1 .. (Len(s) + 1) : i = 1 \/ (i - 1 \in 1 .. Len(s) /\ t[i] = s[i - 1])
    <3>1. ASSUME NEW i \in 1 .. (Len(s) + 1), i # 1 PROVE i - 1 \in 1 .. Len(s) /\ t[i] = s[i - 1]
      <4>1. i - 1 \in 1 .. Len(s) /\ i - 1 + 1 = i
        BY <1>1, <3>1
      <4> QED
        BY <2>1, <4>1
    <3> QED
      BY <3>1
  <2>4. \A i \in 1 .. Len(s) : s[i] = d => d # e
    BY <1>1 DEF Elements
  <2>5. ASSUME NEW i \in DOMAIN t, NEW j \in DOMAIN t, t[i] = d, t[j] = d PROVE i = j
    <3>1. CASE i = 1 \/ j = 1
      BY <2>1, <2>2, <2>3, <2>4, <2>5, <3>1
    <3>2. CASE i # 1 /\ j # 1
      <4>1. i - 1 = j - 1
        BY <1>1, <2>2, <2>3, <2>5, <3>2 DEF OnceIn
      <4> QED
        BY <2>2, <4>1
    <3> QED
      BY <3>1, <3>2
  <2> QED
    BY <2>5 DEF OnceIn
<1> QED
  BY <1>2, <1>3

LEMMA StartOf ==
  ASSUME NEW kind, NEW d, NEW e, Line(kind, d) = Line("START", e)
  PROVE  kind = "START" /\ d = e
<1>1. Line(kind, d).kind = Line("START", e).kind /\ Line(kind, d).dec = Line("START", e).dec
  OBVIOUS
<1> QED
  BY <1>1 DEF Line

LEMMA WebMoves == ASSUME IInv, Web PROVE AllMoves
<1>1. UNCHANGED <<engineVars, memVars, bound>>
  BY DEF Web, WebGenerate, CancelOccurrence, Invalidate, Cancel, decVars
<1>2. Hands /\ StageMoves
  BY <1>1, HandsStay, StageStays DEF engineVars, memVars
<1>3. CASE WebGenerate
  <2>1. DecMoves
    BY <1>3, DecsStay DEF WebGenerate
  <2>2. UNCHANGED sel /\ Scheduled /\ state' = [o \in Occ |-> IF o \in Revived THEN "PENDING" ELSE state[o]]
    BY <1>3 DEF WebGenerate
  <2>3. RowMoves
    BY <2>2 DEF Scheduled, RowMoves, RevMoves, SelMoves
  <2> QED
    BY <1>2, <2>1, <2>3 DEF AllMoves
<1>4. ASSUME NEW os \in SUBSET Occ, NEW user, Cancel(os, user) PROVE DecMoves /\ RowMoves
  <2>1. /\ status' = [d \in Decision |->
              IF d \in {Current(o) : o \in {p \in os : sel[p] # 0}} /\ status[d] = "selected"
              THEN "failed" ELSE status[d]]
        /\ job' = [d \in Decision |->
              IF d \in {Current(o) : o \in {p \in os : sel[p] # 0}}
                 /\ status[d] \in {"queued", "submitting"} /\ job[d] = "none"
              THEN "pending" ELSE job[d]]
        /\ sel' = [o \in Occ |-> IF o \in os THEN 0 ELSE sel[o]]
        /\ state' = [o \in Occ |-> IF o \in os THEN "CANCELLED" ELSE state[o]]
        /\ UNCHANGED <<rev, bound>>
    BY <1>4 DEF Cancel
  <2>2. \A d \in {Current(o) : o \in {p \in os : sel[p] # 0}} : d.occ \in os
    BY DEF Current
  <2>3. DecMoves
    <3>1. \A d \in Decision : d \in {Current(o) : o \in {p \in os : sel[p] # 0}} => sel'[d.occ] = 0
      BY <2>1, <2>2
    <3> DEFINE old == {Current(o) : o \in {p \in os : sel[p] # 0}}
    <3> HIDE DEF old
    <3>2. \A d \in Decision :
            /\ status'[d] = status[d] \/ (status[d] = "selected" /\ status'[d] = "failed")
            /\ job'[d] = job[d] \/ (d \in old /\ status[d] \in {"queued", "submitting"} /\ job'[d] = "pending")
            /\ bound'[d] = bound[d]
      BY <2>1 DEF old
    <3> QED
      BY <3>1, <3>2 DEF old, DecMoves, StatusMoves, JobMoves, BoundMoves
  <2>4. RowMoves
    BY <2>1 DEF RowMoves, RevMoves, SelMoves
  <2> QED
    BY <2>3, <2>4
<1>5. ASSUME NEW o \in Occ, CancelOccurrence(o) PROVE AllMoves
  <2> DEFINE os == {o}
  <2>1. os \in SUBSET Occ /\ Cancel(os, TRUE)
    BY <1>5 DEF CancelOccurrence
  <2> HIDE DEF os
  <2> QED
    BY <1>2, <1>4, <2>1 DEF AllMoves
<1>6. ASSUME NEW e \in Event, NEW on \in BOOLEAN, Invalidate(e, on) PROVE AllMoves
  <2> DEFINE os == {o \in OccOf(e) : Cancellable(o)}
  <2>1. os \in SUBSET Occ /\ Cancel(os, FALSE)
    BY <1>6 DEF Invalidate, OccOf
  <2> HIDE DEF os
  <2> QED
    BY <1>2, <1>4, <2>1 DEF AllMoves
<1> QED
  BY <1>3, <1>5, <1>6 DEF Web

LEMMA EngineAllMoves ==
  ASSUME IInv, Engine \/ EngineRestart \/ Tick \/ \E d \in Decision : WindowCloses(d)
  PROVE  AllMoves
<1>1. UNCHANGED <<eventVars, occVars, decVars, pc, seen, rows, cur, dec, held>>
  BY DEF Engine, Starts, MusicStarts, MusicEnds, Ends, EngineRestart, Tick, WindowCloses, memVars
<1>2. DecMoves /\ RowMoves /\ StageMoves
  BY <1>1, DecsStay, RowsStay, StageStays DEF occVars
<1>3. queue \in Seq(Decision) /\ log \in Seq(LogLine)
  BY DEF IInv, EngineType
<1>4. CASE MusicStarts \/ MusicEnds \/ Tick \/ \E d \in Decision : WindowCloses(d)
  BY <1>2, <1>4, HandsStay DEF MusicStarts, MusicEnds, Tick, WindowCloses, engineVars, AllMoves
<1>5. CASE EngineRestart
  <2>1. queue' = <<>> /\ log' = <<>>
    BY <1>5 DEF EngineRestart
  <2>2. Elements(queue') = {} /\ Elements(log') = {} /\ DOMAIN queue' = {}
    BY <2>1, NothingIn
  <2>3. Hands
    BY <2>2 DEF Hands, HandMoves, InLog, OnceIn
  <2> QED
    BY <1>2, <2>3 DEF AllMoves
<1>6. CASE Starts
  <2>1. /\ queue # <<>> /\ queue' = Tail(queue) /\ log' = Append(log, Line("START", Head(queue)))
        /\ UNCHANGED epoch
    BY <1>6 DEF Starts
  <2>2. Head(queue) \in Decision /\ Head(queue) \in Elements(queue) /\ Elements(queue') \subseteq Elements(queue)
    BY <1>3, <2>1, HeadTail
  <2>3. Line("START", Head(queue)) \in LogLine
    BY <2>2 DEF Line, LogLine
  <2>4. Elements(log') = Elements(log) \cup {Line("START", Head(queue))}
    BY <1>3, <2>1, <2>3, Appended
  <2>5. ASSUME NEW d \in Decision PROVE HandMoves(d)
    <3>1. OnceIn(queue, d) => OnceIn(queue', d) /\ (d = Head(queue) => d \notin Elements(queue'))
      BY <1>3, <2>1, OnceAfterTail
    <3>2. InLog(d)' => InLog(d) \/ d = Head(queue)
      BY <2>4, StartOf DEF InLog
    <3> QED
      BY <2>1, <2>2, <3>1, <3>2 DEF HandMoves
  <2> QED
    BY <1>2, <2>5 DEF AllMoves, Hands
<1>7. ASSUME NEW w \in BOOLEAN, Ends(w) PROVE AllMoves
  <2>1. UNCHANGED <<queue, epoch>> /\ log' \in {log, Append(log, Line("END", onair))} /\ onair \in Decision
    BY <1>7 DEF Ends
  <2>2. Line("END", onair) \in LogLine
    BY <2>1 DEF Line, LogLine
  <2>3. Elements(log') \subseteq Elements(log) \cup {Line("END", onair)}
    <3>1. Elements(Append(log, Line("END", onair))) = Elements(log) \cup {Line("END", onair)}
      BY <1>3, <2>2, Appended
    <3> QED
      BY <2>1, <3>1
  <2>4. \A d \in Decision : Line("START", d) # Line("END", onair)
    BY StartOf
  <2>5. Hands
    BY <2>1, <2>3, <2>4 DEF Hands, HandMoves, InLog
  <2> QED
    BY <1>2, <2>5 DEF AllMoves
<1> QED
  BY <1>4, <1>5, <1>6, <1>7 DEF Engine

LEMMA RecordAllMoves == ASSUME IInv, Record PROVE AllMoves
<1> DEFINE d == Head(log).dec
<1>1. d \in Decision /\ Head(log) \in LogLine /\ Head(log) \in Elements(log) /\ Elements(log') \subseteq Elements(log)
  <2>1. Head(log) \in LogLine /\ Head(log) \in Elements(log) /\ Elements(log') \subseteq Elements(log)
    BY HeadTail DEF Record, IInv, EngineType
  <2>2. \A l \in LogLine : l.dec \in Decision
    BY DEF LogLine
  <2> QED
    BY <2>1, <2>2
<1>2. /\ pc = "collect" /\ UNCHANGED <<rev, sel, job, epoch, queue, pc, dec, seen>>
      /\ (Head(log).kind = "START" /\ Confirm(d)) \/ Finish(d)
  BY DEF Record
<1>3. Head(log).kind = "START" => InLog(d)
  <2>1. \A l \in LogLine : l.kind = "START" => l = Line("START", l.dec)
    BY DEF LogLine, Line
  <2> QED
    BY <1>1, <2>1 DEF InLog
<1> HIDE DEF d
<1>4. Hands /\ StageMoves
  BY <1>1, <1>2, StageStays DEF Hands, HandMoves, InLog
<1>5. RowMoves
  <2>1. \A o \in Occ : state'[o] = "PENDING" => state[o] = "PENDING"
    <3>1. state' = state \/ \E o \in Occ, x \in {"STARTED", "COMPLETED"} : state' = [state EXCEPT ![o] = x]
      <4>1. d.occ \in Occ
        BY <1>1 DEF Decision
      <4> QED
        BY <1>2, <4>1 DEF Confirm, Finish
    <3> QED
      BY <3>1 DEF IInv, RowType
  <2> QED
    BY <1>2, <2>1 DEF RowMoves, RevMoves, SelMoves
<1>6. DecMoves
  <2>1. CASE Finish(d)
    BY <1>2, <2>1, DecsStay DEF Finish, decVars
  <2>2. CASE InLog(d) /\ Confirm(d)
    <3>1. status' \in {status, [status EXCEPT ![d] = "started"]} /\ (status' # status => status[d] # "none")
      BY <2>2 DEF Confirm
    <3>2. bound' \in {bound, [bound EXCEPT ![d] = epoch]} /\ (bound' # bound => status[d] # "none")
      BY <2>2 DEF Confirm
    <3>3. ASSUME NEW e \in Decision PROVE StatusMoves(e)
      BY <1>1, <1>2, <2>2, <3>1 DEF StatusMoves, IInv, DecType
    <3>4. ASSUME NEW e \in Decision PROVE BoundMoves(e)
      BY <1>1, <1>2, <3>2 DEF BoundMoves, IInv, DecType
    <3>5. ASSUME NEW e \in Decision PROVE JobMoves(e)
      BY <1>2 DEF JobMoves
    <3> QED
      BY <3>3, <3>4, <3>5 DEF DecMoves
  <2> QED
    BY <1>2, <1>3, <2>1, <2>2
<1> QED
  BY <1>4, <1>5, <1>6 DEF AllMoves

LEMMA FollowMoves == ASSUME IInv, Follow PROVE AllMoves
<1>1. CASE Record
  BY <1>1, RecordAllMoves
<1>2. CASE Collect \/ Inventory
  <2>1. UNCHANGED <<occVars, decVars, engineVars>>
    BY <1>2 DEF Collect, Inventory
  <2>2. StageMoves
    BY <1>2 DEF Collect, Inventory, StageMoves
  <2> QED
    BY <2>1, <2>2, RowsStay, DecsStay, HandsStay DEF occVars, engineVars, AllMoves
<1>3. CASE Reconcile
  <2>1. /\ UNCHANGED <<rev, sel, bound, job, engineVars, dec>>
        /\ pc = "reconcile" /\ pc' = "resolve" /\ seen' = Holds
        /\ status' = [d \in Decision |-> IF d \in Lost THEN "failed" ELSE status[d]]
        /\ state' = [o \in Occ |->
             IF \/ o \in Interrupted
                \/ state[o] = "QUEUED" /\ sel[o] # 0 /\ Current(o) \in Lost
             THEN "FAILED" ELSE state[o]]
    BY <1>3 DEF Reconcile
  <2>2. \A d \in Lost : status[d] = "queued"
    BY DEF Lost, Gone
  <2>3. DecMoves
    BY <2>1, <2>2 DEF DecMoves, StatusMoves, JobMoves, BoundMoves
  <2>4. RowMoves
    BY <2>1 DEF RowMoves, RevMoves, SelMoves
  <2>5. StageMoves
    BY <2>1 DEF StageMoves, engineVars
  <2> QED
    BY <2>1, <2>3, <2>4, <2>5, HandsStay DEF engineVars, AllMoves
<1>4. CASE Resolve
  <2>1. /\ UNCHANGED <<occVars, job, engineVars, dec>> /\ pc = "resolve" /\ pc' = "timed"
        /\ status' = [d \in Decision |->
             IF d \in {e \in Decision : status[e] = "submitting"}
             THEN IF d \in seen THEN "queued" ELSE "selected" ELSE status[d]]
        /\ bound' = [d \in Decision |-> IF d \in {e \in Decision : status[e] = "submitting"} \cap seen
                                        THEN epoch ELSE bound[d]]
    BY <1>4 DEF Resolve
  <2>2. \A d \in Decision :
          /\ status'[d] = IF status[d] = "submitting" THEN IF d \in seen THEN "queued" ELSE "selected" ELSE status[d]
          /\ bound'[d] = IF status[d] = "submitting" /\ d \in seen THEN epoch ELSE bound[d]
    BY <2>1
  <2>3. DecMoves
    BY <2>1, <2>2 DEF DecMoves, StatusMoves, JobMoves, BoundMoves, engineVars
  <2>4. StageMoves
    BY <2>1, <2>2 DEF StageMoves
  <2> QED
    BY <2>1, <2>3, <2>4, RowsStay, HandsStay DEF engineVars, occVars, AllMoves
<1>5. CASE Refresh
  <2>1. /\ UNCHANGED <<sel, decVars, engineVars, dec>> /\ Scheduled
        /\ pc = "timed" /\ pc' = "expire"
        /\ state' = [o \in Occ |-> IF o \in Revived THEN "PENDING" ELSE IF o \in Began THEN "STARTED" ELSE state[o]]
    BY <1>5 DEF Refresh
  <2>2. RowMoves
    BY <2>1 DEF Scheduled, RowMoves, RevMoves, SelMoves
  <2>3. ASSUME NEW o \in Occ, state'[o] \in Waiting, sel'[o] # 0
        PROVE  status'[[occ |-> o, rev |-> sel'[o]]] # "started"
    <3>1. o \notin Revived
      BY <2>1, <2>3 DEF Revived, IInv, RevisionOK
    <3>2. o \notin Began
      BY <2>1, <2>3, <3>1 DEF Waiting
    <3>3. state'[o] = state[o]
      BY <2>1, <3>1, <3>2
    <3> QED
      BY <2>1, <2>3, <3>2, <3>3 DEF Began, Current, decVars
  <2>4. StageMoves
    BY <2>1, <2>3 DEF StageMoves
  <2> QED
    BY <2>1, <2>2, <2>4, DecsStay, HandsStay DEF engineVars, AllMoves
<1>6. CASE ExpireDue
  <2>1. /\ UNCHANGED <<rev, sel, bound, job, engineVars>> /\ pc = "expire" /\ pc' = "sweep"
        /\ state' = [o \in Occ |-> IF o \in Expired \cup Repeated THEN "MISSED" ELSE state[o]]
        /\ \A d \in Decision : status'[d] = status[d] \/ (status[d] = "selected" /\ status'[d] = "failed")
    BY <1>6 DEF ExpireDue
  <2>2. DecMoves
    BY <2>1 DEF DecMoves, StatusMoves, JobMoves, BoundMoves
  <2>3. RowMoves
    BY <2>1 DEF RowMoves, RevMoves, SelMoves
  <2>4. StageMoves
    BY <2>1 DEF StageMoves
  <2> QED
    BY <2>1, <2>2, <2>3, <2>4, HandsStay DEF engineVars, AllMoves
<1>7. CASE Sweep
  <2>1. /\ UNCHANGED <<occVars, bound, epoch, log, dec, seen>>
        /\ pc = "sweep" /\ pc' \in {"collect", "scan"} /\ queue' = Without(queue, Found)
        /\ status' = [d \in Decision |-> IF d \in Jobs /\ status[d] # "started" THEN "failed" ELSE status[d]]
        /\ job' = [d \in Decision |-> IF d \in Jobs THEN "done" ELSE job[d]]
    BY <1>7 DEF Sweep
  <2>2. /\ Elements(queue') = Elements(queue) \ Found
        /\ \A d : OnceIn(queue, d) => OnceIn(queue', d)
    BY <2>1, WithoutKeeps DEF IInv, EngineType
  <2>3. \A d \in Jobs : job[d] = "pending" /\ (d \in Elements(queue') => Older(d))
    BY <2>2 DEF Jobs, Found, Older
  <2>4. DecMoves
    BY <2>1, <2>3 DEF DecMoves, StatusMoves, JobMoves, BoundMoves
  <2>5. Hands
    BY <2>1, <2>2 DEF Hands, HandMoves, InLog
  <2>6. StageMoves
    BY <2>1 DEF StageMoves
  <2> QED
    BY <2>1, <2>4, <2>5, <2>6, RowsStay DEF occVars, AllMoves
<1> QED
  BY <1>1, <1>2, <1>3, <1>4, <1>5, <1>6, <1>7 DEF Follow

LEMMA CandidateMoves ==
  ASSUME IInv, NEW o \in Occ,
         \/ Adopt(o) \/ Miss(o) \/ Pass(o) \/ Prepare(o) \/ Unplayable(o) \/ Consider(o)
  PROVE  AllMoves
<1>1. pc \in {"scan", "adopted"} /\ UNCHANGED <<rev, bound, job, epoch, queue, log, seen>>
  BY DEF Adopt, Miss, Pass, Prepare, Unplayable, Consider, First, InHand, Eligible, scanned, engineVars
<1>2. StageMoves
  BY <1>1 DEF StageMoves, Adopt, Miss, Pass, Leave, Prepare, Unplayable, Consider
<1>3. CASE Prepare(o)
  <2> DEFINE d == [occ |-> o, rev |-> rev[o]]
  <2>1. /\ state' = [state EXCEPT ![o] = "READY"] /\ sel' = [sel EXCEPT ![o] = rev[o]]
        /\ status' = [status EXCEPT ![d] = "selected"] /\ state[o] = "PENDING"
    BY <1>3 DEF Prepare
  <2>2. rev[o] \in 1..MaxRevision
    BY <2>1 DEF IInv, RowType, RevisionOK
  <2>3. d \in Decision
    BY <2>2 DEF Decision
  <2>4. \A p \in Occ : /\ state'[p] = IF p = o THEN "READY" ELSE state[p]
                       /\ sel'[p] = IF p = o THEN rev[o] ELSE sel[p]
    BY <2>1 DEF IInv, RowType
  <2>5. Prepares(o) /\ status'[d] = "selected" /\ d.occ = o /\ d.rev = rev[o]
    BY <1>1, <2>1, <2>3, <2>4 DEF Prepares, IInv, DecType
  <2>6. \A e \in Decision : e # d => status'[e] = status[e]
    BY <2>1 DEF IInv, DecType
  <2>7. RowMoves
    BY <1>1, <2>4, <2>5 DEF RowMoves, RevMoves, SelMoves
  <2> HIDE DEF d
  <2>8. DecMoves
    BY <1>1, <2>5, <2>6 DEF DecMoves, StatusMoves, JobMoves, BoundMoves
  <2> QED
    BY <1>1, <1>2, <2>7, <2>8, HandsStay DEF AllMoves
<1>4. CASE Miss(o)
  <2>1. /\ state' = [state EXCEPT ![o] = "MISSED"] /\ UNCHANGED sel
        /\ \A d \in Decision : \/ status'[d] = status[d]
                               \/ status[d] \in {"selected", "submitting"} /\ status'[d] = "failed"
    BY <1>4 DEF Miss
  <2>2. RowMoves
    BY <1>1, <2>1 DEF RowMoves, RevMoves, SelMoves, IInv, RowType
  <2>3. DecMoves
    BY <1>1, <2>1 DEF DecMoves, StatusMoves, JobMoves, BoundMoves
  <2> QED
    BY <1>1, <1>2, <2>2, <2>3, HandsStay DEF AllMoves
<1>5. CASE Adopt(o) \/ Pass(o) \/ Unplayable(o) \/ Consider(o)
  <2>1. /\ UNCHANGED <<sel, status>>
        /\ state' = state \/ \E x \in {"QUEUED", "FAILED"} : state' = [state EXCEPT ![o] = x]
    BY <1>5 DEF Adopt, Pass, Unplayable, Consider
  <2>2. RowMoves
    BY <1>1, <2>1 DEF RowMoves, RevMoves, SelMoves, IInv, RowType
  <2> QED
    BY <1>1, <1>2, <2>1, <2>2, DecsStay, HandsStay DEF decVars, AllMoves
<1> QED
  BY <1>3, <1>4, <1>5

LEMMA PassMoves ==
  ASSUME IInv, Wait \/ CutIn \/ Reserve \/ Submit \/ Push \/ PushFails \/ Ack \/ ScanDone \/ WorkerCrash
  PROVE  AllMoves
<1>1. CASE Wait
  BY <1>1, DecsStay, RowsStay, HandsStay DEF Wait, scanned, decVars, engineVars, StageMoves, AllMoves
<1>2. CASE CutIn \/ Reserve
  <2>1. /\ UNCHANGED <<occVars, decVars, epoch, log>> /\ queue' \in {queue, <<>>}
        /\ dec' = Current(cur) /\ pc' = "submit" /\ pc = "check" /\ MayGo(cur)
    BY <1>2 DEF CutIn, Reserve, scanned, occVars, decVars, engineVars
  <2>2. StageMoves
    BY <2>1 DEF StageMoves, MayGo, IInv, PassOK, Considering
  <2>3. Hands
    <3>1. queue' = queue \/ (Elements(queue') = {} /\ DOMAIN queue' = {})
      BY <2>1, NothingIn
    <3>2. CASE queue' = queue
      BY <2>1, <3>2, HandsStay
    <3>3. CASE Elements(queue') = {} /\ DOMAIN queue' = {}
      BY <2>1, <3>3 DEF Hands, HandMoves, OnceIn, InLog
    <3> QED
      BY <3>1, <3>2, <3>3
  <2> QED
    BY <2>1, <2>2, <2>3, DecsStay, RowsStay DEF occVars, AllMoves
<1>3. CASE Submit
  <2>1. /\ UNCHANGED <<state, sel, rev, bound, job, dec, epoch, queue, log>>
        /\ status' = [status EXCEPT ![dec] = "submitting"] /\ pc = "submit" /\ pc' = "push"
        /\ dec \in Decision
    BY <1>3 DEF Submit, scanned, engineVars, IInv, PassOK, Decided
  <2>2. \A d \in Decision : status'[d] = IF d = dec THEN "submitting" ELSE status[d]
    BY <2>1 DEF IInv, DecType
  <2>3. DecMoves
    BY <2>1, <2>2 DEF DecMoves, StatusMoves, JobMoves, BoundMoves
  <2>4. StageMoves
    BY <2>1, <2>2 DEF StageMoves
  <2> QED
    BY <2>1, <2>3, <2>4, RowsStay, HandsStay DEF AllMoves
<1>4. ASSUME pc = "push", pc' # "push", Accept, UNCHANGED <<epoch, log>> PROVE Hands
  <2>1. dec \in Decision /\ queue \in Seq(Decision)
    BY <1>4 DEF IInv, PassOK, EngineType, Decided
  <2>2. queue' = Append(queue, dec) \/ queue' = <<dec>> \o queue
    BY <1>4 DEF Accept
  <2>3. Elements(queue') = Elements(queue) \cup {dec}
    <3>1. Elements(Append(queue, dec)) = Elements(queue) \cup {dec}
      BY <2>1, Appended
    <3>2. Elements(<<dec>> \o queue) = Elements(queue) \cup {dec}
      BY <2>1, Prepended
    <3> QED
      BY <2>2, <3>1, <3>2
  <2>4. ASSUME NEW d \in Decision PROVE HandMoves(d)
    <3>1. ASSUME OnceIn(queue, d), d \in Elements(queue) => d # dec PROVE OnceIn(queue', d)
      <4> DEFINE t == queue'
      <4>1. t = Append(queue, dec) \/ t = <<dec>> \o queue
        BY <2>2
      <4>0. OnceIn(queue, d) /\ (d \in Elements(queue) => d # dec)
        BY <3>1
      <4> HIDE DEF t
      <4>2. OnceIn(t, d)
        BY <2>1, <4>0, <4>1, OnceAfterAccept, SMTT(30)
      <4> QED
        BY <4>2 DEF t
    <3> QED
      BY <1>4, <2>3, <3>1 DEF HandMoves, InLog
  <2> QED
    BY <2>4 DEF Hands
<1>5. CASE Push
  <2>1. UNCHANGED <<occVars, decVars, epoch, log, dec>> /\ pc = "push" /\ pc' = "ack" /\ Accept
    BY <1>5 DEF Push
  <2>2. Hands
    BY <1>4, <2>1
  <2>3. StageMoves
    BY <2>1 DEF StageMoves
  <2> QED
    BY <2>1, <2>2, <2>3, DecsStay, RowsStay DEF occVars, AllMoves
<1>6. CASE PushFails \/ ScanDone \/ WorkerCrash
  <2>1. UNCHANGED <<occVars, decVars, epoch, log>> /\ pc' = "collect"
    BY <1>6 DEF PushFails, ScanDone, WorkerCrash, engineVars, Restarted
  <2>2. queue' = queue \/ (pc = "push" /\ Accept)
    BY <1>6 DEF PushFails, ScanDone, WorkerCrash, engineVars
  <2>3. Hands
    BY <1>4, <2>1, <2>2, HandsStay
  <2>4. StageMoves
    BY <2>1 DEF StageMoves
  <2> QED
    BY <2>1, <2>3, <2>4, DecsStay, RowsStay DEF occVars, AllMoves
<1>7. CASE Ack
  <2>1. /\ UNCHANGED <<sel, rev, job, epoch, queue, log>> /\ pc = "ack" /\ pc' = "collect"
        /\ status' = [status EXCEPT ![dec] = "queued"] /\ bound' = [bound EXCEPT ![dec] = epoch]
        /\ state' = [state EXCEPT ![cur] = "QUEUED"]
    BY <1>7 DEF Ack, Restarted, engineVars
  <2>2. \A d \in Decision : /\ status'[d] = IF d = dec THEN "queued" ELSE status[d]
                            /\ bound'[d] = IF d = dec THEN epoch ELSE bound[d]
    BY <2>1 DEF IInv, DecType
  <2>3. DecMoves
    BY <2>1, <2>2 DEF DecMoves, StatusMoves, JobMoves, BoundMoves
  <2>4. RowMoves
    BY <2>1 DEF RowMoves, RevMoves, SelMoves, IInv, RowType
  <2>5. StageMoves
    BY <2>1 DEF StageMoves
  <2> QED
    BY <2>1, <2>3, <2>4, <2>5, HandsStay DEF AllMoves
<1> QED
  BY <1>1, <1>2, <1>3, <1>5, <1>6, <1>7

LEMMA NextMoves == IInv /\ [Next]_vars => AllMoves
<1> SUFFICES ASSUME IInv, [Next]_vars PROVE AllMoves
  OBVIOUS
<1>1. CASE UNCHANGED vars
  BY <1>1, DecsStay, RowsStay, HandsStay, StageStays DEF vars, occVars, engineVars, memVars, AllMoves
<1>2. CASE Next
  BY <1>2, WebMoves, EngineAllMoves, FollowMoves, CandidateMoves, PassMoves DEF Next, Worker, Scan, Faults
<1> QED
  BY <1>1, <1>2

----------------------------------------------------------------------------
(* What a decision of a given status can carry. *)
NoneOK  == \A d \in Decision : status[d] = "none" => job[d] = "none" /\ bound[d] = 0
FreshOK == \A d \in Decision :
  (d.rev > rev[d.occ] \/ (d.rev = rev[d.occ] /\ state[d.occ] = "PENDING")) => status[d] = "none"
LinkOK  == \A d \in Decision : Linked(d) => job[d] = "none" /\ status[d] # "none"
DecOK   == Decided => dec \in Decision /\ job[dec] # "done" /\ status[dec] # "none"
LinksInv == NoneOK /\ FreshOK /\ LinkOK /\ DecOK

LEMMA InitLinks == Init => LinksInv
<1> SUFFICES ASSUME Init PROVE LinksInv
  OBVIOUS
<1>1. \A d \in Decision : d.occ \in Occ /\ d.rev \in 1..MaxRevision
  BY DEF Decision
<1>2. \A d \in Decision : status[d] = "none" /\ job[d] = "none" /\ bound[d] = 0 /\ ~Linked(d)
  BY <1>1 DEF Init, Linked
<1> QED
  BY <1>2 DEF Init, LinksInv, NoneOK, FreshOK, LinkOK, DecOK, Decided

LEMMA StepLinks == IInv /\ LinksInv /\ [Next]_vars => LinksInv'
<1> SUFFICES ASSUME IInv, LinksInv, [Next]_vars PROVE LinksInv'
  OBVIOUS
<1>1. AllMoves
  BY NextMoves
<1>2. \A d \in Decision : StatusMoves(d) /\ JobMoves(d) /\ BoundMoves(d)
  BY <1>1 DEF AllMoves, DecMoves
<1>3. \A d \in Decision : d.occ \in Occ /\ d.rev \in 1..MaxRevision
  BY DEF Decision
<1>4. \A o \in Occ : RevMoves(o) /\ SelMoves(o) /\ rev[o] \in Nat /\ sel[o] \in Nat /\ EventOf[o] \in Event
  BY <1>1, OccFacts DEF AllMoves, RowMoves, IInv, RowType
<1>5. \A o \in Revived : revision[EventOf[o]] \in Nat /\ rev[o] < revision[EventOf[o]]
  BY <1>4 DEF Revived, Stale, IInv, RevisionOK, RowType
<1>6. NoneOK'
  <2>1. ASSUME NEW d \in Decision, status'[d] = "none" PROVE job'[d] = "none" /\ bound'[d] = 0
    <3>1. status[d] = "none"
      BY <1>2, <2>1 DEF StatusMoves
    <3>2. job[d] = "none" /\ bound[d] = 0
      BY <3>1 DEF LinksInv, NoneOK
    <3>3. ~(pc = "ack" /\ d = dec)
      BY <3>1 DEF LinksInv, DecOK, Decided
    <3> QED
      BY <1>2, <3>1, <3>2, <3>3 DEF JobMoves, BoundMoves
  <2> QED
    BY <2>1 DEF NoneOK
<1>7. ASSUME NEW d \in Decision, d.rev > rev'[d.occ] \/ (d.rev = rev'[d.occ] /\ state'[d.occ] = "PENDING")
      PROVE  status'[d] = "none"
  <2>1. d.rev > rev[d.occ] \/ (d.rev = rev[d.occ] /\ state[d.occ] = "PENDING")
    <3>1. RevMoves(d.occ) /\ rev[d.occ] \in Nat /\ d.rev \in Nat
      BY <1>3, <1>4
    <3>2. CASE rev'[d.occ] = rev[d.occ] /\ (state'[d.occ] = "PENDING" => state[d.occ] = "PENDING")
      BY <1>7, <3>2
    <3>3. CASE d.occ \in Revived /\ rev'[d.occ] = revision[EventOf[d.occ]]
      BY <1>5, <1>7, <3>1, <3>3
    <3> QED
      BY <3>1, <3>2, <3>3 DEF RevMoves
  <2>2. status[d] = "none" /\ job[d] = "none"
    BY <2>1 DEF LinksInv, FreshOK, NoneOK
  <2>3. ~(pc \in {"submit", "ack"} /\ d = dec)
    BY <2>2 DEF LinksInv, DecOK, Decided
  <2>4. ~(Prepares(d.occ) /\ d.rev = rev[d.occ])
    <3>1. d.rev \in Nat
      BY <1>3
    <3> QED
      BY <1>7, <3>1 DEF Prepares
  <2> QED
    BY <1>2, <2>2, <2>3, <2>4 DEF StatusMoves
<1>8. ASSUME NEW d \in Decision, sel'[d.occ] = d.rev PROVE job'[d] = "none" /\ status'[d] # "none"
  <2>1. SelMoves(d.occ) /\ d.rev # 0
    BY <1>3, <1>4
  <2>2. CASE sel[d.occ] = d.rev
    <3>1. job[d] = "none" /\ status[d] # "none"
      BY <2>2 DEF LinksInv, LinkOK, Linked
    <3> QED
      BY <1>2, <1>8, <2>1, <3>1 DEF JobMoves, StatusMoves
  <2>3. CASE Prepares(d.occ) /\ sel'[d.occ] = rev[d.occ] /\ status'[[occ |-> d.occ, rev |-> rev[d.occ]]] = "selected"
    <3>1. d = [occ |-> d.occ, rev |-> rev[d.occ]]
      BY <1>8, <2>3 DEF Decision
    <3>2. status'[d] = "selected"
      BY <2>3, <3>1
    <3>3. status[d] = "none" /\ job[d] = "none"
      BY <1>8, <2>3 DEF LinksInv, FreshOK, NoneOK, Prepares
    <3> QED
      BY <1>2, <3>2, <3>3 DEF JobMoves
  <2> QED
    BY <1>8, <2>1, <2>2, <2>3 DEF SelMoves
<1>9. DecOK'
  <2>1. ASSUME pc' \in {"submit", "push", "ack"}
        PROVE  dec' \in Decision /\ job'[dec'] # "done" /\ status'[dec'] # "none"
    <3>1. StageMoves
      BY <1>1 DEF AllMoves
    <3>2. CASE Decided /\ dec' = dec
      <4>1. dec \in Decision /\ job[dec] # "done" /\ status[dec] # "none"
        BY <3>2 DEF LinksInv, DecOK
      <4>2. pc # "sweep"
        BY <3>2 DEF Decided
      <4> QED
        BY <1>2, <3>2, <4>1, <4>2 DEF JobMoves, StatusMoves
    <3>3. CASE pc = "check" /\ cur \in Occ /\ state[cur] = "READY" /\ dec' = Current(cur)
      <4>1. sel[cur] # 0
        BY <3>3 DEF IInv, RevisionOK
      <4>2. dec' \in Decision /\ dec'.occ = cur /\ dec'.rev = sel[cur]
        BY <3>3, <4>1, CurrentIs DEF Current
      <4>3. job[dec'] = "none" /\ status[dec'] # "none"
        BY <4>2 DEF LinksInv, LinkOK, Linked
      <4> QED
        BY <1>2, <3>3, <4>2, <4>3 DEF JobMoves, StatusMoves
    <3> QED
      BY <2>1, <3>1, <3>2, <3>3 DEF StageMoves, Decided
  <2> QED
    BY <2>1 DEF DecOK, Decided
<1> QED
  BY <1>6, <1>7, <1>8, <1>9 DEF LinksInv, FreshOK, LinkOK, Linked

----------------------------------------------------------------------------
(* What each step of a pass may count on: unanswered requests are resolved *)
(* before the timed events, and no occurrence still waiting has played.    *)
NoneSubmitting ==
  pc \in {"timed", "expire", "sweep", "scan", "adopted", "check", "submit"} => \A d \in Decision : status[d] # "submitting"
NotBegun ==
  pc \in {"expire", "sweep", "scan", "adopted", "check"} =>
    \A d \in Decision : Linked(d) /\ state[d.occ] \in Waiting => status[d] # "started"
HandOK == (pc = "submit" => status[dec] # "started") /\ (pc = "push" => status[dec] = "submitting")
SeenOK == pc = "resolve" => Elements(queue) \subseteq seen
StageInv == NoneSubmitting /\ NotBegun /\ HandOK /\ SeenOK

LEMMA InitStage == Init => StageInv
BY DEF Init, StageInv, NoneSubmitting, NotBegun, HandOK, SeenOK

LEMMA StepStage == IInv /\ LinksInv /\ StageInv /\ [Next]_vars => StageInv'
<1> SUFFICES ASSUME IInv, LinksInv, StageInv, [Next]_vars PROVE StageInv'
  OBVIOUS
<1>1. AllMoves /\ StageMoves
  BY NextMoves DEF AllMoves
<1>9. \A d \in Decision : d.occ \in Occ /\ d.rev \in 1..MaxRevision
  BY DEF Decision
<1>2. \A d \in Decision : StatusMoves(d) /\ HandMoves(d) /\ d.occ \in Occ /\ d.rev \in 1..MaxRevision
  BY <1>1, <1>9 DEF AllMoves, DecMoves, Hands
<1>3. \A o \in Occ : SelMoves(o)
  BY <1>1 DEF AllMoves, RowMoves
<1>4. NoneSubmitting'
  <2>1. ASSUME NEW d \in Decision, pc' \in {"timed", "expire", "sweep", "scan", "adopted", "check", "submit"}
        PROVE  status'[d] # "submitting"
    <3>1. CASE pc = "resolve" /\ \A e \in Decision : status'[e] # "submitting"
      BY <3>1
    <3>2. CASE pc \in {"timed", "expire", "sweep", "scan", "adopted", "check", "submit"}
      <4>1. status[d] # "submitting"
        BY <3>2 DEF StageInv, NoneSubmitting
      <4> QED
        BY <1>2, <2>1, <4>1 DEF StatusMoves
    <3> QED
      BY <1>1, <2>1, <3>1, <3>2 DEF StageMoves
  <2> QED
    BY <2>1 DEF NoneSubmitting
<1>5. ASSUME NEW d \in Decision, pc' \in {"expire", "sweep", "scan", "adopted", "check"},
             sel'[d.occ] = d.rev, state'[d.occ] \in Waiting
      PROVE  status'[d] # "started"
  <2>1. d = [occ |-> d.occ, rev |-> d.rev] /\ d.rev # 0
    BY <1>2 DEF Decision
  <2>2. CASE pc = "timed"
    BY <1>1, <1>2, <1>5, <2>1, <2>2 DEF StageMoves
  <2>3. CASE pc \in {"expire", "sweep", "scan", "adopted", "check"}
    <3>1. status'[d] = "started" => status[d] = "started"
      BY <1>2, <2>3 DEF StatusMoves
    <3>2. CASE sel[d.occ] = d.rev /\ state[d.occ] \in Waiting
      BY <2>3, <3>1, <3>2 DEF StageInv, NotBegun, Linked
    <3>3. CASE sel[d.occ] = d.rev /\ state[d.occ] \notin Waiting
      <4>1. state[d.occ] \notin {"absent", "CANCELLED"}
        BY <1>2, <2>1, <3>3 DEF IInv, RevisionOK
      <4>2. Moves(d.occ) \/ UNCHANGED vars
        BY <1>2, StepMoves
      <4>3. state'[d.occ] # "STARTED"
        BY <1>5 DEF Waiting
      <4>4. ~(d.occ \in Revived)
        BY <4>1 DEF Revived
      <4> QED
        BY <1>5, <3>3, <4>1, <4>2, <4>3, <4>4 DEF Moves, Waiting, vars, occVars
    <3>4. CASE sel[d.occ] # d.rev
      BY <1>2, <1>3, <1>5, <2>1, <3>4 DEF SelMoves
    <3> QED
      BY <3>2, <3>3, <3>4
  <2> QED
    BY <1>1, <1>5, <2>2, <2>3 DEF StageMoves
<1>6. HandOK'
  <2>1. ASSUME pc' = "submit" PROVE status'[dec'] # "started"
    <3>1. CASE pc = "submit" /\ dec' = dec
      <4>1. dec \in Decision /\ status[dec] # "started"
        BY <3>1 DEF LinksInv, DecOK, Decided, StageInv, HandOK
      <4> QED
        BY <1>2, <3>1, <4>1 DEF StatusMoves
    <3>2. CASE pc = "check" /\ cur \in Occ /\ state[cur] = "READY" /\ dec' = Current(cur)
      <4>1. sel[cur] # 0
        BY <3>2 DEF IInv, RevisionOK
      <4>2. dec' \in Decision /\ dec'.occ = cur /\ dec'.rev = sel[cur]
        BY <3>2, <4>1, CurrentIs DEF Current
      <4>3. status[dec'] # "started"
        BY <3>2, <4>2 DEF StageInv, NotBegun, Linked, Waiting
      <4> QED
        BY <1>2, <3>2, <4>2, <4>3 DEF StatusMoves
    <3> QED
      BY <1>1, <2>1, <3>1, <3>2 DEF StageMoves
  <2>2. ASSUME pc' = "push" PROVE status'[dec'] = "submitting"
    <3>1. CASE pc = "push" /\ dec' = dec
      <4>1. dec \in Decision /\ status[dec] = "submitting"
        BY <3>1 DEF LinksInv, DecOK, Decided, StageInv, HandOK
      <4> QED
        BY <1>2, <3>1, <4>1 DEF StatusMoves
    <3>2. CASE pc = "submit" /\ dec' = dec /\ status'[dec] = "submitting"
      BY <3>2
    <3> QED
      BY <1>1, <2>2, <3>1, <3>2 DEF StageMoves
  <2> QED
    BY <2>1, <2>2 DEF HandOK
<1>7. SeenOK'
  <2>1. queue \in Seq(Decision) /\ queue' \in Seq(Decision)
    BY NextIInv DEF IInv, EngineType
  <2>2. Elements(queue') \subseteq Decision
    BY <2>1 DEF Elements
  <2>3. ASSUME pc' = "resolve" PROVE Elements(queue') \subseteq seen'
    <3>1. CASE pc = "resolve" /\ seen' = seen
      BY <1>2, <2>2, <3>1 DEF HandMoves, StageInv, SeenOK
    <3>2. CASE seen' = Holds /\ queue' = queue
      BY <3>2 DEF Holds
    <3> QED
      BY <1>1, <2>3, <3>1, <3>2 DEF StageMoves
  <2> QED
    BY <2>3 DEF SeenOK
<1> QED
  BY <1>4, <1>5, <1>6, <1>7 DEF StageInv, NotBegun, Linked

----------------------------------------------------------------------------
(* A request whose engine has restarted since it was last bound: while it  *)
(* waits it is still unanswered, and otherwise it is nowhere.  This holds  *)
(* as long as no START of an unanswered request goes unread between the    *)
(* collection of the event file and the recovery of unanswered requests.   *)
ReadUp == pc = "resolve" => \A d \in Decision : status[d] = "submitting" => ~InLog(d)

WaitingOld == \A d \in Decision :
  Older(d) /\ d \in Elements(queue) => status[d] = "submitting" /\ OnceIn(queue, d) /\ ~InLog(d)
Elsewhere == \A d \in Decision : Older(d) /\ status[d] \in {"selected", "queued", "failed"} => Nowhere(d)
PushOld == pc = "push" /\ Older(dec) => Nowhere(dec)
OldInv == WaitingOld /\ Elsewhere /\ PushOld /\ WithdrawnIsRemoved

LEMMA InitOld == Init => OldInv
<1> SUFFICES ASSUME Init PROVE OldInv
  OBVIOUS
<1>1. Elements(queue) = {} /\ Elements(log) = {}
  BY NothingIn DEF Init
<1> QED
  BY <1>1 DEF Init, OldInv, WaitingOld, Elsewhere, PushOld, WithdrawnIsRemoved, Nowhere, InLog

LEMMA StepOld == IInv /\ LinksInv /\ StageInv /\ OldInv /\ ReadUp /\ [Next]_vars => OldInv'
<1> SUFFICES ASSUME IInv, LinksInv, StageInv, OldInv, ReadUp, [Next]_vars PROVE OldInv'
  OBVIOUS
<1>1. AllMoves /\ StageMoves
  BY NextMoves DEF AllMoves
<1>2. \A d \in Decision : StatusMoves(d) /\ JobMoves(d) /\ BoundMoves(d) /\ HandMoves(d)
  BY <1>1 DEF AllMoves, DecMoves, Hands
<1>3. \A d \in Decision : status[d] \in Statuses
  BY DEF IInv, DecType
<1>4. ASSUME NEW d \in Decision, bound'[d] \notin {0, epoch'}, epoch' = epoch
      PROVE  Older(d) /\ bound'[d] = bound[d] /\ status[d] # "none" /\ ~(pc = "ack" /\ d = dec /\ bound'[d] = epoch)
  <2>1. bound'[d] = bound[d]
    BY <1>2, <1>4 DEF BoundMoves
  <2> QED
    BY <1>4, <2>1 DEF Older, LinksInv, NoneOK
<1>5. ASSUME NEW d \in Decision, epoch' # epoch PROVE d \notin Elements(queue') /\ ~InLog(d)'
  BY <1>2, <1>5 DEF HandMoves
<1>6. ASSUME NEW d \in Decision, Nowhere(d), ~(pc = "push" /\ pc' # "push" /\ d = dec)
      PROVE  d \notin Elements(queue') /\ ~InLog(d)'
  BY <1>2, <1>6 DEF HandMoves, Nowhere
<1>7. WaitingOld'
  <2> SUFFICES ASSUME NEW d \in Decision, bound'[d] \notin {0, epoch'}, d \in Elements(queue')
               PROVE  status'[d] = "submitting" /\ OnceIn(queue', d) /\ ~InLog(d)'
    BY DEF WaitingOld, Older
  <2>1. epoch' = epoch
    BY <1>5
  <2>2. Older(d) /\ bound'[d] = bound[d] /\ bound'[d] # epoch
    BY <1>4, <2>1
  <2>3. CASE d \in Elements(queue)
    <3>1. status[d] = "submitting" /\ OnceIn(queue, d) /\ ~InLog(d)
      BY <2>2, <2>3 DEF OldInv, WaitingOld
    <3>2. ~(pc = "push" /\ d = dec)
      BY <2>2, <2>3 DEF OldInv, PushOld, Nowhere
    <3>3. OnceIn(queue', d) /\ ~InLog(d)'
      BY <1>2, <3>1, <3>2 DEF HandMoves
    <3>4. pc = "resolve" => d \in seen
      BY <2>3 DEF StageInv, SeenOK
    <3>5. pc \notin {"sweep", "scan", "adopted", "submit"}
      BY <3>1 DEF StageInv, NoneSubmitting
    <3>6. status'[d] = "submitting"
      BY <1>2, <2>2, <3>1, <3>4, <3>5 DEF StatusMoves
    <3> QED
      BY <3>3, <3>6
  <2>4. CASE d \notin Elements(queue)
    <3>1. pc = "push" /\ d = dec
      BY <1>2, <2>4 DEF HandMoves
    <3>2. status[d] = "submitting" /\ ~InLog(d)
      BY <2>2, <3>1 DEF StageInv, HandOK, OldInv, PushOld, Nowhere
    <3>3. status'[d] = "submitting"
      BY <1>2, <3>1, <3>2 DEF StatusMoves
    <3>4. OnceIn(queue, d)
      BY <2>4 DEF OnceIn, Elements
    <3> QED
      BY <1>2, <2>4, <3>2, <3>3, <3>4 DEF HandMoves
  <2> QED
    BY <2>3, <2>4
<1>8. Elsewhere'
  <2> SUFFICES ASSUME NEW d \in Decision, bound'[d] \notin {0, epoch'}, status'[d] \in {"selected", "queued", "failed"}
               PROVE  d \notin Elements(queue') /\ ~InLog(d)'
    BY DEF Elsewhere, Older, Nowhere
  <2>1. CASE epoch' # epoch
    BY <1>5, <2>1
  <2>2. CASE epoch' = epoch
    <3>1. Older(d) /\ bound'[d] = bound[d] /\ bound'[d] # epoch /\ status[d] # "none"
      BY <1>4, <2>2
    <3>2. CASE status[d] \in {"selected", "queued", "failed"}
      <4>1. Nowhere(d)
        BY <3>1, <3>2 DEF OldInv, Elsewhere
      <4>2. ~(pc = "push" /\ d = dec)
        BY <3>2 DEF StageInv, HandOK
      <4> QED
        BY <1>6, <4>1, <4>2
    <3>3. CASE status[d] = "started"
      <4>1. ~(Prepares(d.occ) /\ d.rev = rev[d.occ])
        BY <3>3 DEF Prepares, LinksInv, FreshOK
      <4> QED
        BY <1>2, <3>1, <3>3, <4>1 DEF StatusMoves
    <3>4. CASE status[d] = "submitting"
      <4>1. pc \notin {"sweep", "scan", "adopted", "submit"}
        BY <3>4 DEF StageInv, NoneSubmitting
      <4>2. pc = "resolve" /\ d \notin seen
        BY <1>2, <3>1, <3>4, <4>1 DEF StatusMoves
      <4>3. Nowhere(d)
        BY <3>4, <4>2 DEF StageInv, SeenOK, ReadUp, Nowhere
      <4> QED
        BY <1>6, <4>2, <4>3
    <3> QED
      BY <1>3, <3>1, <3>2, <3>3, <3>4 DEF Statuses
  <2> QED
    BY <2>1, <2>2
<1>9. PushOld'
  <2> SUFFICES ASSUME pc' = "push", bound'[dec'] \notin {0, epoch'}
               PROVE  dec' \notin Elements(queue') /\ ~(Line("START", dec') \in Elements(log'))
    BY DEF PushOld, Older, Nowhere, InLog
  <2>1. pc \in {"submit", "push"} /\ dec' = dec /\ dec \in Decision
    BY <1>1 DEF StageMoves, LinksInv, DecOK, Decided
  <2>2. CASE epoch' # epoch
    BY <1>5, <2>1, <2>2 DEF InLog
  <2>3. CASE epoch' = epoch
    <3>1. Older(dec) /\ status[dec] # "none"
      BY <1>4, <2>1, <2>3
    <3>2. Nowhere(dec)
      <4>1. CASE pc = "push"
        BY <3>1, <4>1 DEF OldInv, PushOld
      <4>2. CASE pc = "submit"
        <5>1. status[dec] \notin {"none", "started", "submitting"}
          BY <2>1, <3>1, <4>2 DEF StageInv, NoneSubmitting, HandOK
        <5> QED
          BY <1>3, <2>1, <3>1, <5>1 DEF OldInv, Elsewhere, Statuses
      <4> QED
        BY <2>1, <4>1, <4>2
    <3> QED
      BY <1>6, <2>1, <3>2 DEF InLog
  <2> QED
    BY <2>2, <2>3
<1>10. WithdrawnIsRemoved'
  <2> SUFFICES ASSUME NEW d \in Decision, job'[d] = "done", d \in Elements(queue') PROVE FALSE
    BY DEF WithdrawnIsRemoved
  <2>1. CASE job[d] = "done"
    <3>1. d \notin Elements(queue)
      BY <2>1 DEF OldInv, WithdrawnIsRemoved
    <3>2. pc = "push" /\ d = dec
      BY <1>2, <3>1 DEF HandMoves
    <3> QED
      BY <2>1, <3>2 DEF LinksInv, DecOK, Decided
  <2>2. CASE job[d] # "done"
    <3>1. pc = "sweep" /\ Older(d)
      BY <1>2, <2>2 DEF JobMoves
    <3>2. d \in Elements(queue)
      BY <1>2, <3>1 DEF HandMoves
    <3>3. status[d] = "submitting"
      BY <3>1, <3>2 DEF OldInv, WaitingOld
    <3> QED
      BY <3>1, <3>3 DEF StageInv, NoneSubmitting
  <2> QED
    BY <2>1, <2>2
<1> QED
  BY <1>7, <1>8, <1>9, <1>10 DEF OldInv

LEMMA OldRemoved == OldInv => WithdrawnIsRemoved
BY DEF OldInv

(* Once a cancellation has been processed its request does not wait in the *)
(* engine, whatever was restarted, lost or edited, as long as the worker   *)
(* has read every START of an unanswered request when it decides what      *)
(* became of it.                                                           *)
THEOREM WithdrawnForGood == Spec /\ []ReadUp => []WithdrawnIsRemoved
<1>1. Spec => [](IInv /\ LinksInv /\ StageInv)
  BY InitIInv, NextIInv, InitLinks, StepLinks, InitStage, StepStage, PTL DEF Spec
<1>2. Spec /\ []ReadUp => []OldInv
  BY <1>1, InitOld, StepOld, PTL DEF Spec
<1> QED
  BY <1>2, OldRemoved, PTL
=============================================================================
